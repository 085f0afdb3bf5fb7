--------------------------- MODULE SnapshotStore ----------------------------
(***************************************************************************)
(* A snapshot on disk (openvmm_helpers/src/snapshot): its publication by   *)
(* the process that captured it, and the claim of the processes that       *)
(* restore a single-use snapshot.                                          *)
(*                                                                         *)
(* Artifacts are written and flushed in a private staging directory that   *)
(* is then renamed to the destination.  Guest RAM that OpenVMM owns is     *)
(* hard-linked instead of copied, so the staging directory can hold an     *)
(* alias of the RAM of the still living source.  A host crash keeps what   *)
(* was flushed; what was not may be lost.  The names of the directories    *)
(* are unique, and what an artifact holds is left out.                     *)
(***************************************************************************)
EXTENDS Naturals, Sequences

CONSTANT Restorers   \* processes that try to restore the snapshot

VARIABLES
    place,       \* the directory: "none", "staging" or "dest"
    placed,      \* the rename is durable
    entries,     \* artifacts in the directory
    durable,     \* artifacts whose entry survives a crash
    needed,      \* artifacts the manifest declares
    plan,        \* artifacts still to be written
    publishing,  \* step of write_snapshot_with_memory_publication
    owned,       \* MemoryPublication::OwnedExactFile
    marked,      \* StagingDirectory.source_memory_alias
    alias,       \* memory.bin is a hard link of the source's RAM
    outcome,     \* result of the publication
    claim,       \* resume.claim: "none", "created" or "durable"
    restorer,    \* step of each restoring process
    resumed      \* guests that ever ran from the snapshot

directoryVars == <<place, placed, entries, durable, needed>>
publisherVars == <<plan, publishing, owned, marked, alias, outcome>>
restoreVars == <<claim, restorer, resumed>>
storeVars == <<directoryVars, publisherVars, restoreVars>>

Artifact == {"state", "memory", "scratch", "manifest"}
Publishing == {"no", "staging", "sync", "commit", "parent"}
Outcomes == {"none", "ok", "BeforeCommit", "CleanupUncertain", "Committed"}
RestorerStep == {"idle", "opened", "claiming", "claimed", "running", "over"}

StoreType ==
    /\ place \in {"none", "staging", "dest"}
    /\ placed \in BOOLEAN
    /\ durable \subseteq entries /\ entries \subseteq Artifact
    /\ needed \subseteq Artifact
    /\ plan \in Seq(Artifact)
    /\ publishing \in Publishing
    /\ owned \in BOOLEAN /\ marked \in BOOLEAN /\ alias \in BOOLEAN
    /\ outcome \in Outcomes
    /\ claim \in {"none", "created", "durable"}
    /\ restorer \in [Restorers -> RestorerStep]
    /\ resumed \in Nat

StoreInit ==
    /\ place = "none" /\ placed = FALSE
    /\ entries = {} /\ durable = {} /\ needed = {}
    /\ plan = <<>> /\ publishing = "no"
    /\ owned = FALSE /\ marked = FALSE /\ alias = FALSE
    /\ outcome = "none"
    /\ claim = "none"
    /\ restorer = [r \in Restorers |-> "idle"]
    /\ resumed = 0

-----------------------------------------------------------------------------
(* Publication. *)

(* The order in which stage_snapshot writes the artifacts. *)
Order(own, paired) ==
    <<"state">> \o (IF own THEN <<>> ELSE <<"memory">>)
                \o (IF paired THEN <<"scratch">> ELSE <<>>)
                \o <<"manifest">>
                \o (IF own THEN <<"memory">> ELSE <<>>)

(* stage_snapshot, up to the creation of the staging directory *)
BeginPublication(own, paired) ==
    /\ publishing = "no" /\ place = "none"
    /\ place' = "staging"
    /\ plan' = Order(own, paired)
    /\ needed' = IF paired THEN Artifact ELSE Artifact \ {"scratch"}
    /\ publishing' = "staging"
    /\ owned' = own
    /\ outcome' = "none"
    /\ UNCHANGED <<placed, entries, durable, marked, alias, restoreVars>>

(* What is left after the staging directory is gone, or is a directory     *)
(* nobody looks at: a failed cleanup of independent copies is only logged. *)
Gone ==
    /\ place' = "none" /\ entries' = {} /\ durable' = {} /\ needed' = {}
    /\ marked' = FALSE /\ alias' = FALSE

(* Variant: any failure before the rename counts as rollback safe. *)
AbortSafely(mark, linked) ==
    /\ publishing' = "no" /\ plan' = <<>>
    /\ \/ Gone
       \/ mark /\ marked' = mark /\ alias' = linked
          /\ UNCHANGED <<place, entries, durable, needed>>
    /\ outcome' = "BeforeCommit"
    /\ UNCHANGED <<placed, owned, restoreVars>>

(* StagingDirectory::rollback and its drop: once an alias of RAM may       *)
(* exist, a cleanup that fails is reported.  The drop tries again.         *)
Abort(mark, linked) ==
    /\ publishing' = "no" /\ plan' = <<>>
    /\ \/ Gone /\ outcome' = "BeforeCommit"
       \/ mark /\ Gone /\ outcome' = "CleanupUncertain"
       \/ mark /\ marked' = mark /\ alias' = linked
          /\ outcome' = "CleanupUncertain"
          /\ UNCHANGED <<place, entries, durable, needed>>
    /\ UNCHANGED <<placed, owned, restoreVars>>

(* write_bytes or copy_exact of the next artifact, or publish_owned_memory_file, *)
(* which falls back to a copy where hard links are not supported *)
WriteArtifact ==
    /\ publishing = "staging" /\ plan # <<>>
    /\ LET artifact == Head(plan)
           links == artifact = "memory" /\ owned
       IN \E linked \in IF links THEN BOOLEAN ELSE {FALSE} :
             \/ /\ plan' = Tail(plan)
                /\ entries' = entries \cup {artifact}
                /\ marked' = (marked \/ links)
                /\ alias' = linked
                /\ publishing' = IF Len(plan) = 1 THEN "sync" ELSE "staging"
                /\ UNCHANGED <<place, placed, durable, needed, owned, outcome, restoreVars>>
             \/ Abort(marked \/ links, linked)

(* Variant: renames first and flushes the artifacts' entries never. *)
SyncStagingSkipped ==
    /\ publishing = "sync"
    /\ publishing' = "commit"
    /\ UNCHANGED <<directoryVars, plan, owned, marked, alias, outcome, restoreVars>>

(* sync_directory of the staging directory *)
SyncStaging ==
    /\ publishing = "sync"
    /\ \/ /\ durable' = entries
          /\ publishing' = "commit"
          /\ UNCHANGED <<place, placed, entries, needed, plan, owned, marked, alias,
                         outcome, restoreVars>>
       \/ Abort(marked, alias)

(* StagingDirectory::publish *)
Rename ==
    /\ publishing = "commit"
    /\ \/ /\ place' = "dest"
          /\ publishing' = "parent"
          /\ UNCHANGED <<placed, entries, durable, needed, plan, owned, marked, alias,
                         outcome, restoreVars>>
       \/ Abort(marked, alias)

(* Variant: reports success without flushing the parent directory. *)
SyncParentSkipped ==
    /\ publishing = "parent"
    /\ publishing' = "no" /\ outcome' = "ok"
    /\ UNCHANGED <<directoryVars, plan, owned, marked, alias, restoreVars>>

(* sync_directory of the parent *)
SyncParent ==
    /\ publishing = "parent"
    /\ publishing' = "no"
    /\ \/ placed' = TRUE /\ outcome' = "ok"
       \/ outcome' = "Committed" /\ UNCHANGED placed
    /\ UNCHANGED <<place, entries, durable, needed, plan, owned, marked, alias, restoreVars>>

Publish == WriteArtifact \/ SyncStaging \/ Rename \/ SyncParent

-----------------------------------------------------------------------------
(* Restore of a snapshot whose policy is "resume". *)

SetRestorer(r, step) == restorer' = [restorer EXCEPT ![r] = step]

(* OpenedSnapshot::open with validate_snapshot_directory *)
Open(r) ==
    /\ restorer[r] = "idle"
    /\ place = "dest" /\ entries = needed /\ claim = "none"
    /\ SetRestorer(r, "opened")
    /\ UNCHANGED <<directoryVars, publisherVars, claim, resumed>>

(* Variant: relies on the claim check of open. *)
ClaimUnchecked(r) ==
    /\ restorer[r] = "opened"
    /\ claim' = "created" /\ SetRestorer(r, "claiming")
    /\ UNCHANGED <<directoryVars, publisherVars, resumed>>

(* claim_snapshot_for_restore_in_directory: creates the file exclusively. *)
Claim(r) ==
    /\ restorer[r] = "opened"
    /\ IF claim = "none"
       THEN claim' = "created" /\ SetRestorer(r, "claiming")
       ELSE SetRestorer(r, "over") /\ UNCHANGED claim
    /\ UNCHANGED <<directoryVars, publisherVars, resumed>>

(* The flushes of the claim and of its directory. *)
SyncClaim(r) ==
    /\ restorer[r] = "claiming"
    /\ \/ claim' = "durable" /\ SetRestorer(r, "claimed")
       \/ SetRestorer(r, "over") /\ UNCHANGED claim
    /\ UNCHANGED <<directoryVars, publisherVars, resumed>>

(* prepare.rs goes on to build the VM, or fails; the guest runs later. *)
RunRestored(r) ==
    /\ restorer[r] = "claimed"
    /\ \/ SetRestorer(r, "running") /\ resumed' = resumed + 1
       \/ SetRestorer(r, "over") /\ UNCHANGED resumed
    /\ UNCHANGED <<directoryVars, publisherVars, claim>>

EndRestored(r) ==
    /\ restorer[r] = "running"
    /\ SetRestorer(r, "over")
    /\ UNCHANGED <<directoryVars, publisherVars, claim, resumed>>

Restore(r) == Open(r) \/ Claim(r) \/ SyncClaim(r) \/ RunRestored(r) \/ EndRestored(r)

-----------------------------------------------------------------------------
(* The host crashes.  The processes are gone.  Entries and the rename that *)
(* were not flushed, and a claim that was not, are kept or lost.  Restores *)
(* may be tried again.                                                     *)
HostCrash ==
    /\ place' \in IF place = "dest" /\ ~placed THEN {"dest", "staging"} ELSE {place}
    /\ \E kept \in SUBSET (entries \ durable) : entries' = durable \cup kept
    /\ claim' \in IF claim = "created" THEN {"none", "durable"} ELSE {claim}
    /\ durable' = entries'
    /\ placed' = (place' = "dest")
    /\ restorer' = [r \in Restorers |-> "idle"]
    /\ publishing' = "no" /\ plan' = <<>> /\ outcome' = "none"
    /\ UNCHANGED <<needed, owned, marked, alias, resumed>>

(* The capturing process dies alone. *)
PublisherDies ==
    /\ publishing' = "no" /\ plan' = <<>> /\ outcome' = "none"
    /\ UNCHANGED <<directoryVars, owned, marked, alias, restoreVars>>

-----------------------------------------------------------------------------
(* Properties. *)

(* A snapshot that can be seen at its destination has every artifact its   *)
(* manifest declares, whatever failed and whenever the host crashed:       *)
(* stage_snapshot flushes the artifacts and their entries before the       *)
(* rename.                                                                 *)
VisibleIsComplete == place = "dest" => entries = needed

(* A single-use snapshot is resumed at most once, by however many          *)
(* processes and across host crashes: the claim is created exclusively and *)
(* flushed with its directory before the guest can run.                    *)
ResumedOnce == resumed <= 1

=============================================================================
