------------------------- MODULE GuestSnapshotProofs -------------------------
(***************************************************************************)
(* Guest snapshots are safe for any number of restoring processes, clients *)
(* and guest writes, and for crashes at any moment.  What the disk shows   *)
(* of a snapshot is complete, a source that reports success left it        *)
(* durable, and it is resumed at most once.  The source is quiet and gated *)
(* while it is captured and shared, exactly one party answers for a        *)
(* boundary, and a restored guest runs behind its gate.                    *)
(***************************************************************************)
EXTENDS GuestSnapshotWorkerProofs

(* The time a prover may take for one obligation. *)
USE SMTT(20), ZenonT(20)

-----------------------------------------------------------------------------
(* The plan of a publication. *)

LEMMA FirstOfPlan ==
  ASSUME NEW p \in Seq(Artifact), p # <<>>
  PROVE  /\ Tail(p) \in Seq(Artifact)
         /\ Elements(p) = {Head(p)} \cup Elements(Tail(p))
         /\ Len(p) = 1 => Elements(Tail(p)) = {}
         /\ Len(p) # 1 => Tail(p) # <<>>
<1> DEFINE q == Tail(p)
<1>1. Len(p) \in Nat \ {0} /\ Head(p) = p[1]
  OBVIOUS
<1>2. /\ q \in Seq(Artifact) /\ Len(q) = Len(p) - 1
      /\ \A i \in 1 .. Len(p) - 1 : q[i] = p[i + 1]
  BY <1>1
<1> HIDE DEF q
<1>3. \A i \in 1 .. Len(p) : i = 1 \/ (i - 1 \in 1 .. Len(q) /\ p[i] = q[i - 1])
  BY <1>1, <1>2
<1>4. \A i \in 1 .. Len(q) : i + 1 \in 1 .. Len(p) /\ q[i] = p[i + 1]
  BY <1>1, <1>2
<1>5. 1 \in 1 .. Len(p)
  BY <1>1
<1>6. Elements(p) = {Head(p)} \cup Elements(q)
  <2>1. Elements(p) \subseteq {Head(p)} \cup Elements(q)
    BY <1>1, <1>3 DEF Elements
  <2>2. Elements(q) \subseteq Elements(p)
    BY <1>4 DEF Elements
  <2>3. Head(p) \in Elements(p)
    BY <1>1, <1>5 DEF Elements
  <2> QED
    BY <2>1, <2>2, <2>3
<1>7. ASSUME Len(p) = 1 PROVE Elements(q) = {}
  <2>1. 1 .. Len(q) = {}
    BY <1>2, <1>7
  <2> QED
    BY <2>1, Zenon DEF Elements
<1>8. Len(p) # 1 => q # <<>>
  <2>1. Len(p) # 1 => Len(q) # 0
    BY <1>1, <1>2
  <2>2. Len(<<>>) = 0
    OBVIOUS
  <2> QED
    BY <2>1, <2>2
<1> QED
  BY <1>2, <1>6, <1>7, <1>8 DEF q

LEMMA Joint ==
  ASSUME NEW s \in Seq(Artifact), NEW t \in Seq(Artifact)
  PROVE  s \o t \in Seq(Artifact) /\ Elements(s \o t) = Elements(s) \cup Elements(t)
<1>1. /\ s \o t \in Seq(Artifact) /\ Len(s \o t) = Len(s) + Len(t)
      /\ \A i \in 1 .. Len(s) + Len(t) : (s \o t)[i] = IF i <= Len(s) THEN s[i] ELSE t[i - Len(s)]
  BY ConcatProperties
<1> DEFINE st == s \o t
<1> HIDE DEF st
<1>2. Len(s) \in Nat /\ Len(t) \in Nat
  OBVIOUS
<1>3. \A i \in 1 .. Len(s) : i \in 1 .. Len(s) + Len(t) /\ st[i] = s[i]
  BY <1>1, <1>2 DEF st
<1>4. \A i \in 1 .. Len(t) : i + Len(s) \in 1 .. Len(s) + Len(t) /\ st[i + Len(s)] = t[i]
  BY <1>1, <1>2 DEF st
<1>5. \A i \in 1 .. Len(s) + Len(t) :
         \/ i \in 1 .. Len(s) /\ st[i] = s[i]
         \/ i - Len(s) \in 1 .. Len(t) /\ st[i] = t[i - Len(s)]
  BY <1>1, <1>2 DEF st
<1>6. Len(st) = Len(s) + Len(t)
  BY <1>1 DEF st
<1>7. Elements(st) \subseteq Elements(s) \cup Elements(t)
  BY <1>5, <1>6 DEF Elements
<1>8. Elements(s) \subseteq Elements(st)
  BY <1>3, <1>6 DEF Elements
<1>9. Elements(t) \subseteq Elements(st)
  BY <1>4, <1>6 DEF Elements
<1> QED
  BY <1>1, <1>7, <1>8, <1>9 DEF st

LEMMA Pieces ==
  /\ <<>> \in Seq(Artifact) /\ Elements(<<>>) = {}
  /\ \A a \in Artifact : <<a>> \in Seq(Artifact) /\ Elements(<<a>>) = {a}
<1>1. <<>> \in Seq(Artifact) /\ Len(<<>>) = 0
  OBVIOUS
<1>2. Elements(<<>>) = {}
  <2>1. 1 .. Len(<<>>) = {}
    BY <1>1
  <2> QED
    BY <2>1, Zenon DEF Elements
<1>3. ASSUME NEW a \in Artifact PROVE <<a>> \in Seq(Artifact) /\ Elements(<<a>>) = {a}
  <2>1. <<a>> \in Seq(Artifact) /\ Len(<<a>>) = 1 /\ <<a>>[1] = a
    OBVIOUS
  <2>2. 1 .. Len(<<a>>) = {1}
    BY <2>1
  <2> QED
    BY <2>1, <2>2 DEF Elements
<1> QED
  BY <1>1, <1>2, <1>3

LEMMA PlanOf ==
  ASSUME NEW own \in BOOLEAN, NEW paired \in BOOLEAN
  PROVE  /\ Order(own, paired) \in Seq(Artifact) /\ Order(own, paired) # <<>>
         /\ Elements(Order(own, paired)) = IF paired THEN Artifact ELSE Artifact \ {"scratch"}
<1> DEFINE a == <<"state">>
           b == IF own THEN <<>> ELSE <<"memory">>
           c == IF paired THEN <<"scratch">> ELSE <<>>
           d == <<"manifest">>
           e == IF own THEN <<"memory">> ELSE <<>>
<1>1. Order(own, paired) = a \o b \o c \o d \o e
  BY DEF Order
<1>2. a \in Seq(Artifact) /\ Elements(a) = {"state"} /\ d \in Seq(Artifact) /\ Elements(d) = {"manifest"}
  BY Pieces DEF Artifact
<1>3. b \in Seq(Artifact) /\ Elements(b) = IF own THEN {} ELSE {"memory"}
  BY ZenonT(30), Pieces DEF Artifact
<1>4. c \in Seq(Artifact) /\ Elements(c) = IF paired THEN {"scratch"} ELSE {}
  BY ZenonT(30), Pieces DEF Artifact
<1>5. e \in Seq(Artifact) /\ Elements(e) = IF own THEN {"memory"} ELSE {}
  BY ZenonT(30), Pieces DEF Artifact
<1> HIDE DEF a, b, c, d, e
<1>6. a \o b \in Seq(Artifact) /\ Elements(a \o b) = Elements(a) \cup Elements(b)
  BY <1>2, <1>3, Joint
<1>7. a \o b \o c \in Seq(Artifact) /\ Elements(a \o b \o c) = Elements(a \o b) \cup Elements(c)
  BY ZenonT(30), <1>4, <1>6, Joint
<1>8. a \o b \o c \o d \in Seq(Artifact)
      /\ Elements(a \o b \o c \o d) = Elements(a \o b \o c) \cup Elements(d)
  BY ZenonT(30), <1>2, <1>7, Joint
<1>9. /\ Order(own, paired) \in Seq(Artifact)
      /\ Elements(Order(own, paired)) = Elements(a \o b \o c \o d) \cup Elements(e)
  BY ZenonT(30), <1>1, <1>5, <1>8, Joint
<1>10. Elements(Order(own, paired)) = IF paired THEN Artifact ELSE Artifact \ {"scratch"}
  BY <1>2, <1>3, <1>4, <1>5, <1>6, <1>7, <1>8, <1>9 DEF Artifact
<1> QED
  BY <1>9, <1>10, Pieces DEF Artifact

-----------------------------------------------------------------------------
(* Publication. *)

LEMMA BeginDirectory ==
  ASSUME DirectoryInv, exitCode' = exitCode,
         NEW own \in BOOLEAN, NEW paired \in BOOLEAN, BeginPublication(own, paired)
  PROVE  DirectoryInv'
<1>0. /\ plan' = Order(own, paired)
      /\ needed' = IF paired THEN Artifact ELSE Artifact \ {"scratch"}
  BY DEF BeginPublication
<1>1. plan' \in Seq(Artifact) /\ plan' # <<>> /\ Elements(plan)' = needed'
  <2>1. Elements(plan)' = Elements(Order(own, paired))
    BY <1>0 DEF Elements
  <2> QED
    BY <1>0, <2>1, PlanOf
<1>2. entries' = {} /\ durable' \subseteq entries' /\ place' = "staging" /\ publishing' = "staging"
      /\ outcome' = "none" /\ exitCode # "zero"
  BY DEF BeginPublication, DirectoryInv
<1>3. entries' \cup Elements(plan)' = needed'
  BY <1>1, <1>2
<1> QED
  BY <1>1, <1>2, <1>3 DEF DirectoryInv, Publishing

(* A publication given up leaves nothing, or a staging directory. *)
LEMMA AbortDirectory ==
  ASSUME DirectoryInv, exitCode' = exitCode, place = "staging",
         NEW mark, NEW linked, Abort(mark, linked)
  PROVE  DirectoryInv'
<1>1. publishing' = "no" /\ plan' = <<>> /\ outcome' \in {"BeforeCommit", "CleanupUncertain"}
  BY DEF Abort
<1>2. \/ place' = "none" /\ entries' = {} /\ durable' = {}
      \/ place' = "staging" /\ entries' = entries /\ durable' = durable
  BY DEF Abort, Gone
<1>3. exitCode # "zero"
  BY DEF DirectoryInv
<1>4. plan' \in Seq(Artifact)
  BY <1>1
<1> QED
  BY <1>1, <1>2, <1>3, <1>4 DEF DirectoryInv, Publishing

LEMMA PublishDirectory ==
  ASSUME DirectoryInv, exitCode' = exitCode, Publish
  PROVE  DirectoryInv'
<1>1. CASE WriteArtifact
  <2> DEFINE artifact == Head(plan)
  <2>1. publishing = "staging" /\ plan # <<>> /\ place = "staging" /\ plan \in Seq(Artifact)
        /\ exitCode # "zero"
    BY <1>1 DEF WriteArtifact, DirectoryInv
  <2>2. CASE \E mark, linked : Abort(mark, linked)
    BY <2>1, <2>2, AbortDirectory
  <2>3. CASE /\ plan' = Tail(plan) /\ entries' = entries \cup {artifact}
             /\ publishing' = IF Len(plan) = 1 THEN "sync" ELSE "staging"
             /\ UNCHANGED <<place, placed, durable, needed, outcome>>
    <3>0. Elements(plan)' = Elements(Tail(plan))
      BY <2>3 DEF Elements
    <3>6. /\ Tail(plan) \in Seq(Artifact)
          /\ Elements(plan) = {artifact} \cup Elements(Tail(plan))
          /\ Len(plan) = 1 => Elements(Tail(plan)) = {}
          /\ Len(plan) # 1 => Tail(plan) # <<>>
      BY <2>1, FirstOfPlan
    <3>1. /\ plan' \in Seq(Artifact) /\ entries' \cup Elements(plan)' = entries \cup Elements(plan)
          /\ Len(plan) = 1 => Elements(plan)' = {}
          /\ Len(plan) # 1 => plan' # <<>>
      BY <2>3, <3>0, <3>6
    <3>2. entries' \cup Elements(plan)' = needed' /\ outcome' # "ok"
      BY <2>1, <2>3, <3>1 DEF DirectoryInv
    <3>3. durable' \subseteq entries'
      BY <2>3 DEF DirectoryInv
    <3>4. CASE Len(plan) = 1
      BY <2>1, <2>3, <3>1, <3>2, <3>3, <3>4 DEF DirectoryInv, Publishing
    <3>5. CASE Len(plan) # 1
      BY <2>1, <2>3, <3>1, <3>2, <3>3, <3>5 DEF DirectoryInv, Publishing
    <3> QED
      BY <3>4, <3>5
  <2> QED
    BY <1>1, <2>2, <2>3 DEF WriteArtifact
<1>2. CASE SyncStaging
  <2>1. publishing = "sync" /\ place = "staging"
    BY <1>2 DEF SyncStaging, DirectoryInv
  <2>2. CASE Abort(marked, alias)
    BY <2>1, <2>2, AbortDirectory
  <2>3. CASE /\ durable' = entries /\ publishing' = "commit"
             /\ UNCHANGED <<place, placed, entries, needed, plan, outcome>>
    BY <2>1, <2>3 DEF DirectoryInv, Publishing
  <2> QED
    BY <1>2, <2>2, <2>3 DEF SyncStaging
<1>3. CASE Rename
  <2>1. publishing = "commit" /\ place = "staging"
    BY <1>3 DEF Rename, DirectoryInv
  <2>2. CASE Abort(marked, alias)
    BY <2>1, <2>2, AbortDirectory
  <2>3. CASE /\ place' = "dest" /\ publishing' = "parent"
             /\ UNCHANGED <<placed, entries, durable, needed, plan, outcome>>
    BY <2>1, <2>3 DEF DirectoryInv, Publishing
  <2> QED
    BY <1>3, <2>2, <2>3 DEF Rename
<1>4. CASE SyncParent
  BY <1>4 DEF SyncParent, DirectoryInv, Publishing
<1> QED
  BY <1>1, <1>2, <1>3, <1>4 DEF Publish

-----------------------------------------------------------------------------
(* Restore. *)

LEMMA SetStep ==
  ASSUME ClaimInv, NEW r \in Restorers, NEW step \in RestorerStep, SetRestorer(r, step)
  PROVE  /\ restorer' \in [Restorers -> RestorerStep] /\ restorer'[r] = step
         /\ \A s \in Restorers : s # r => restorer'[s] = restorer[s]
BY DEF ClaimInv, SetRestorer

LEMMA RestoreClaim ==
  ASSUME ClaimInv, NEW r \in Restorers, Restore(r)
  PROVE  ClaimInv'
<1> USE DEF RestorerStep
<1>1. CASE Open(r) \/ EndRestored(r)
  <2>1. PICK step \in {"opened", "over"} : SetRestorer(r, step)
    BY <1>1 DEF Open, EndRestored
  <2>2. claim' = claim /\ resumed' = resumed
    BY <1>1 DEF Open, EndRestored
  <2> QED
    BY <2>1, <2>2, SetStep DEF ClaimInv
<1>2. CASE Claim(r)
  <2>1. CASE claim = "none"
    <3>1. claim' = "created" /\ SetRestorer(r, "claiming") /\ resumed' = resumed
      BY <1>2, <2>1 DEF Claim
    <3>2. \A s \in Restorers : restorer[s] \notin {"claiming", "claimed"}
      BY <2>1 DEF ClaimInv
    <3>3. resumed = 0
      BY <2>1 DEF ClaimInv
    <3> QED
      BY <3>1, <3>2, <3>3, SetStep DEF ClaimInv
  <2>2. CASE claim # "none"
    <3>1. claim' = claim /\ SetRestorer(r, "over") /\ resumed' = resumed
      BY <1>2, <2>2 DEF Claim
    <3> QED
      BY <3>1, SetStep DEF ClaimInv
  <2> QED
    BY <2>1, <2>2
<1>3. CASE SyncClaim(r)
  <2>1. restorer[r] = "claiming" /\ resumed' = resumed /\ resumed = 0
    BY <1>3 DEF SyncClaim, ClaimInv
  <2>2. CASE claim' = "durable" /\ SetRestorer(r, "claimed")
    BY <2>1, <2>2, SetStep DEF ClaimInv
  <2>3. CASE claim' = claim /\ SetRestorer(r, "over")
    BY <2>1, <2>3, SetStep DEF ClaimInv
  <2> QED
    BY <1>3, <2>2, <2>3 DEF SyncClaim
<1>4. CASE RunRestored(r)
  <2>1. restorer[r] = "claimed" /\ claim' = claim /\ claim = "durable" /\ resumed = 0
    BY <1>4 DEF RunRestored, ClaimInv
  <2>2. CASE SetRestorer(r, "running") /\ resumed' = resumed + 1
    <3>1. \A s \in Restorers : s # r => restorer[s] \notin {"claiming", "claimed"}
      BY <2>1 DEF ClaimInv
    <3>2. resumed' = 1
      BY <2>1, <2>2
    <3> QED
      BY <2>1, <2>2, <3>1, <3>2, SetStep DEF ClaimInv
  <2>3. CASE SetRestorer(r, "over") /\ resumed' = resumed
    BY <2>1, <2>3, SetStep DEF ClaimInv
  <2> QED
    BY <1>4, <2>2, <2>3 DEF RunRestored
<1> QED
  BY <1>1, <1>2, <1>3, <1>4 DEF Restore

-----------------------------------------------------------------------------
(* Faults and the composition. *)

LEMMA CrashStore ==
  ASSUME StoreInv, HostCrash, exitCode' = exitCode
  PROVE  StoreInv'
<1>1. DirectoryInv'
  <2>1. durable' = entries' /\ publishing' = "no" /\ plan' = <<>> /\ outcome' = "none"
        /\ needed' = needed /\ placed' = (place' = "dest")
    BY DEF HostCrash
  <2>2. place = "none" => place' = "none" /\ entries' = {}
    BY DEF HostCrash, StoreInv, DirectoryInv
  <2>3. place = "staging" => place' = "staging"
    BY DEF HostCrash
  <2>4. place = "dest" => entries' = entries
    BY DEF HostCrash, StoreInv, DirectoryInv
  <2>5. place' \in {place, "staging"} /\ (place = "dest" /\ placed => place' = "dest")
    BY DEF HostCrash
  <2>6. plan' \in Seq(Artifact)
    BY <2>1
  <2>7. exitCode = "zero" => place' = "dest" /\ placed'
    BY ZenonT(30), <2>1, <2>5 DEF StoreInv, DirectoryInv
  <2>8. place' = "dest" => entries' = needed'
    BY <2>1, <2>4, <2>5 DEF StoreInv, DirectoryInv
  <2>9. place' = "none" => entries' = {}
    BY <2>2, <2>5
  <2> QED
    BY <2>1, <2>6, <2>7, <2>8, <2>9 DEF DirectoryInv, Publishing
<1>2. ClaimInv'
  <2>1. restorer' = [r \in Restorers |-> "idle"] /\ resumed' = resumed
        /\ (claim = "durable" => claim' = "durable")
    BY DEF HostCrash
  <2> QED
    BY <2>1 DEF StoreInv, ClaimInv, RestorerStep
<1> QED
  BY <1>1, <1>2 DEF StoreInv

(* A step that leaves the store alone. *)
LEMMA QuietStore ==
  ASSUME StoreInv, UNCHANGED storeVars, exitCode' \in {exitCode, "one"}
  PROVE  StoreInv'
<1>1. UNCHANGED directoryVars /\ UNCHANGED publisherVars /\ UNCHANGED restoreVars
  BY DEF storeVars
<1>2. Elements(plan)' = Elements(plan)
  BY <1>1 DEF publisherVars, Elements
<1>3. DirectoryInv'
  BY <1>1, <1>2 DEF StoreInv, DirectoryInv, directoryVars, publisherVars
<1>4. ClaimInv'
  BY <1>1 DEF StoreInv, ClaimInv, restoreVars
<1> QED
  BY <1>3, <1>4 DEF StoreInv

LEMMA SameClaim ==
  ASSUME ClaimInv, UNCHANGED restoreVars
  PROVE  ClaimInv'
BY DEF ClaimInv, restoreVars

(* Publication, and what the controller makes of its outcome. *)
LEMMA ControllerStore ==
  ASSUME StoreInv, PreparePublication \/ PublishStep \/ PublicationOver
  PROVE  StoreInv'
<1>1. CASE PreparePublication
  <2>1. CASE /\ \E own, paired \in BOOLEAN : BeginPublication(own, paired)
             /\ exitCode' = exitCode
    <3>1. PICK own \in BOOLEAN, paired \in BOOLEAN : BeginPublication(own, paired)
      BY <2>1
    <3>2. UNCHANGED restoreVars
      BY <3>1 DEF BeginPublication, restoreVars
    <3> QED
      BY <2>1, <3>1, <3>2, BeginDirectory, SameClaim DEF StoreInv
  <2>2. CASE UNCHANGED storeVars /\ exitCode' = exitCode
    BY <2>2, QuietStore
  <2> QED
    BY <1>1, <2>1, <2>2 DEF PreparePublication, Stay, Ask, Call
<1>2. CASE PublishStep
  <2>1. Publish /\ exitCode' = exitCode
    BY <1>2 DEF PublishStep, controllerVars
  <2>2. UNCHANGED restoreVars
    BY ZenonT(30), <2>1 DEF Publish, WriteArtifact, SyncStaging, Rename, SyncParent, Abort, restoreVars
  <2> QED
    BY <2>1, <2>2, PublishDirectory, SameClaim DEF StoreInv
<1>3. CASE PublicationOver
  <2>1. /\ UNCHANGED <<directoryVars, restoreVars, plan, publishing>> /\ outcome' = "none"
        /\ outcome # "ok" => exitCode' \in {exitCode, "one"}
    BY <1>3 DEF PublicationOver, Terminate, Ask, Call
  <2>2. Elements(plan)' = Elements(plan)
    BY <2>1 DEF Elements
  <2>3. DirectoryInv'
    BY <2>1, <2>2 DEF StoreInv, DirectoryInv, directoryVars
  <2> QED
    BY <2>1, <2>3, SameClaim DEF StoreInv
<1> QED
  BY <1>1, <1>2, <1>3

LEMMA NextStore == StoreInv /\ [Next]_vars => StoreInv'
<1> SUFFICES ASSUME StoreInv, [Next]_vars
             PROVE  StoreInv'
  OBVIOUS
<1>1. CASE WorkerNext /\ UNCHANGED <<storeVars, controllerVars>>
  BY <1>1, QuietStore DEF controllerVars
<1>2. CASE GuestContinues \/ QuiesceAnswered \/ CallAnswered \/ Leave
  <2>1. UNCHANGED storeVars
    BY <1>2 DEF GuestContinues, QuiesceAnswered, CallAnswered, Leave
  <2>2. exitCode' \in {exitCode, "one"}
    BY <1>2 DEF GuestContinues, QuiesceAnswered, CallAnswered, Leave, Continue, Terminate, Ask, Call,
       Stay
  <2> QED
    BY <2>1, <2>2, QuietStore
<1>3. CASE PreparePublication \/ PublishStep \/ PublicationOver
  BY <1>3, ControllerStore
<1>4. CASE TakeNotice \/ PowerEvent \/ SaveSnapshot \/ Quit
  <2>1. UNCHANGED storeVars /\ exitCode' = exitCode
    BY <1>4 DEF TakeNotice, PowerEvent, SaveSnapshot, Quit, Ask, Call, controllerVars
  <2> QED
    BY <2>1, QuietStore
<1>5. ASSUME NEW r \in Restorers, Restore(r), UNCHANGED controllerVars
      PROVE  StoreInv'
  <2>1. UNCHANGED directoryVars /\ UNCHANGED publisherVars /\ exitCode' = exitCode
    BY <1>5 DEF Restore, Open, Claim, SyncClaim, RunRestored, EndRestored, controllerVars
  <2>2. Elements(plan)' = Elements(plan)
    BY <2>1 DEF publisherVars, Elements
  <2>3. DirectoryInv'
    BY <2>1, <2>2 DEF StoreInv, DirectoryInv, directoryVars, publisherVars
  <2> QED
    BY <1>5, <2>3, RestoreClaim DEF StoreInv
<1>6. CASE SourceDies
  <2>1. /\ UNCHANGED <<directoryVars, restoreVars>> /\ exitCode' = exitCode
        /\ publishing' = "no" /\ plan' = <<>> /\ outcome' = "none"
    BY <1>6 DEF SourceDies, PublisherDies, ProcessGone
  <2>2. plan' \in Seq(Artifact)
    BY <2>1
  <2>3. DirectoryInv'
    BY <2>1, <2>2 DEF StoreInv, DirectoryInv, directoryVars, Publishing
  <2> QED
    BY <2>1, <2>3, SameClaim DEF StoreInv
<1>7. CASE Crashes
  BY <1>7, CrashStore DEF Crashes, ProcessGone
<1>8. CASE UNCHANGED vars
  BY <1>8, QuietStore DEF vars, controllerVars
<1> QED
  BY <1>1, <1>2, <1>3, <1>4, <1>5, <1>6, <1>7, <1>8 DEF Next, StepController

LEMMA InitStore == Init => StoreInv
<1> SUFFICES ASSUME Init PROVE StoreInv
  OBVIOUS
<1>1. StoreInit /\ exitCode = "none"
  BY DEF Init
<1>2. plan \in Seq(Artifact)
  BY <1>1 DEF StoreInit
<1>3. DirectoryInv
  BY <1>1, <1>2 DEF StoreInit, DirectoryInv, Publishing
<1>4. ClaimInv
  BY <1>1 DEF StoreInit, ClaimInv, RestorerStep
<1> QED
  BY <1>3, <1>4 DEF StoreInv

LEMMA StoreHolds == Spec => []StoreInv
BY InitStore, NextStore, PTL DEF Spec

-----------------------------------------------------------------------------
(* A snapshot at its destination has every artifact its manifest declares, *)
(* whatever failed and whenever the process or the host crashed.           *)
THEOREM Completeness == Spec => []VisibleIsComplete
<1>1. StoreInv => VisibleIsComplete
  BY DEF StoreInv, DirectoryInv, VisibleIsComplete
<1> QED
  BY <1>1, StoreHolds, PTL

(* A single-use snapshot is resumed at most once, however many processes   *)
(* try and however often the host crashes.                                 *)
THEOREM SingleUse == Spec => []ResumedOnce
<1>1. StoreInv => ResumedOnce
  BY DEF StoreInv, ClaimInv, ResumedOnce
<1> QED
  BY <1>1, StoreHolds, PTL

(* A source that exits with zero leaves a complete and durable snapshot. *)
THEOREM ReportedIsDurable == Spec => []ExitZeroIsDurable
<1>1. StoreInv => ExitZeroIsDurable
  BY DEF StoreInv, DirectoryInv, ExitZeroIsDurable
<1> QED
  BY <1>1, StoreHolds, PTL

-----------------------------------------------------------------------------
(* From here on most steps are first-order: Zenon is tried first. *)
USE ZenonT(20), SMTT(20)

-----------------------------------------------------------------------------
(* Steps of the controller. *)

LEMMA ControlFrame ==
  ASSUME Controls
  PROVE  UNCHANGED <<lifecycleVars, flagVars, taskVars, inputVars, portVars, restoreVars>>
<1>1. OnlyController
  BY DEF Controls, GuestContinues, QuiesceAnswered, PreparePublication, PublicationOver,
     CallAnswered, Leave, TakeNotice, PowerEvent, SaveSnapshot, Quit
<1>2. UNCHANGED restoreVars
  <2>1. CASE PreparePublication \/ PublicationOver
    BY <2>1 DEF PreparePublication, PublicationOver, BeginPublication, storeVars
  <2>2. CASE UNCHANGED storeVars
    BY <2>2 DEF storeVars
  <2> QED
    BY <2>1, <2>2 DEF Controls, GuestContinues, QuiesceAnswered, CallAnswered, Leave,
       TakeNotice, PowerEvent, SaveSnapshot, Quit
<1> QED
  BY <1>1, <1>2 DEF OnlyController

(* The parts of the invariant that the controller does not take part in. *)
LEMMA AsideParts ==
  ASSUME Held, UNCHANGED <<lifecycleVars, flagVars, taskVars, inputVars, portVars>>
  PROVE  ScriptInv' /\ OpInv' /\ UnitInv' /\ RestoreInv' /\ InputInv' /\ PortInv'
<1>1. ScriptInv /\ OpInv /\ UnitInv /\ RestoreInv /\ InputInv /\ PortInv
  BY DEF Held, WorkerInv
<1> USE DEF lifecycleVars, flagVars, taskVars, inputVars, portVars, Taking, Up, Down, Agree
<1>2. ScriptInv'
  <2>1. Pre(serving, Head(steps))' <=> Pre(serving, Head(steps))
    BY DEF Pre
  <2>2. steps' = steps /\ serving' = serving /\ microvm' = microvm
        /\ gateTimeout' = gateTimeout /\ readySink' = readySink
    OBVIOUS
  <2> QED
    BY <1>1, <2>1, <2>2 DEF ScriptInv
<1>3. OpInv' /\ UnitInv'
  BY <1>1 DEF OpInv, UnitInv
<1>4. RestoreInv' /\ InputInv'
  BY <1>1 DEF RestoreInv, InputInv, GateHeld, InputHeld
<1>5. PortInv'
  BY <1>1 DEF PortInv, Requested, UnitsActive
<1> QED
  BY <1>2, <1>3, <1>4, <1>5

LEMMA ControlProfile ==
  ASSUME Held, Controls
  PROVE  ProfileInv'
<1>1. ProfileInv /\ orders \in Seq({"Stop", "Restart"})
  BY DEF Held, WorkerInv, Types, ChannelType
<1>2. UNCHANGED <<microvm, boundary, gateTimeout, serving, pending, restartFailed>>
  BY ControlFrame DEF flagVars, taskVars, portVars
<1>3. \/ orders' = orders \/ orders' = <<"Stop">> \/ orders' = Append(orders, "Stop")
  BY DEF Controls, GuestContinues, QuiesceAnswered, PreparePublication, PublicationOver,
     CallAnswered, Leave, TakeNotice, PowerEvent, SaveSnapshot, Quit, Ask, Call, Stay, Continue,
     Terminate, channelVars
<1>4. \A i \in 1 .. Len(orders') : orders'[i] = "Restart" => \E j \in 1 .. Len(orders) : orders[j] = "Restart"
  <2>1. CASE orders' = <<"Stop">>
    BY SMTT(20), <2>1
  <2>2. CASE orders' = Append(orders, "Stop")
    BY SMTT(20), <1>1, <2>2
  <2> QED
    BY <1>3, <2>1, <2>2
<1> QED
  BY <1>1, <1>2, <1>4 DEF ProfileInv

LEMMA AnsweredReply == Held => \A state : Answered(state) => controller = state /\ reply # "none"
BY DEF Held, Answered

(* The call that the controller waits for is over, or it waits for none. *)
LEMMA ControlQueue ==
  ASSUME Held, Controls
  PROVE  QueueInv'
<1>1. QueueInv /\ ChannelType
  BY DEF Held, WorkerInv, Types
<1>2. UNCHANGED serving
  BY ControlFrame DEF taskVars
<1>a. /\ Awaited \in ControllerRpcs \cup {"none"}
      /\ {"ReleaseSnapshotBoundary", "QuiesceForSnapshot", "ResumeAfterFailedSnapshot", "PowerReset",
          "PauseToSave", "Save"} \subseteq ControllerRpcs
  BY DEF Awaited, ControllerRpcs
<1>3. ASSUME NEW m \in ControllerRpcs, NEW state, Call(m, state), Awaited = "none" \/ reply # "none",
             controller' = state => Awaited' = m
      PROVE  QueueInv'
  BY <1>1, <1>2, <1>3, QueueCall DEF Call
<1>4. CASE UNCHANGED <<rpcs, client>> /\ (Awaited = "none" \/ reply # "none")
  BY <1>1, <1>2, <1>4, QueueDone
<1>5. /\ controller' = "release" => Awaited' = "ReleaseSnapshotBoundary"
      /\ controller' = "quiesce" => Awaited' = "QuiesceForSnapshot"
      /\ controller' = "rollback" => Awaited' = "ResumeAfterFailedSnapshot"
      /\ controller' = "reset" => Awaited' = "PowerReset"
      /\ controller' = "pausing" => Awaited' = "PauseToSave"
      /\ controller' = "saving" => Awaited' = "Save"
      /\ controller \in {"idle", "publish", "exit"} => Awaited = "none"
  BY DEF Awaited
<1>6. CASE GuestContinues
  BY <1>4, <1>6, AnsweredReply DEF GuestContinues, Continue, Terminate, channelVars
<1>7. CASE QuiesceAnswered
  <2>1. reply # "none"
    BY <1>7, AnsweredReply DEF QuiesceAnswered
  <2>2. \/ Call("ReleaseSnapshotBoundary", "release") \/ Call("ResumeAfterFailedSnapshot", "rollback")
        \/ UNCHANGED <<rpcs, client>>
    BY <1>7 DEF QuiesceAnswered, Ask, Stay, Terminate, channelVars
  <2> QED
    BY <1>a, <1>3, <1>4, <1>5, <2>1, <2>2
<1>8. CASE PreparePublication \/ PublicationOver
  <2>1. Awaited = "none"
    BY <1>5, <1>8 DEF PreparePublication, PublicationOver
  <2>2. Call("ResumeAfterFailedSnapshot", "rollback") \/ UNCHANGED <<rpcs, client>>
    BY <1>8 DEF PreparePublication, PublicationOver, Ask, Stay, Terminate, channelVars
  <2> QED
    BY <1>a, <1>3, <1>4, <1>5, <2>1, <2>2
<1>9. CASE CallAnswered
  <2>1. reply # "none"
    BY <1>9, AnsweredReply DEF CallAnswered
  <2>2. Call("Save", "saving") \/ UNCHANGED <<rpcs, client>>
    BY <1>9 DEF CallAnswered, Ask, Continue
  <2> QED
    BY <1>a, <1>3, <1>4, <1>5, <2>1, <2>2
<1>10. CASE Leave
  BY <1>4, <1>5, <1>10 DEF Leave
<1>11. CASE TakeNotice
  <2>1. controller = "idle" /\ \/ Call("ReleaseSnapshotBoundary", "release")
                               \/ Call("QuiesceForSnapshot", "quiesce")
    BY <1>11 DEF TakeNotice
  <2> QED
    BY <1>a, <1>3, <1>5, <2>1
<1>12. CASE PowerEvent \/ SaveSnapshot
  <2>1. controller = "idle" /\ (Call("PowerReset", "reset") \/ Call("PauseToSave", "pausing"))
    BY <1>12 DEF PowerEvent, SaveSnapshot, Ask
  <2> QED
    BY <1>a, <1>3, <1>5, <2>1
<1>13. CASE Quit
  BY <1>4, <1>5, <1>13 DEF Quit
<1> QED
  BY <1>6, <1>7, <1>8, <1>9, <1>10, <1>11, <1>12, <1>13 DEF Controls

(* Whoever answers for a boundary is told once, and passes it on or ends   *)
(* the VM.                                                                 *)
LEMMA ControlBoundary ==
  ASSUME Held, Controls
  PROVE  BoundaryInv'
<1>1. BoundaryInv
  BY DEF Held, WorkerInv
<1>2. UNCHANGED <<boundary, condemned, serving, steps, worker, vmRunning, unitsRunning, present, input, lag>>
  BY ControlFrame DEF lifecycleVars, flagVars, taskVars, inputVars
<1>r. UNCHANGED <<InputHeld, Up>>
  BY <1>2 DEF InputHeld, Up
<1>q. serving \in ControllerRpcs => serving = Awaited
  BY DEF Held, WorkerInv, QueueInv
<1>3. CASE Aside /\ Aside' /\ UNCHANGED notices /\ controller' # "quiesce"
  <2>1. ~condemned
    BY <1>1, <1>3 DEF BoundaryInv, Aside
  <2> QED
    BY <1>1, <1>2, <1>r, <1>3, <2>1 DEF BoundaryInv, Unanswered
<1>4. CASE /\ ~Aside /\ controller' \in {"exit", "done"} /\ UNCHANGED notices
  <2>1. ~Aside' /\ ~Unanswered'
    BY <1>4 DEF Aside, Unanswered
  <2> QED
    BY <1>1, <1>2, <1>4, <2>1 DEF BoundaryInv
<1>5. CASE /\ ~Aside /\ controller' = "rollback" /\ reply' = "none" /\ UNCHANGED notices
           /\ \/ controller = "publish"
              \/ controller = "quiesce" /\ reply # "Uncertain"
  <2>1. ~Aside' /\ ~Unanswered' /\ ~condemned
    BY <1>1, <1>5 DEF BoundaryInv, Aside, Unanswered
  <2> QED
    BY <1>1, <1>2, <1>5, <2>1 DEF BoundaryInv
<1>6. CASE GuestContinues
  <2>1. controller \in {"release", "rollback"} /\ reply # "none"
    BY <1>6, AnsweredReply DEF GuestContinues
  <2>2. CASE reply = "ok"
    <3>1. controller' = "idle" /\ UNCHANGED notices
      BY <1>6, <2>1, <2>2 DEF GuestContinues, Result, Continue
    <3> QED
      BY <1>3, <2>1, <2>2, <3>1 DEF Aside
  <2>3. CASE reply # "ok"
    <3>1. controller' = "exit" /\ UNCHANGED notices
      BY <1>6, <2>1, <2>3 DEF GuestContinues, Result, Terminate, channelVars
    <3> QED
      BY <1>4, <2>1, <2>3, <3>1 DEF Aside
  <2> QED
    BY <2>2, <2>3
<1>7. CASE QuiesceAnswered
  <2>0. controller = "quiesce" /\ reply # "none"
    BY <1>7, AnsweredReply DEF QuiesceAnswered
  <2>1. /\ controller = "quiesce" /\ reply # "none" /\ ~Aside /\ reply # "Rejected"
        /\ Result = reply
    BY <1>1, <2>0 DEF Aside, BoundaryInv, Result
  <2>2. CASE reply = "ok"
    <3>1. controller' = "publish" /\ UNCHANGED notices
      BY <1>7, <2>1, <2>2 DEF QuiesceAnswered, Stay, channelVars
    <3>2. ~Aside' /\ ~Unanswered' /\ ~condemned
      BY <1>1, <2>1, <2>2, <3>1 DEF BoundaryInv, Aside, Unanswered
    <3> QED
      BY <1>1, <1>2, <1>r, <2>1, <3>1, <3>2 DEF BoundaryInv
  <2>3. CASE reply = "RollbackSafe"
    BY <1>5, <1>7, <2>1, <2>3 DEF QuiesceAnswered, Ask, Call
  <2>4. CASE reply \notin {"ok", "RollbackSafe"}
    BY <1>4, <1>7, <2>1, <2>4 DEF QuiesceAnswered, Terminate, channelVars
  <2> QED
    BY <2>2, <2>3, <2>4
<1>8. CASE PreparePublication
  <2>1. controller = "publish" /\ ~Aside
    BY <1>8 DEF PreparePublication, Aside
  <2>2. CASE UNCHANGED <<controller, notices, reply>>
    BY <1>1, <1>2, <1>r, <2>2 DEF BoundaryInv, Aside, Unanswered
  <2> QED
    BY <1>5, <1>8, <2>1, <2>2 DEF PreparePublication, Ask, Call, Stay, channelVars
<1>9. CASE PublicationOver
  <2>1. controller = "publish" /\ ~Aside
    BY <1>9 DEF PublicationOver, Aside
  <2> QED
    BY <1>4, <1>5, <1>9, <2>1 DEF PublicationOver, Ask, Call, Terminate, channelVars
<1>10. CASE CallAnswered
  <2>1. controller \in {"pausing", "saving", "reset"}
    BY <1>10, AnsweredReply DEF CallAnswered
  <2>2. controller' \in {"saving", "idle"} /\ UNCHANGED notices
    BY <1>10 DEF CallAnswered, Ask, Call, Continue
  <2> QED
    BY <1>3, <2>1, <2>2 DEF Aside
<1>11. CASE Leave
  <2>1. controller = "exit"
    BY <1>11 DEF Leave, Held
  <2> QED
    BY <1>4, <1>11, <2>1 DEF Leave, Aside
<1>12. CASE TakeNotice
  <2>1. controller = "idle" /\ notices > 0 /\ notices' = notices - 1
    BY <1>12 DEF TakeNotice
  <2>2. Aside /\ Unanswered
    BY <2>1 DEF Aside, Unanswered
  <2>3. notices = 1 /\ boundary
    BY SMTT(20), <1>1, <2>1, <2>2 DEF BoundaryInv
  <2>4. notices' = 0
    BY SMTT(20), <2>1, <2>3
  <2>5. serving \notin Releasers
    BY <1>q, <2>1 DEF Awaited, Releasers, ControllerRpcs
  <2>6. controller' \in {"release", "quiesce"} /\ reply' = "none"
    BY <1>12 DEF TakeNotice, Call
  <2>7. ~Aside' /\ ~condemned
    BY <1>1, <2>1, <2>6 DEF Aside, BoundaryInv
  <2> QED
    BY <1>1, <1>2, <1>r, <2>2, <2>3, <2>4, <2>5, <2>6, <2>7 DEF BoundaryInv
<1>13. CASE PowerEvent \/ SaveSnapshot
  <2>1. controller = "idle" /\ controller' \in {"reset", "pausing"} /\ UNCHANGED notices
    BY <1>13 DEF PowerEvent, SaveSnapshot, Ask, Call
  <2> QED
    BY <1>3, <2>1 DEF Aside
<1>14. CASE Quit
  BY <1>3, <1>14 DEF Quit, Aside, controllerVars
<1> QED
  BY <1>6, <1>7, <1>8, <1>9, <1>10, <1>11, <1>12, <1>13, <1>14 DEF Controls

LEMMA ControlCapture ==
  ASSUME Held, Controls
  PROVE  CaptureInv'
<1>1. CaptureInv
  BY DEF Held, WorkerInv
<1>2. Captured' <=> Captured
  <2>1. UNCHANGED <<boundary, vmRunning, unitsRunning, present, steps, serving>>
    BY ControlFrame DEF lifecycleVars, flagVars, taskVars
  <2> QED
    BY <2>1 DEF Captured, Down
<1>3. CASE /\ UNCHANGED <<publishing, outcome, alias, place>> /\ controller' # "publish"
           /\ controller # "publish" \/ (publishing = "no" /\ outcome = "none")
           /\ controller \in {"exit", "done"} => controller' \in {"exit", "done"}
           /\ controller' = "quiesce" => reply' # "ok"
  BY <1>1, <1>2, <1>3 DEF CaptureInv
<1>4. CASE UNCHANGED <<publishing, outcome, alias, place, controller, reply>>
  BY <1>1, <1>2, <1>4 DEF CaptureInv
<1>s. UNCHANGED storeVars => UNCHANGED <<publishing, outcome, alias, place>>
  BY DEF storeVars, publisherVars, directoryVars
<1>5. CASE GuestContinues
  <2>1. controller \in {"release", "rollback"} /\ controller' \in {"idle", "exit"}
    BY <1>5, AnsweredReply DEF GuestContinues, Continue, Terminate
  <2> QED
    BY <1>3, <1>s, <1>5, <2>1 DEF GuestContinues
<1>6. CASE QuiesceAnswered
  <2>1. controller = "quiesce" /\ reply # "none" /\ Result = reply /\ UNCHANGED <<publishing, outcome, alias, place>>
    BY <1>s, <1>6, AnsweredReply DEF QuiesceAnswered, Result
  <2>2. CASE reply = "ok"
    <3>1. controller' = "publish" /\ Captured
      BY <1>1, <1>6, <2>1, <2>2 DEF QuiesceAnswered, CaptureInv
    <3> QED
      BY <1>1, <1>2, <2>1, <3>1 DEF CaptureInv
  <2>3. CASE reply # "ok"
    <3>1. controller' \in {"release", "rollback", "exit"}
      BY <1>6, <2>1, <2>3 DEF QuiesceAnswered, Ask, Call, Terminate
    <3> QED
      BY <1>3, <2>1, <3>1
  <2> QED
    BY <2>2, <2>3
<1>7. CASE PreparePublication
  <2>1. controller = "publish" /\ publishing = "no" /\ outcome = "none"
    BY <1>7 DEF PreparePublication
  <2>2. CASE Ask("ResumeAfterFailedSnapshot", "rollback") /\ UNCHANGED storeVars
    BY <1>3, <1>s, <2>1, <2>2 DEF Ask, Call
  <2>3. CASE (\E own, paired \in BOOLEAN : BeginPublication(own, paired)) /\ UNCHANGED controller
    <3>1. place' = "staging" /\ publishing' = "staging" /\ outcome' = "none" /\ UNCHANGED <<alias, controller>>
      BY <2>3 DEF BeginPublication
    <3> QED
      BY <1>1, <1>2, <2>1, <3>1 DEF CaptureInv
  <2> QED
    BY <1>7, <2>2, <2>3 DEF PreparePublication
<1>8. CASE PublicationOver
  <2>1. /\ controller = "publish" /\ outcome # "none" /\ outcome' = "none"
        /\ UNCHANGED <<publishing, alias, place>>
        /\ controller' = "exit" \/ (controller' = "rollback" /\ outcome = "BeforeCommit")
    BY <1>8 DEF PublicationOver, directoryVars, Ask, Call, Terminate
  <2>2. publishing = "no" /\ (outcome = "BeforeCommit" => ~alias /\ place = "none")
    BY <1>1, <2>1 DEF CaptureInv
  <2> QED
    BY <1>1, <1>2, <2>1, <2>2 DEF CaptureInv
<1>9. CASE CallAnswered
  <2>1. controller \in {"pausing", "saving", "reset"} /\ controller' \in {"saving", "idle"}
    BY <1>9, AnsweredReply DEF CallAnswered, Ask, Call, Continue
  <2> QED
    BY <1>3, <1>s, <1>9, <2>1 DEF CallAnswered
<1>10. CASE Leave
  BY <1>3, <1>s, <1>10 DEF Leave
<1>11. CASE TakeNotice
  BY <1>3, <1>s, <1>11 DEF TakeNotice, Call
<1>12. CASE PowerEvent \/ SaveSnapshot
  BY <1>3, <1>s, <1>12 DEF PowerEvent, SaveSnapshot, Ask, Call
<1>13. CASE Quit
  BY <1>4, <1>s, <1>13 DEF Quit, controllerVars
<1> QED
  BY <1>5, <1>6, <1>7, <1>8, <1>9, <1>10, <1>11, <1>12, <1>13 DEF Controls

(* Publication, which shares the RAM and commits. *)
LEMMA PublishCapture ==
  ASSUME Held, PublishStep
  PROVE  CaptureInv'
<1>1. CaptureInv
  BY DEF Held, WorkerInv
<1>2. controller = "publish" /\ Publish /\ UNCHANGED <<controller, Captured>>
  BY DEF PublishStep, workerVars, controllerVars, Captured, Down, lifecycleVars, flagVars,
     taskVars
<1>3. Captured
  BY <1>1, <1>2 DEF CaptureInv
<1>4. /\ publishing' # "no" \/ outcome' # "none"
      /\ publishing' # "no" => outcome' = "none"
      /\ outcome' = "BeforeCommit" => ~alias' /\ place' = "none"
  <2>1. publishing # "no" /\ outcome = "none"
    BY <1>1, <1>2 DEF CaptureInv, Publish, WriteArtifact, SyncStaging, Rename, SyncParent
  <2>2. \A mark, linked : Abort(mark, linked) =>
           /\ publishing' = "no" /\ outcome' \in {"BeforeCommit", "CleanupUncertain"}
           /\ outcome' = "BeforeCommit" => ~alias' /\ place' = "none"
    BY DEF Abort, Gone
  <2>3. CASE WriteArtifact
    BY <2>1, <2>2, <2>3 DEF WriteArtifact
  <2>4. CASE SyncStaging \/ Rename
    BY <2>1, <2>2, <2>4 DEF SyncStaging, Rename
  <2>5. CASE SyncParent
    BY <2>1, <2>5 DEF SyncParent
  <2> QED
    BY <1>2, <2>3, <2>4, <2>5 DEF Publish
<1> QED
  BY <1>2, <1>3, <1>4 DEF CaptureInv

-----------------------------------------------------------------------------
(* The system. *)

LEMMA WorkerAlive == WorkerNext => Alive
BY DEF WorkerNext, StepWorker, TakeEvent, BeginStep, RefuseStep, EndStep, SendInput, Gated,
   GateFailed, Ungated, UngateFailed, Released, ReleaseFailed, AtBoundary, BoundaryFailed, Ready,
   Go, HostStep, FailStep, Serialize, Complete, Teardown, TakeRpc, TakeOrder, TakeRequest,
   GateExpires, UnitLost, GuestWrite, GuestRuns, PortPoll, HandleInput, InputTimeout, SendRestart,
   SendRpc, At, Listening, Alive

(* An operation panics on its caller only after a failure. *)
LEMMA WorkerAsserts ==
  ASSUME Held, WorkerNext
  PROVE  AssertsNeedFailure'
<1>1. CASE Alive' \/ worker' = "gone"
  BY <1>1 DEF Alive, AssertsNeedFailure
<1>2. CASE BeginStep /\ ~Alive'
  <2>1. /\ Alive /\ steps # <<>> /\ crashed'
        /\ UNCHANGED <<present, restartFailed, serving>>
        /\ \/ /\ Head(steps) \in {"pause", "stop", "unassign"}
              /\ ~(unitsRunning /\ "Uncertain" \notin present)
           \/ /\ Head(steps) = "quiesce" /\ ~(unitsRunning /\ present \subseteq {"Running"})
           \/ /\ Head(steps) \in {"reset", "save", "restore"}
              /\ ~(~unitsRunning /\ present \subseteq {"Stopped"})
    BY <1>2 DEF BeginStep, At, Alive, BeginStop, BeginStart, BeginQuiesce, BeginResume,
       BeginStateful, EnterOp, EnterIf, Crash, flagVars, taskVars
  <2>2. /\ Pre(serving, Head(steps)) /\ Owner(serving, microvm, Head(steps)) /\ UnitInv /\ BoundaryInv
        /\ present \subseteq {"Stopped", "Running", "Uncertain"}
    BY <2>1, StepFacts DEF StepShape, Held, WorkerInv, Types, LifecycleType, Settled
  <2> SUFFICES "Uncertain" \in present \/ restartFailed \/ serving \in {"Restart", "Save"}
    BY <2>1 DEF AssertsNeedFailure
  <2>3. CASE Head(steps) \in {"pause", "stop", "unassign"}
    BY <2>1, <2>2, <2>3 DEF Pre, Agree, Up, Down
  <2>4. CASE Head(steps) = "quiesce"
    BY <2>1, <2>2, <2>4 DEF Owner, UnitInv, Taking, Up
  <2>5. CASE Head(steps) \in {"reset", "save", "restore"} /\ serving \notin {"Restart", "Save"}
    <3>1. ~unitsRunning
      BY <2>2, <2>5 DEF Pre, Down
    <3>2. serving \in {"Reset", "PowerReset", "PulseSaveRestore", "QuiesceForSnapshot"}
      BY <2>2, <2>5 DEF Owner, Resets
    <3>3. condemned => serving = "QuiesceForSnapshot"
      BY <2>2, <3>2 DEF UnitInv, BoundaryInv, Releasers
    <3>4. "Running" \notin present
      BY SMTT(20), <2>2, <2>5, <3>1, <3>3 DEF UnitInv, Taking, Down
    <3>5. ~(present \subseteq {"Stopped"})
      BY <2>1, <2>5, <3>1
    <3> QED
      BY <2>2, <3>4, <3>5
  <2> QED
    BY <2>1, <2>3, <2>4, <2>5
<1>3. CASE Serialize
  <2>1. Head(steps) = "serialize" /\ steps # <<>> /\ serving' = serving
    BY <1>3 DEF Serialize, At, taskVars
  <2> QED
    BY <2>1, StepFacts DEF StepShape, Owner, AssertsNeedFailure
<1>4. CASE UnitLost
  <2>1. op' # "idle"
    BY <1>4 DEF UnitLost, LoseUnit, Crash, Stateful
  <2> QED
    BY <2>1 DEF AssertsNeedFailure
<1>5. CASE ~Alive' /\ worker' # "gone"
  BY <1>2, <1>3, <1>4, <1>5, OnlyLostSteps DEF Teardown
<1> QED
  BY <1>1, <1>5

(* The worker pauses the VM before it tears it down. *)
LEMMA WorkerTeardown ==
  ASSUME Held, WorkerNext
  PROVE  TeardownQuiet'
<1>1. CASE Teardown
  <2>1. worker = "ending" /\ steps = <<>> /\ UNCHANGED <<present, condemned>>
    BY <1>1 DEF Teardown, lifecycleVars
  <2>2. Down
    BY <2>1 DEF Held, WorkerInv, ScriptInv
  <2>3. ~unitsRunning /\ ~condemned => "Running" \notin present
    BY DEF Held, WorkerInv, UnitInv
  <2> QED
    BY <2>1, <2>2, <2>3 DEF Down, TeardownQuiet
<1>2. CASE Alive' \/ crashed'
  BY <1>2 DEF Alive, TeardownQuiet
<1>3. CASE BeginStep \/ Serialize \/ UnitLost
  <2>1. worker' = worker /\ worker # "gone"
    BY <1>3 DEF BeginStep, Serialize, UnitLost, taskVars, Held, Alive
  <2> QED
    BY <2>1 DEF TeardownQuiet
<1>4. CASE ~Alive' /\ ~crashed'
  BY <1>1, <1>3, <1>4, OnlyLostSteps
<1> QED
  BY <1>2, <1>4

LEMMA WorkerSystem ==
  ASSUME SystemInv, WorkerNext, UNCHANGED <<storeVars, controllerVars>>
  PROVE  SystemInv'
<1>1. Held
  BY WorkerAlive, TypeParts DEF SystemInv, TypeOK, Held
<1>2. ASSUME Alive' PROVE WorkerInv'
  BY <1>1, <1>2, ScriptKept, OpKept, UnitKept, ProfileKept, RestoreKept, InputKept, PortKept,
     QueueKept, BoundaryKept, CaptureKept DEF WorkerInv
<1>3. WorkerType'
  BY <1>1, <1>2, TypesKept, TypeParts DEF WorkerInv
<1>4. StoreType' /\ ControllerType'
  <2>1. StoreType /\ ControllerType
    BY DEF SystemInv, TypeOK
  <2>2. StoreType'
    BY <2>1 DEF StoreType, storeVars, directoryVars, publisherVars, restoreVars
  <2>3. ControllerType'
    BY <2>1 DEF ControllerType, controllerVars
  <2> QED
    BY <2>2, <2>3
<1> QED
  BY <1>1, <1>2, <1>3, <1>4, WorkerAsserts, WorkerTeardown DEF SystemInv, TypeOK

-----------------------------------------------------------------------------
LEMMA BeginType ==
  ASSUME StoreType, NEW own \in BOOLEAN, NEW paired \in BOOLEAN, BeginPublication(own, paired)
  PROVE  StoreType'
<1>1. Order(own, paired) \in Seq(Artifact)
  BY PlanOf
<1> QED
  BY <1>1 DEF StoreType, BeginPublication, restoreVars, Publishing, Outcomes

LEMMA AbortType ==
  ASSUME StoreType, NEW mark \in BOOLEAN, NEW linked \in BOOLEAN, Abort(mark, linked)
  PROVE  StoreType'
<1>1. <<>> \in Seq(Artifact)
  BY Pieces
<1> QED
  BY <1>1 DEF StoreType, Abort, Gone, restoreVars, Publishing, Outcomes

LEMMA PublishType ==
  ASSUME StoreType, Publish
  PROVE  StoreType'
<1>1. CASE WriteArtifact
  <2>1. PICK linked \in BOOLEAN :
           LET links == Head(plan) = "memory" /\ owned
           IN  \/ /\ plan' = Tail(plan)
                  /\ entries' = entries \cup {Head(plan)}
                  /\ marked' = (marked \/ links)
                  /\ alias' = linked
                  /\ publishing' = IF Len(plan) = 1 THEN "sync" ELSE "staging"
                  /\ UNCHANGED <<place, placed, durable, needed, owned, outcome, restoreVars>>
               \/ Abort(marked \/ links, linked)
    BY <1>1 DEF WriteArtifact
  <2>2. plan \in Seq(Artifact) /\ plan # <<>>
    BY <1>1 DEF WriteArtifact, StoreType
  <2>3. Tail(plan) \in Seq(Artifact) /\ Head(plan) \in Artifact
    BY SMTT(20), <2>2, FirstOfPlan
  <2>4. marked \/ (Head(plan) = "memory" /\ owned) \in BOOLEAN
    OBVIOUS
  <2> QED
    BY <2>1, <2>3, <2>4, AbortType DEF StoreType, restoreVars, Publishing
<1>2. CASE SyncStaging
  BY <1>2, AbortType DEF SyncStaging, StoreType, restoreVars, Publishing
<1>3. CASE Rename
  BY <1>3, AbortType DEF Rename, StoreType, restoreVars, Publishing
<1>4. CASE SyncParent
  BY <1>4 DEF SyncParent, StoreType, restoreVars, Publishing, Outcomes
<1> QED
  BY <1>1, <1>2, <1>3, <1>4 DEF Publish

LEMMA RestoreType ==
  ASSUME StoreType, NEW r \in Restorers, Restore(r)
  PROVE  StoreType'
<1>1. UNCHANGED <<directoryVars, publisherVars>>
  BY DEF Restore, Open, Claim, SyncClaim, RunRestored, EndRestored
<1>2. /\ claim' \in {claim, "created", "durable"}
      /\ \E step \in RestorerStep : SetRestorer(r, step)
      /\ resumed' \in {resumed, resumed + 1}
  BY DEF Restore, Open, Claim, SyncClaim, RunRestored, EndRestored, RestorerStep
<1>3. restorer' \in [Restorers -> RestorerStep]
  BY <1>2 DEF StoreType, SetRestorer
<1>4. claim' \in {"none", "created", "durable"} /\ resumed' \in Nat
  BY SMTT(20), <1>2 DEF StoreType
<1> QED
  BY <1>1, <1>3, <1>4 DEF StoreType, directoryVars, publisherVars

(* The process is gone; what is on disk stays or is lost. *)
LEMMA GoneType ==
  ASSUME TypeOK, SourceDies \/ Crashes
  PROVE  TypeOK' /\ ~Alive'
<1>1. ProcessGone /\ (PublisherDies \/ HostCrash) /\ crashes' \in 0 .. MaxCrashes
  BY SMTT(20), CrashAssumption DEF SourceDies, Crashes, TypeOK, ControllerType
<1>2. WorkerType'
  <2>1. /\ <<>> \in Seq(Steps) /\ <<>> \in Seq({"quiesce", "resume"})
        /\ <<>> \in Seq(ClientRpcs \cup ControllerRpcs) /\ <<>> \in Seq({"Stop", "Restart"})
        /\ <<>> \in Seq(1 .. MaxWrites) /\ 0 \in Nat
    BY SMTT(20)
  <2>2. Types
    BY TypeParts DEF TypeOK
  <2>3. ChannelType' /\ InputType' /\ LifecycleType' /\ TaskType' /\ FlagType'
    BY <1>1, <2>1, <2>2 DEF ProcessGone, Types, ChannelType, InputType, LifecycleType, TaskType,
       FlagType, Operations
  <2>4. PortType'
    BY <1>1, <2>1, <2>2, PortNumbers DEF ProcessGone, Types, PortType
  <2> QED
    BY <2>3, <2>4, TypeParts DEF Types
<1>3. StoreType'
  <2>1. StoreType /\ <<>> \in Seq(Artifact)
    BY Pieces DEF TypeOK
  <2>2. CASE PublisherDies
    BY <2>1, <2>2 DEF PublisherDies, StoreType, directoryVars, restoreVars, Publishing, Outcomes
  <2>3. CASE HostCrash
    <3>1. /\ place' \in {place, "dest", "staging"} /\ entries' \subseteq entries \cup durable
          /\ durable' = entries' /\ placed' \in BOOLEAN
          /\ claim' \in {claim, "none", "durable"} /\ restorer' = [r \in Restorers |-> "idle"]
          /\ publishing' = "no" /\ plan' = <<>> /\ outcome' = "none"
          /\ UNCHANGED <<needed, owned, marked, alias, resumed>>
      BY <2>3 DEF HostCrash
    <3>2. restorer' \in [Restorers -> RestorerStep]
      BY <3>1 DEF RestorerStep
    <3> QED
      BY <2>1, <3>1, <3>2 DEF StoreType, Publishing, Outcomes
  <2> QED
    BY <1>1, <2>2, <2>3
<1>4. ControllerType'
  BY <1>1 DEF ProcessGone, TypeOK, ControllerType
<1> QED
  BY <1>1, <1>2, <1>3, <1>4 DEF TypeOK, ProcessGone, Alive

LEMMA ControlType ==
  ASSUME TypeOK, Controls
  PROVE  TypeOK'
<1>0. Types /\ StoreType /\ ControllerType
  BY TypeParts DEF TypeOK
<1>1. LifecycleType' /\ FlagType' /\ TaskType' /\ InputType' /\ PortType'
  <2>1. UNCHANGED <<lifecycleVars, flagVars, taskVars, inputVars, portVars>>
    BY ControlFrame
  <2>2. LifecycleType'
    BY <1>0, <2>1 DEF Types, LifecycleType, lifecycleVars
  <2>4. FlagType'
    BY <1>0, <2>1 DEF Types, FlagType, flagVars
  <2>3. TaskType' /\ InputType' /\ PortType'
    BY <1>0, <2>1 DEF Types, TaskType, InputType, PortType, taskVars, inputVars, portVars
  <2> QED
    BY <2>2, <2>3, <2>4
<1>2. ChannelType'
  <2>0. ChannelType
    BY <1>0 DEF Types
  <2>1. /\ rpcs' = rpcs \/ \E m \in ControllerRpcs : rpcs' = Append(rpcs, m)
        /\ client' = client /\ reply' \in {reply, "none"}
        /\ \/ orders' = orders \/ orders' = <<"Stop">> \/ orders' = Append(orders, "Stop")
        /\ notices' = notices \/ (notices > 0 /\ notices' = notices - 1)
    <3>1. {"ReleaseSnapshotBoundary", "QuiesceForSnapshot", "ResumeAfterFailedSnapshot", "PowerReset",
           "PauseToSave", "Save"} \subseteq ControllerRpcs
      BY DEF ControllerRpcs
    <3>2. CASE GuestContinues \/ QuiesceAnswered \/ CallAnswered
      BY <3>1, <3>2 DEF GuestContinues, QuiesceAnswered, CallAnswered, Ask, Call, Stay,
         Continue, Terminate, channelVars
    <3>3. CASE PreparePublication \/ PublicationOver
      BY <3>1, <3>3 DEF PreparePublication, PublicationOver, Ask, Call, Stay, Terminate,
         channelVars
    <3>4. CASE Leave \/ TakeNotice \/ Quit
      BY <3>1, <3>4 DEF Leave, TakeNotice, Quit, Call
    <3>5. CASE PowerEvent \/ SaveSnapshot
      BY <3>1, <3>5 DEF PowerEvent, SaveSnapshot, Ask, Call
    <3> QED
      BY <3>2, <3>3, <3>4, <3>5 DEF Controls
  <2>2. rpcs' \in Seq(ClientRpcs \cup ControllerRpcs)
    BY SMTT(20), <2>0, <2>1 DEF ChannelType
  <2>3. orders' \in Seq({"Stop", "Restart"})
    <3>1. orders \in Seq({"Stop", "Restart"})
      BY <2>0 DEF ChannelType
    <3>2. /\ <<"Stop">> \in Seq({"Stop", "Restart"})
          /\ Append(orders, "Stop") \in Seq({"Stop", "Restart"})
      BY ONLY <3>1
    <3> QED
      BY <2>1, <3>1, <3>2
  <2>4. notices' \in Nat
    BY SMTT(20), <2>0, <2>1 DEF ChannelType
  <2> QED
    BY <2>0, <2>1, <2>2, <2>3, <2>4 DEF ChannelType
<1>3. StoreType'
  <2>1. CASE PreparePublication
    <3>1. CASE UNCHANGED storeVars
      BY <1>0, <3>1 DEF StoreType, storeVars, directoryVars, publisherVars, restoreVars
    <3> QED
      BY <1>0, <2>1, <3>1, BeginType DEF PreparePublication
  <2>2. CASE PublicationOver
    BY <1>0, <2>2 DEF PublicationOver, StoreType, directoryVars, restoreVars, Outcomes
  <2>3. CASE UNCHANGED storeVars
    BY <1>0, <2>3 DEF StoreType, storeVars, directoryVars, publisherVars, restoreVars
  <2> QED
    BY <2>1, <2>2, <2>3 DEF Controls, GuestContinues, QuiesceAnswered, CallAnswered, Leave,
       TakeNotice, PowerEvent, SaveSnapshot, Quit
<1>4. ControllerType'
  <2>1. /\ controller' \in {controller, "idle", "release", "quiesce", "publish", "rollback", "exit",
                            "reset", "pausing", "saving", "done"}
        /\ exitCode' \in {exitCode, "zero", "one"} /\ crashes' = crashes
    <3>2. CASE GuestContinues \/ QuiesceAnswered \/ CallAnswered
      BY <3>2 DEF GuestContinues, QuiesceAnswered, CallAnswered, Ask, Call, Stay,
         Continue, Terminate
    <3>3. CASE PreparePublication \/ PublicationOver
      BY <3>3 DEF PreparePublication, PublicationOver, Ask, Call, Stay, Terminate
    <3>4. CASE Leave \/ TakeNotice \/ Quit
      BY <3>4 DEF Leave, TakeNotice, Quit, Call, controllerVars
    <3>5. CASE PowerEvent \/ SaveSnapshot
      BY <3>5 DEF PowerEvent, SaveSnapshot, Ask, Call
    <3> QED
      BY <3>2, <3>3, <3>4, <3>5 DEF Controls
  <2> QED
    BY <1>0, <2>1 DEF ControllerType, Waiting
<1> QED
  BY <1>1, <1>2, <1>3, <1>4, TypeParts DEF Types, TypeOK

-----------------------------------------------------------------------------
(* Steps that leave the worker and the controller alone. *)
LEMMA SameTypes ==
  ASSUME TypeOK, UNCHANGED <<workerVars, controllerVars>>, StoreType'
  PROVE  TypeOK'
<1>1. UNCHANGED <<lifecycleVars, flagVars, taskVars, inputVars, channelVars, portVars>>
  BY DEF workerVars
<1>a. Types /\ ControllerType
  BY TypeParts DEF TypeOK
<1>2. LifecycleType'
  BY <1>1, <1>a DEF Types, LifecycleType, lifecycleVars
<1>3. FlagType'
  BY <1>1, <1>a DEF Types, FlagType, flagVars
<1>4. TaskType' /\ InputType' /\ PortType'
  BY <1>1, <1>a DEF Types, TaskType, InputType, PortType, taskVars, inputVars, portVars
<1>5. ChannelType' /\ ControllerType'
  BY <1>1, <1>a DEF Types, ChannelType, ControllerType, channelVars, controllerVars
<1> QED
  BY <1>2, <1>3, <1>4, <1>5, TypeParts DEF Types, TypeOK

LEMMA SameSystem ==
  ASSUME SystemInv, UNCHANGED <<workerVars, controllerVars>>, StoreType', CaptureInv => CaptureInv'
  PROVE  SystemInv'
<1>1. UNCHANGED <<lifecycleVars, flagVars, taskVars, inputVars, channelVars, portVars>>
  BY DEF workerVars
<1>2. TypeOK'
  BY SameTypes DEF SystemInv
<1>3. Alive' <=> Alive
  BY <1>1 DEF Alive, lifecycleVars, taskVars
<1>4. ASSUME Alive PROVE WorkerInv'
  <2>1. Held
    BY <1>4, TypeParts DEF Held, SystemInv, TypeOK
  <2>2. WorkerInv
    BY <2>1 DEF Held
  <2>3. ProfileInv'
    BY <1>1, <2>2 DEF WorkerInv, ProfileInv, flagVars, taskVars, portVars, channelVars
  <2>4. controller' = controller
    BY DEF controllerVars
  <2>5. QueueInv'
    BY <1>1, <2>2, <2>4 DEF WorkerInv, QueueInv, Awaited, taskVars, channelVars
  <2>6. BoundaryInv'
    BY <1>1, <2>2, <2>4 DEF WorkerInv, BoundaryInv, Aside, Unanswered, InputHeld, Up,
       lifecycleVars, flagVars, taskVars, inputVars, channelVars
  <2>7. CaptureInv'
    BY <2>2 DEF WorkerInv
  <2> QED
    BY <1>1, <2>1, <2>3, <2>5, <2>6, <2>7, AsideParts DEF WorkerInv
<1>5. AssertsNeedFailure' /\ TeardownQuiet'
  BY <1>1 DEF SystemInv, AssertsNeedFailure, TeardownQuiet, lifecycleVars, flagVars, taskVars
<1> QED
  BY <1>2, <1>3, <1>4, <1>5 DEF SystemInv

(* The worker that is lost stays so. *)
LEMMA SameLost ==
  ASSUME SystemInv, UNCHANGED <<workerVars, controllerVars>>, StoreType', ~Alive
  PROVE  SystemInv'
<1>1. UNCHANGED <<lifecycleVars, flagVars, taskVars, inputVars, channelVars, portVars>>
  BY DEF workerVars
<1>2. TypeOK'
  BY SameTypes DEF SystemInv
<1>3. ~Alive' /\ AssertsNeedFailure' /\ TeardownQuiet'
  BY <1>1 DEF SystemInv, Alive, AssertsNeedFailure, TeardownQuiet, lifecycleVars, flagVars,
     taskVars
<1> QED
  BY <1>2, <1>3 DEF SystemInv

LEMMA SameCapture ==
  ASSUME CaptureInv, UNCHANGED <<workerVars, controllerVars>>, UNCHANGED <<directoryVars, publisherVars>>
  PROVE  CaptureInv'
<1>1. UNCHANGED <<publishing, outcome, alias, place, controller>>
  BY DEF directoryVars, publisherVars, controllerVars
<1>2. UNCHANGED <<boundary, vmRunning, unitsRunning, present, steps, serving, reply>>
  BY DEF workerVars, lifecycleVars, flagVars, taskVars, channelVars
<1>3. Captured' <=> Captured
  BY <1>2 DEF Captured, Down
<1> QED
  BY <1>1, <1>2, <1>3 DEF CaptureInv

LEMMA ControlSystem ==
  ASSUME SystemInv, Controls
  PROVE  SystemInv'
<1>1. UNCHANGED <<lifecycleVars, flagVars, taskVars, inputVars, portVars>>
  BY ControlFrame
<1>2. TypeOK'
  BY ControlType DEF SystemInv
<1>3. Alive' <=> Alive
  BY <1>1 DEF Alive, lifecycleVars, taskVars
<1>4. ASSUME Alive PROVE WorkerInv'
  <2>1. Held
    BY <1>4, TypeParts DEF Held, SystemInv, TypeOK
  <2> QED
    BY <1>1, <2>1, AsideParts, ControlProfile, ControlQueue, ControlBoundary, ControlCapture
       DEF WorkerInv
<1>5. AssertsNeedFailure' /\ TeardownQuiet'
  BY <1>1 DEF SystemInv, AssertsNeedFailure, TeardownQuiet, lifecycleVars, flagVars, taskVars
<1> QED
  BY <1>2, <1>3, <1>4, <1>5 DEF SystemInv

LEMMA NextSystem == SystemInv /\ [Next]_vars => SystemInv'
<1> SUFFICES ASSUME SystemInv, [Next]_vars
             PROVE  SystemInv'
  OBVIOUS
<1>1. CASE WorkerNext /\ UNCHANGED <<storeVars, controllerVars>>
  BY <1>1, WorkerSystem
<1>2. CASE Controls
  BY <1>2, ControlSystem
<1>t. StoreType
  BY DEF SystemInv, TypeOK
<1>3. CASE PublishStep
  <2>1. Publish /\ UNCHANGED <<workerVars, controllerVars>>
    BY <1>3 DEF PublishStep
  <2>2. StoreType'
    BY <1>t, <2>1, PublishType
  <2>3. CASE Alive
    <3>1. Held
      BY <2>3, TypeParts DEF Held, SystemInv, TypeOK
    <3> QED
      BY <1>3, <2>1, <2>2, <3>1, PublishCapture, SameSystem
  <2>4. CASE ~Alive
    BY <2>1, <2>2, <2>4, SameLost
  <2> QED
    BY <2>3, <2>4
<1>4. ASSUME NEW r \in Restorers, Restore(r), UNCHANGED <<workerVars, controllerVars>>
      PROVE  SystemInv'
  <2>1. StoreType'
    BY <1>t, <1>4, RestoreType
  <2>2. UNCHANGED <<directoryVars, publisherVars>>
    BY <1>4 DEF Restore, Open, Claim, SyncClaim, RunRestored, EndRestored
  <2>3. CaptureInv => CaptureInv'
    BY <1>4, <2>2, SameCapture
  <2> QED
    BY <1>4, <2>1, <2>3, SameSystem
<1>5. CASE SourceDies \/ Crashes
  <2>1. TypeOK' /\ ~Alive' /\ worker' = "gone" /\ crashed'
    BY <1>5, GoneType DEF SystemInv, SourceDies, Crashes, ProcessGone
  <2> QED
    BY <2>1 DEF SystemInv, AssertsNeedFailure, TeardownQuiet
<1>6. CASE UNCHANGED vars
  <2>1. UNCHANGED <<workerVars, controllerVars>> /\ UNCHANGED storeVars
    BY <1>6 DEF vars
  <2>2. StoreType'
    BY <1>t, <2>1 DEF StoreType, storeVars, directoryVars, publisherVars, restoreVars
  <2>3. CaptureInv => CaptureInv'
    BY <2>1, SameCapture DEF storeVars
  <2> QED
    BY <2>1, <2>2, <2>3, SameSystem
<1> QED
  BY <1>1, <1>2, <1>3, <1>4, <1>5, <1>6 DEF Next, StepController, Controls

LEMMA InitSystem == Init => SystemInv
<1> SUFFICES ASSUME Init PROVE SystemInv
  OBVIOUS
<1>i. WorkerInit /\ StoreInit /\ controller = "idle" /\ exitCode = "none" /\ crashes = 0
  BY DEF Init
<1>e. /\ <<>> \in Seq(Steps) /\ <<>> \in Seq({"quiesce", "resume"})
      /\ <<>> \in Seq(ClientRpcs \cup ControllerRpcs) /\ <<>> \in Seq({"Stop", "Restart"})
      /\ <<>> \in Seq(1 .. MaxWrites) /\ <<>> \in Seq(Artifact) /\ 0 \in Nat /\ 0 \in 0 .. 0
      /\ 1 .. Len(<<>>) = {}
  BY SMTT(20)
<1>w. 0 \in 0 .. MaxWrites /\ 0 \in 0 .. MaxCrashes /\ Microvm \subseteq BOOLEAN
  BY SMTT(20), WorkerAssumption, CrashAssumption
<1>1. Types
  <2>1. LifecycleType /\ TaskType /\ InputType /\ ChannelType
    BY <1>i, <1>e DEF WorkerInit, LifecycleType, Settled, Operations, TaskType, InputType, ChannelType
  <2>2. FlagType
    BY <1>i, <1>w DEF WorkerInit, FlagType
  <2>3. PortType
    BY <1>i, <1>e, <1>w DEF WorkerInit, PortType
  <2> QED
    BY <2>1, <2>2, <2>3 DEF Types
<1>2. StoreType /\ ControllerType
  BY <1>i, <1>e, <1>w DEF StoreInit, StoreType, ControllerType, Publishing, Outcomes, RestorerStep
<1>g. (gateTimeout => startGuard /\ microvm) /\ (readySink => startGuard)
  <2>1. gateTimeout \in {FALSE, startGuard /\ microvm} /\ readySink \in {FALSE, startGuard}
    BY <1>i DEF WorkerInit
  <2>2. (gateTimeout = FALSE \/ gateTimeout = (startGuard /\ microvm))
        /\ (readySink = FALSE \/ readySink = startGuard)
    BY <2>1
  <2> QED
    BY SMTT(20), <1>1, <2>2 DEF Types, FlagType
<1>3. /\ present = {"Stopped"} /\ ~unitsRunning /\ op = "idle" /\ ~condemned /\ ~vmRunning
      /\ ~boundary /\ ~gateDeadline /\ ~inputGated /\ ~restartFailed
      /\ worker = "up" /\ serving = "none" /\ steps = <<>> /\ wait = "no" /\ pending = 0
      /\ write = "held" /\ ~completed /\ requests = <<>> /\ rpcs = <<>> /\ orders = <<>>
      /\ notices = 0 /\ ~crashed
  BY <1>i DEF WorkerInit
<1>4. ScriptInv /\ OpInv /\ UnitInv
  BY <1>3, NoChain DEF ScriptInv, OpInv, UnitInv, Agree, Up, Down, Taking, Stateful
<1>5. ProfileInv /\ RestoreInv /\ InputInv
  BY <1>g, <1>3, <1>e DEF ProfileInv, RestoreInv, InputInv, Taking
<1>6. PortInv /\ QueueInv
  BY <1>3, <1>e DEF PortInv, QueueInv, Requested, ControllerRpcs, ClientRpcs
<1>7. BoundaryInv /\ CaptureInv
  BY <1>3, <1>i DEF BoundaryInv, CaptureInv, Aside, Unanswered, Releasers, StoreInit
<1>8. AssertsNeedFailure /\ TeardownQuiet
  BY <1>3 DEF AssertsNeedFailure, TeardownQuiet
<1> QED
  BY <1>1, <1>2, <1>4, <1>5, <1>6, <1>7, <1>8, TypeParts DEF SystemInv, TypeOK, WorkerInv

LEMMA SystemHolds == Spec => []SystemInv
BY InitSystem, NextSystem, PTL DEF Spec

-----------------------------------------------------------------------------
(* Every variable keeps its type: the scripts are sequences of steps, the  *)
(* numbers of the port stay within its writes.                             *)
THEOREM TypeCorrect == Spec => []TypeOK
<1>1. SystemInv => TypeOK
  BY DEF SystemInv
<1> QED
  BY <1>1, SystemHolds, PTL

(* While RAM of the source is shared with a snapshot, and from the commit  *)
(* on, no unit of a living source runs or moves, and its VPs are held.     *)
THEOREM SharedIsQuiet == Spec => []SourceQuietWhileShared
<1>1. SystemInv => SourceQuietWhileShared
  <2> SUFFICES ASSUME SystemInv, Alive, alias \/ place = "dest"
               PROVE  boundary /\ op = "idle" /\ present = {"Stopped"}
    BY DEF SourceQuietWhileShared
  <2>1. Held
    BY TypeParts DEF SystemInv, TypeOK, Held
  <2>2. Captured
    BY <2>1 DEF Held, WorkerInv, CaptureInv
  <2> QED
    BY <2>1, <2>2, OpFacts DEF Captured, OpShape
<1> QED
  BY <1>1, SystemHolds, PTL

(* A snapshot is saved and published only at a boundary with all host      *)
(* input gated, however late earlier input requests were handled.          *)
THEOREM SavedBehindGate == Spec => []CaptureIsGated
<1>1. SystemInv => CaptureIsGated
  <2> SUFFICES ASSUME SystemInv, Alive, serving = "QuiesceForSnapshot" \/ publishing # "no"
               PROVE  boundary /\ InputHeld
    BY DEF CaptureIsGated, InputHeld
  <2>1. Held
    BY TypeParts DEF SystemInv, TypeOK, Held
  <2>2. QueueInv /\ BoundaryInv /\ CaptureInv
    BY <2>1 DEF Held, WorkerInv
  <2>3. CASE serving = "QuiesceForSnapshot"
    <3>1. controller = "quiesce"
      BY <2>2, <2>3 DEF QueueInv, Awaited, ControllerRpcs
    <3>2. boundary
      BY <2>1, <2>3, QuiesceFacts DEF QuiesceShape
    <3> QED
      BY <2>2, <3>1, <3>2 DEF BoundaryInv
  <2>4. CASE publishing # "no"
    <3>1. controller = "publish" /\ Captured
      BY <2>2, <2>4 DEF CaptureInv
    <3> QED
      BY <2>2, <3>1 DEF BoundaryInv, Captured
  <2> QED
    BY <2>3, <2>4
<1> QED
  BY <1>1, SystemHolds, PTL

(* A boundary begins with a write that the guest still waits for, in a     *)
(* running VM, and exactly the controller that was told of it answers.     *)
THEOREM BoundaryAnswered == Spec => []BoundaryIsSound
<1>1. SystemInv => BoundaryIsSound
  <2> SUFFICES ASSUME SystemInv, Alive PROVE BoundaryIsSound
    BY DEF BoundaryIsSound, BoundaryOnlyForLiveWrite, BoundaryIsOwned
  <2>1. ControllerType /\ WorkerInv
    BY DEF SystemInv, TypeOK
  <2>2. BoundaryOnlyForLiveWrite
    BY <2>1 DEF BoundaryOnlyForLiveWrite, WorkerInv, UnitInv, PortInv, Up
  <2>3. CASE Aside
    <3>1. notices = IF boundary THEN 1 ELSE 0
      BY <2>1, <2>3 DEF WorkerInv, BoundaryInv
    <3>2. notices <= 1 /\ (notices = 1 => boundary) /\ (boundary => notices = 1)
      BY SMTT(20), <3>1
    <3> QED
      BY <2>2, <3>2 DEF BoundaryIsOwned, BoundaryIsSound
  <2>4. CASE ~Aside
    <3>1. notices = 0
      BY <2>1, <2>4 DEF WorkerInv, BoundaryInv
    <3>2. controller \in {"release", "quiesce", "publish", "rollback", "exit", "done"}
      BY <2>1, <2>4 DEF ControllerType, Waiting, Aside
    <3>3. notices <= 1 /\ notices # 1
      BY SMTT(20), <3>1
    <3> QED
      BY <2>2, <3>2, <3>3 DEF BoundaryIsOwned, BoundaryIsSound
  <2> QED
    BY <2>3, <2>4
<1> QED
  BY <1>1, SystemHolds, PTL

(* The worker never asks its units for a transition they cannot make,      *)
(* short of the failures AssertsNeedFailure names, and between two events  *)
(* its flag is theirs.                                                     *)
THEOREM UnitsAreKnown == Spec => []WorkerKnowsUnits
<1>1. SystemInv => WorkerKnowsUnits
  <2> SUFFICES ASSUME SystemInv PROVE FlagsFollowUnits
    BY DEF SystemInv, WorkerKnowsUnits
  <2>1. ASSUME Listening PROVE Agree
    <3>1. WorkerInv
      BY <2>1 DEF SystemInv, Listening, Alive
    <3> QED
      BY <2>1, <3>1 DEF WorkerInv, ScriptInv, Listening
  <2>2. vmRunning \in BOOLEAN /\ unitsRunning \in BOOLEAN
    BY TypeParts DEF SystemInv, TypeOK, Types, FlagType, LifecycleType
  <2> QED
    BY SMTT(20), <2>1, <2>2 DEF FlagsFollowUnits, Agree, Up, Down
<1> QED
  BY <1>1, SystemHolds, PTL

(* The worker is torn down with no unit running, unless a failed rollback  *)
(* left some.                                                              *)
THEOREM TornDownQuiet == Spec => []TeardownQuiet
<1>1. SystemInv => TeardownQuiet
  BY DEF SystemInv
<1> QED
  BY <1>1, SystemHolds, PTL

(* Until a restored guest acknowledged the restore it executes only with   *)
(* host input gated and the deadline armed.                                *)
THEOREM RestoredBehindGate == Spec => []RestoreIsGated
<1>1. SystemInv => RestoreIsGated
  <2> SUFFICES ASSUME SystemInv, GuestRuns, gateTimeout
               PROVE  inputGated /\ gateDeadline /\ InputHeld
    BY DEF RestoreIsGated, InputHeld
  <2>1. Held /\ UnitsActive /\ ~boundary /\ ~startGuard
    BY TypeParts DEF SystemInv, TypeOK, Held, GuestRuns
  <2>2. RestoreInv /\ UnitInv
    BY <2>1 DEF Held, WorkerInv
  <2>3. microvm /\ ~condemned
    BY <2>1, <2>2 DEF Held, WorkerInv, ProfileInv, UnitInv
  <2>4. unitsRunning \/ op = "start"
    <3>1. op # "resume"
      BY <2>1, OpFacts, StepFacts, ReleaseFacts DEF OpShape, StepShape, Owner, ReleaseShape,
         Releasers
    <3> QED
      BY <2>1, <2>2, <2>3, <3>1 DEF UnitsActive, UnitInv
  <2>5. GateHeld
    BY <2>1, <2>2, <2>4 DEF RestoreInv
  <2> QED
    BY <2>1, <2>2, <2>5 DEF RestoreInv, GateHeld
<1> QED
  BY <1>1, SystemHolds, PTL

-----------------------------------------------------------------------------
(* Only the guest's writes are counted. *)
LEMMA OnlyGuestWrites ==
  ASSUME [Next]_vars, written' # written
  PROVE  GuestWrite
<1>1. CASE WorkerNext
  <2> USE DEF portVars, Ended
  <2>1. CASE BeginStep \/ RefuseStep \/ Ended(Stopped) \/ Ended(Unassigned) \/
       Ended(Started) \/ Ended(StartFailed) \/ Ended(Quiesced)
    BY <2>1 DEF BeginStep, RefuseStep, Stopped, Unassigned, Started, StartFailed,
         Quiesced, PortStop
  <2>2. CASE Ended(QuiesceFailed) \/ Ended(Resumed) \/ Ended(ResumeFailed) \/
       Ended(StatefulOk) \/ Ended(StatefulFailed) \/ SendInput \/ Gated
    BY <2>2 DEF QuiesceFailed, Resumed, ResumeFailed, StatefulOk, StatefulFailed,
         SendInput, Gated, PortStop
  <2>3. CASE GateFailed \/ Ungated \/ UngateFailed \/ Released \/ ReleaseFailed \/
       AtBoundary \/ BoundaryFailed
    BY <2>3 DEF GateFailed, Ungated, UngateFailed, Released, ReleaseFailed, AtBoundary,
         BoundaryFailed
  <2>4. CASE Ready \/ Go \/ HostStep \/ FailStep \/ Complete \/ TakeRpc \/ TakeOrder
    BY <2>4 DEF Ready, Go, HostStep, FailStep, Complete, TakeRpc, TakeOrder
  <2>5. CASE TakeRequest \/ GateExpires \/ PortPoll \/ HandleInput \/ InputTimeout \/
       SendRestart \/ (\E m \in Clients : SendRpc(m))
    BY <2>5 DEF TakeRequest, GateExpires, PortPoll, HandleInput, InputTimeout,
         SendRestart, SendRpc
  <2>6. CASE Serialize \/ Teardown \/ UnitLost
    BY <2>6 DEF Serialize, Teardown, UnitLost
  <2> QED
    BY <1>1, <2>1, <2>2, <2>3, <2>4, <2>5, <2>6, EndCases DEF WorkerNext, StepWorker,
         TakeEvent
<1>2. CASE Controls
  BY <1>2, ControlFrame DEF portVars
<1>3. CASE UNCHANGED workerVars
  BY <1>3 DEF workerVars, portVars
<1>4. CASE SourceDies \/ Crashes
  BY <1>4 DEF SourceDies, Crashes, ProcessGone
<1> QED
  BY <1>1, <1>2, <1>3, <1>4 DEF Next, StepController, Controls, PublishStep, vars

(* A write to the snapshot port is covered by a transaction that is still  *)
(* to be served, also when an earlier one was completed but not reaped.    *)
THEOREM WritesAreServed == Spec => EveryWriteIsServed
<1> DEFINE Served == written' # written =>
                        /\ pending' # 0 /\ ~completed'
                        /\ \/ \E i \in DOMAIN requests' : requests'[i] = pending'
                           \/ serving = "Boundary" \/ boundary
<1>1. SystemInv /\ [Next]_vars => [Served]_vars
  <2> SUFFICES ASSUME SystemInv, [Next]_vars, written' # written
               PROVE  /\ pending' # 0 /\ ~completed'
                      /\ \/ \E i \in DOMAIN requests' : requests'[i] = pending'
                         \/ serving = "Boundary" \/ boundary
    OBVIOUS
  <2>1. GuestWrite
    BY OnlyGuestWrites
  <2>2. Held
    BY <2>1, TypeParts DEF GuestWrite, GuestRuns, SystemInv, TypeOK, Held
  <2>3. requests \in Seq(1 .. MaxWrites) /\ written \in Nat /\ DOMAIN requests = 1 .. Len(requests)
    BY SMTT(20), <2>2, PortNumbers DEF Held, Types, PortType
  <2>4. CASE Duplicate
    <3>1. UNCHANGED <<pending, completed, requests>> /\ pending # 0 /\ ~completed
      BY <2>1, <2>4 DEF GuestWrite, Duplicate
    <3>2. Requested \/ serving = "Boundary" \/ boundary
      BY <2>2, <3>1 DEF Held, WorkerInv, PortInv
    <3> QED
      BY <2>3, <3>1, <3>2 DEF Requested
  <2>5. CASE ~Duplicate
    <3>1. /\ pending' = written + 1 /\ ~completed' /\ requests' = Append(requests, written + 1)
      BY <2>1, <2>5 DEF GuestWrite
    <3>2. /\ Len(requests) + 1 \in DOMAIN Append(requests, written + 1)
          /\ Append(requests, written + 1)[Len(requests) + 1] = written + 1
          /\ written + 1 # 0
      BY SMTT(20), <2>3
    <3> QED
      BY <3>1, <3>2
  <2> QED
    BY <2>4, <2>5
<1> QED
  BY <1>1, SystemHolds, PTL DEF Spec, EveryWriteIsServed

=============================================================================
