-------------------------------- MODULE Vmgs --------------------------------
(***************************************************************************)
(* The guest state file (vm/vmgs/vmgs): a small file store on a disk.  Two *)
(* header slots take turns; the newer valid one names the block of a file  *)
(* table, and the table says which blocks hold each file.  An operation    *)
(* writes new blocks, flushes the disk, and commits by writing the header  *)
(* slot that is not in use.                                                *)
(*                                                                         *)
(* Location 0 and 1 of the disk are the header slots, the others are       *)
(* blocks.  A file's bytes are a value; the length of a value in blocks is *)
(* Size.  Encryption of file contents is left out; the keys that unlock    *)
(* the store, and the extended file table they protect, are not.           *)
(***************************************************************************)
EXTENDS Integers

CONSTANTS Files,      \* the file ids that clients use
          Values,     \* what a client may write to a file
          Size,       \* the number of blocks of a value
          Keys,       \* encryption keys of clients
          MetaKeys,   \* random metadata keys, drawn in increasing order
          Capacity,   \* block_capacity of the disk
          SeqWrap      \* sequence numbers of headers wrap here (2^32)

FILE_TABLE == "FILE_TABLE"
EXTENDED_FILE_TABLE == "EXTENDED_FILE_TABLE"
NoFile == "no file"
NoKey == "no key"
Absent == "absent"
Lost == "lost"
NoMeta == 0
NoIndex == 2
VMGS_MIN_FILE_BLOCK_OFFSET == 2

ASSUME SizeAssumption == Size \in [Values -> Nat \ {0}]
ASSUME NamesAssumption == /\ {FILE_TABLE, EXTENDED_FILE_TABLE, NoFile} \cap Files = {}
                          /\ {Absent, Lost} \cap Values = {}
                          /\ NoKey \notin Keys
ASSUME CapacityAssumption == Capacity \in Nat /\ Capacity > VMGS_MIN_FILE_BLOCK_OFFSET
ASSUME SeqAssumption == SeqWrap \in Nat /\ SeqWrap > 2
ASSUME MetaAssumption == MetaKeys \subseteq Nat \ {NoMeta}

VARIABLES disk,      \* what a read of each location returns
          stable,    \* what each location held at the last flush of the disk
          pc,        \* the disk request that is next, "idle", or "closed"
          op,        \* the operation in progress
          state,     \* Vmgs::state
          temp,      \* the operation's temp_state
          wrote,     \* what clients may expect of each file
          target,    \* the same once the operation commits
          hardened,  \* wrote at the last flush
          intact,    \* no format is in progress or was interrupted
          exposed,   \* blocks were written while the current header was not flushed
          requested, \* the last boot asked for a format, and was told it is done
          known      \* the keys among which the client has one that should unlock

vars == <<disk, stable, pc, op, state, temp, wrote, target, hardened, intact,
          exposed, requested, known>>

Ids == Files \cup {FILE_TABLE, EXTENDED_FILE_TABLE}
Locations == 0 .. Capacity - 1
Blocks == VMGS_MIN_FILE_BLOCK_OFFSET .. Capacity - 1

\* What a location can hold.  A torn header fails its checksum.
Zeroed == [kind |-> "zeroed"]
Torn == [kind |-> "torn"]
Table(f) == [kind |-> "table", fcbs |-> f]
Extended(m) == [kind |-> "extended", meta |-> m]
Data(v, i) == [kind |-> "data", value |-> v, part |-> i]

\* A file control block; allocation_size 0 marks an entry that is not in use.
NoFcb == [at |-> 0, len |-> 0]
EmptySlot == [key |-> NoKey, meta |-> NoMeta]
NoOp == [kind |-> "none", file |-> NoFile, value |-> Lost, part |-> 0, ext |-> FALSE,
         then |-> "done", key |-> NoKey, index |-> NoIndex]

\* VmgsState::new
NewState == [active |-> 1, sequence |-> 0, fcbs |-> [id \in Ids |-> NoFcb],
             encrypted |-> FALSE, unlocked |-> NoIndex, keys |-> [i \in {0, 1} |-> NoKey],
             slots |-> [i \in {0, 1} |-> EmptySlot], meta |-> NoMeta, reprovisioned |-> FALSE]

Init == /\ disk = [l \in Locations |-> Zeroed]
        /\ stable = disk
        /\ pc = "closed" /\ op = NoOp
        /\ state = NewState /\ temp = NewState
        /\ wrote = [f \in Files |-> Absent] /\ target = wrote /\ hardened = wrote
        /\ intact = FALSE /\ exposed = FALSE /\ requested = FALSE
        /\ known = {}

-----------------------------------------------------------------------------
(* VmgsState *)

encrypted_and_unlocked(s) == s.encrypted /\ s.unlocked # NoIndex

datastore_key_count(s) == (IF s.slots[0] = EmptySlot THEN 0 ELSE 1)
                        + (IF s.slots[1] = EmptySlot THEN 0 ELSE 1)

\* wrapping_add(1)
Successor(n) == IF n + 1 = SeqWrap THEN 0 ELSE n + 1

\* The state that make_header leaves, and the header it returns for it.
Turned(s) == [s EXCEPT !.sequence = Successor(@), !.active = 1 - @]

\* Variant: the marker is not carried over to the header.
make_header_unmarked(s) ==
    [kind |-> "header", sequence |-> s.sequence, table |-> s.fcbs[FILE_TABLE].at,
     encrypted |-> s.encrypted, slots |-> s.slots, reprovisioned |-> FALSE]

make_header(s) ==
    [kind |-> "header", sequence |-> s.sequence, table |-> s.fcbs[FILE_TABLE].at,
     encrypted |-> s.encrypted, slots |-> s.slots, reprovisioned |-> s.reprovisioned]

\* Variant: a slot that is in use is not encrypted again.
encrypt_metadata_key_once(s) ==
    IF s.slots[s.unlocked] # EmptySlot THEN s
    ELSE [s EXCEPT !.slots[s.unlocked] = [key |-> s.keys[s.unlocked], meta |-> s.meta]]

\* The metadata key of the extended table, under the active key.
encrypt_metadata_key(s) ==
    [s EXCEPT !.slots[s.unlocked] = [key |-> s.keys[s.unlocked], meta |-> s.meta]]

\* add_new_encryption_key, up to the point where it writes.
WithKey(s, k) ==
    LET i == IF s.unlocked = NoIndex THEN 0 ELSE 1 - s.unlocked IN
    [s EXCEPT !.encrypted = TRUE, !.keys[i] = k, !.unlocked = i, !.slots[i] = EmptySlot]

\* remove_encryption_key, up to the point where it writes.
WithoutKey(s, i) ==
    LET cleared == [s EXCEPT !.keys[i] = NoKey, !.slots[i] = EmptySlot] IN
    IF datastore_key_count(s) = 1
    THEN [cleared EXCEPT !.encrypted = FALSE, !.unlocked = NoIndex]
    ELSE [cleared EXCEPT !.unlocked = IF s.keys[1 - i] = NoKey THEN NoIndex ELSE 1 - i]

-----------------------------------------------------------------------------
(* Allocation *)

Extent(fcb) == fcb.at .. fcb.at + fcb.len - 1

\* Variant: the blocks of the tables are not counted.
UsedByFiles(fcbs) == UNION {Extent(fcbs[id]) : id \in Files}

Used(fcbs) == UNION {Extent(fcbs[id]) : id \in Ids}

Overlap(fcbs) == \E a, b \in Ids : a # b /\ Extent(fcbs[a]) \cap Extent(fcbs[b]) # {}

\* A free run of n blocks that starts a gap.
Fits(used, n, o) ==
    /\ o + n <= Capacity
    /\ (o .. o + n - 1) \cap used = {}
    /\ o = VMGS_MIN_FILE_BLOCK_OFFSET \/ o - 1 \in used

GapLength(used, o) ==
    CHOOSE n \in 1 .. Capacity - o : Fits(used, n, o) /\ (o + n = Capacity \/ o + n \in used)

\* The smallest gap that is large enough, and the first of several.
BestFit(used, n, o) ==
    /\ Fits(used, n, o)
    /\ \A p \in Blocks :
         Fits(used, n, p) => \/ GapLength(used, o) < GapLength(used, p)
                             \/ GapLength(used, o) = GapLength(used, p) /\ o <= p

-----------------------------------------------------------------------------
(* Reading a disk back *)

\* Variant: the larger sequence number is the current one.
get_larger_header(d) ==
    LET valid(i) == d[i].kind = "header"
    IN IF valid(0) /\ valid(1) THEN IF d[0].sequence > d[1].sequence THEN 0 ELSE 1
       ELSE IF valid(0) THEN 0 ELSE IF valid(1) THEN 1 ELSE NoIndex

\* Which header is current: the only valid one, or the one that follows the other.
get_active_header(d) ==
    LET valid(i) == d[i].kind = "header"
        follows(i) == d[i].sequence = Successor(d[1 - i].sequence)
    IN IF valid(0) /\ valid(1) THEN IF follows(0) THEN 0 ELSE IF follows(1) THEN 1 ELSE NoIndex
       ELSE IF valid(0) THEN 0 ELSE IF valid(1) THEN 1 ELSE NoIndex

\* The table of header i can be read, and initialize_file_metadata accepts it.
TableIsValid(d, i) ==
    LET t == d[d[i].table] IN
    /\ d[i].table \in Blocks
    /\ t.kind = "table"
    /\ \A id \in Ids : t.fcbs[id].len > 0 => Extent(t.fcbs[id]) \subseteq Blocks

\* from_header, and the file table read by finish_open.
FromDisk(d, i) ==
    [NewState EXCEPT !.active = i, !.sequence = d[i].sequence, !.fcbs = d[d[i].table].fcbs,
                     !.encrypted = d[i].encrypted, !.slots = d[i].slots,
                     !.reprovisioned = d[i].reprovisioned]

\* The slot that unlock_with_encryption_key settles on: the first that k decrypts.
SlotOf(slots, k) == IF slots[0].key = k THEN 0 ELSE IF slots[1].key = k THEN 1 ELSE NoIndex

\* k decrypts a slot, and the metadata key in it decrypts the extended file table.
Unlocks(d, slots, fcbs, k) ==
    LET i == SlotOf(slots, k) IN
    i # NoIndex /\ d[fcbs[EXTENDED_FILE_TABLE].at] = Extended(slots[i].meta)

\* Metadata keys that are anywhere to be seen.
MetaInUse ==
    LET OnDisk(d) == {d[l].meta : l \in {b \in Blocks : d[b].kind = "extended"}}
        InHeader(d) == UNION {{d[i].slots[0].meta, d[i].slots[1].meta} :
                                i \in {h \in {0, 1} : d[h].kind = "header"}}
    IN OnDisk(disk) \cup OnDisk(stable) \cup InHeader(disk) \cup InHeader(stable)
         \cup {state.meta, state.slots[0].meta, state.slots[1].meta}

\* A key from the random number generator: one that was not used.
RandomKey(m) == m \in MetaKeys \ MetaInUse /\ \A n \in MetaKeys \ MetaInUse : m <= n

-----------------------------------------------------------------------------
(* Operations, up to their first disk request *)

\* The file control blocks once the file table is at t, o's file at f and the extended
\* table at x.
FileEntry(o, f) == IF o.file = NoFile THEN NoFcb ELSE [at |-> f, len |-> Size[o.value]]

Entries(o, fcbs, t, f, x) ==
    [id \in Ids |-> CASE id = FILE_TABLE -> [at |-> t, len |-> 1]
                      [] id = o.file -> FileEntry(o, f)
                      [] id = EXTENDED_FILE_TABLE /\ o.ext -> [at |-> x, len |-> 1]
                      [] OTHER -> fcbs[id]]

\* The temporary state with these entries; m is the metadata key of the extended table.
Filled(s, fcbs, m) ==
    LET written == [s EXCEPT !.fcbs = fcbs, !.meta = m]
    IN IF encrypted_and_unlocked(s) THEN encrypt_metadata_key(written) ELSE written

\* write_files_internal on temporary state s: allocate the file table, then the
\* file if there is one, then the extended table, and fill in their entries.
write_files_internal(o, s) ==
    LET used == Used(s.fcbs) IN
    /\ op' = o
    /\ ~Overlap(s.fcbs)
    /\ \E t \in Blocks :
       /\ BestFit(used, 1, t)
       /\ \E f \in Blocks :
          /\ IF o.file = NoFile THEN f = VMGS_MIN_FILE_BLOCK_OFFSET
             ELSE BestFit(used \cup {t}, Size[o.value], f)
          /\ \E x \in Blocks, m \in MetaKeys \cup {NoMeta} :
             /\ IF o.ext THEN BestFit(used \cup {t} \cup Extent(FileEntry(o, f)), 1, x)
                ELSE x = VMGS_MIN_FILE_BLOCK_OFFSET
             /\ IF encrypted_and_unlocked(s) THEN RandomKey(m) ELSE m = s.meta
             /\ temp' = Filled(s, Entries(o, s.fcbs, t, f, x), m)

Operation(kind) == [NoOp EXCEPT !.kind = kind, !.ext = encrypted_and_unlocked(state)]

write_file(f, v) ==
    /\ pc = "idle"
    /\ write_files_internal([Operation("write") EXCEPT !.file = f, !.value = v], state)
    /\ pc' = "table"
    /\ target' = [wrote EXCEPT ![f] = v]
    /\ UNCHANGED <<disk, stable, state, wrote, hardened, intact, exposed, requested, known>>

\* The entry of a deleted or overwritten file is gone before the new table is
\* allocated, so that table may take its blocks: from here on the file's contents
\* are no longer promised, whether or not the operation commits.
Forget(f) == wrote' = [wrote EXCEPT ![f] = Lost]

move_file(src, dst, allow_overwrite) ==
    /\ pc = "idle"
    /\ allow_overwrite \/ state.fcbs[dst].len = 0
    /\ state.fcbs[src].len > 0
    /\ LET cleared == [state.fcbs EXCEPT ![src] = NoFcb]
           moved == [cleared EXCEPT ![dst] = state.fcbs[src]]
       IN write_files_internal(Operation("move"), [state EXCEPT !.fcbs = moved])
    /\ pc' = "table"
    /\ IF dst # src /\ state.fcbs[dst].len > 0 THEN Forget(dst) ELSE wrote' = wrote
    /\ LET cleared == [wrote EXCEPT ![src] = Absent]
       IN target' = [cleared EXCEPT ![dst] = wrote[src]]
    /\ UNCHANGED <<disk, stable, state, hardened, intact, exposed, requested, known>>

delete_file(f) ==
    /\ pc = "idle"
    /\ state.fcbs[f].len > 0
    /\ write_files_internal(Operation("delete"), [state EXCEPT !.fcbs[f] = NoFcb])
    /\ pc' = "table"
    /\ Forget(f)
    /\ target' = [wrote EXCEPT ![f] = Absent]
    /\ UNCHANGED <<disk, stable, state, hardened, intact, exposed, requested, known>>

unlock_with_encryption_key(k) ==
    /\ pc = "idle" /\ state.encrypted
    /\ Unlocks(disk, state.slots, state.fcbs, k)
    /\ LET i == SlotOf(state.slots, k) IN
       state' = [state EXCEPT !.keys[i] = k, !.unlocked = i, !.meta = state.slots[i].meta]
    /\ temp' = state'
    /\ known' = known \cup {k}
    /\ UNCHANGED <<disk, stable, pc, op, wrote, target, hardened, intact, exposed, requested>>

\* The new key is added and the old one removed, each by a header of its own.  With
\* both slots taken the inactive key is removed first.  Clients replace a key by
\* another one.
update_encryption_key(k) ==
    LET old == state.unlocked
        o == [Operation("key") EXCEPT !.ext = TRUE, !.key = k, !.index = old]
        after == [o EXCEPT !.then = IF old = NoIndex THEN "done" ELSE "remove"]
        added == WithKey(state, k)
    IN /\ pc = "idle"
       /\ state.encrypted => old # NoIndex /\ state.keys[old] # k
       /\ CASE datastore_key_count(state) = 0 ->
                 write_files_internal(after, added) /\ pc' = "table"
            [] datastore_key_count(state) = 1 ->
                 op' = after /\ temp' = encrypt_metadata_key(added) /\ pc' = "flush"
            [] OTHER ->
                 /\ op' = [o EXCEPT !.then = "add"]
                 /\ temp' = WithoutKey(state, 1 - old) /\ pc' = "flush"
       /\ known' = known \cup {k}
       /\ UNCHANGED <<disk, stable, state, wrote, target, hardened, intact, exposed, requested>>

\* open and the marker it clears.
open ==
    LET i == get_active_header(disk)
        s == FromDisk(disk, i)
    IN /\ pc = "closed"
       /\ i # NoIndex
       /\ TableIsValid(disk, i)
       /\ state' = s
       /\ requested' = FALSE
       /\ IF s.reprovisioned
          THEN /\ temp' = [s EXCEPT !.reprovisioned = FALSE]
               /\ op' = [NoOp EXCEPT !.kind = "open"] /\ pc' = "flush"
          ELSE temp' = s /\ op' = NoOp /\ pc' = "idle"
       /\ UNCHANGED <<disk, stable, wrote, target, hardened, intact, exposed, known>>

StartFormat(then) ==
    /\ pc = "closed"
    /\ write_files_internal([NoOp EXCEPT !.kind = "format", !.ext = TRUE, !.then = then], NewState)
    /\ pc' = "zero"
    /\ state' = NewState
    /\ intact' = FALSE /\ requested' = FALSE
    /\ UNCHANGED <<disk, stable, wrote, target, hardened, exposed, known>>

\* A format by its own name, or because try_open could not open the store.
format_new == StartFormat("done")

request_format ==
    LET i == get_active_header(disk)
        marked == i # NoIndex /\ disk[i].reprovisioned
    IN \/ ~marked /\ StartFormat("mark")
       \/ /\ pc = "closed" /\ marked /\ TableIsValid(disk, i)
          /\ state' = FromDisk(disk, i) /\ temp' = state'
          /\ op' = NoOp /\ pc' = "idle"
          /\ requested' = TRUE
          /\ UNCHANGED <<disk, stable, wrote, target, hardened, intact, exposed, known>>

-----------------------------------------------------------------------------
(* Disk requests *)

HeaderIsFlushed == disk[state.active] = stable[state.active]

WriteBlock(b, content) ==
    /\ disk' = [disk EXCEPT ![b] = content]
    /\ exposed' = (exposed \/ ~HeaderIsFlushed)

AfterFiles == IF op.kind = "format" THEN "format header" ELSE "flush"
AfterData == IF op.ext THEN "extended" ELSE AfterFiles

WriteFileTable ==
    /\ pc = "table"
    /\ WriteBlock(temp.fcbs[FILE_TABLE].at, Table(temp.fcbs))
    /\ pc' = IF op.file = NoFile THEN AfterData ELSE "data"
    /\ UNCHANGED <<stable, op, state, temp, wrote, target, hardened, intact, requested, known>>

WriteData ==
    /\ pc = "data"
    /\ WriteBlock(temp.fcbs[op.file].at + op.part, Data(op.value, op.part))
    /\ op' = [op EXCEPT !.part = @ + 1]
    /\ pc' = IF op.part + 1 < Size[op.value] THEN "data" ELSE AfterData
    /\ UNCHANGED <<stable, state, temp, wrote, target, hardened, intact, requested, known>>

WriteExtendedTable ==
    /\ pc = "extended"
    /\ WriteBlock(temp.fcbs[EXTENDED_FILE_TABLE].at, Extended(temp.meta))
    /\ pc' = AfterFiles
    /\ UNCHANGED <<stable, op, state, temp, wrote, target, hardened, intact, requested, known>>

\* Variant: the header is written without a flush before it.
FlushNothing ==
    /\ pc = "flush"
    /\ pc' = "header"
    /\ UNCHANGED <<disk, stable, op, state, temp, wrote, target, hardened, intact, exposed,
                   requested, known>>

Flush ==
    /\ pc = "flush"
    /\ stable' = disk
    /\ hardened' = wrote
    /\ exposed' = FALSE
    /\ pc' = "header"
    /\ UNCHANGED <<disk, op, state, temp, wrote, target, intact, requested, known>>

\* What the operation still has to do to state s: update_encryption_key goes on to
\* its next key, request_format to its marker.
Continue(s) ==
    CASE op.then = "add" -> /\ temp' = encrypt_metadata_key(WithKey(s, op.key))
                            /\ op' = [op EXCEPT !.then = "remove"]
                            /\ pc' = "flush"
      [] op.then = "remove" -> /\ temp' = WithoutKey(s, op.index)
                               /\ op' = [op EXCEPT !.then = "done"]
                               /\ pc' = "flush"
      [] op.then = "mark" -> /\ temp' = [s EXCEPT !.reprovisioned = TRUE]
                             /\ op' = [op EXCEPT !.then = "done"]
                             /\ pc' = "flush"
      [] OTHER -> temp' = s /\ op' = NoOp /\ pc' = "idle"

\* The header of write_header_and_apply commits the operation, and state follows.
WriteHeader ==
    LET s == Turned(temp) IN
    /\ pc = "header"
    /\ disk' = [disk EXCEPT ![s.active] = make_header(s)]
    /\ state' = s
    /\ Continue(s)
    /\ wrote' = target /\ target' = target
    /\ requested' = (requested \/ op.kind = "format")
    /\ known' = IF op.kind = "key" /\ op.then = "done" THEN {op.key} ELSE known
    /\ UNCHANGED <<stable, hardened, intact, exposed>>

\* format_new_inner: the second header is cleared first, the first one is written
\* last, and the disk is flushed.
ZeroHeader ==
    /\ pc = "zero"
    /\ disk' = [disk EXCEPT ![state.active] = Zeroed]
    /\ pc' = "table"
    /\ UNCHANGED <<stable, op, state, temp, wrote, target, hardened, intact, exposed, requested, known>>

WriteFormatHeader ==
    LET s == Turned(temp) IN
    /\ pc = "format header"
    /\ disk' = [disk EXCEPT ![s.active] = make_header(s)]
    /\ temp' = s
    /\ pc' = "format flush"
    /\ UNCHANGED <<stable, op, state, wrote, target, hardened, intact, exposed, requested, known>>

FlushFormat ==
    /\ pc = "format flush"
    /\ stable' = disk
    /\ state' = temp
    /\ Continue(temp)
    /\ wrote' = [f \in Files |-> Absent] /\ target' = wrote' /\ hardened' = wrote'
    /\ intact' = TRUE /\ exposed' = FALSE /\ known' = {}
    /\ UNCHANGED <<disk, requested>>

-----------------------------------------------------------------------------
(* Faults *)

\* The header slot that the next disk request writes, if it writes one.
WritingHeader ==
    CASE pc \in {"header", "format header"} -> {1 - temp.active}
      [] pc = "zero" -> {state.active}
      [] OTHER -> {}

\* The request is not carried out, or tears the header it was to write.  (A torn
\* block is one that no committed table refers to, and never read.)
Interrupted ==
    \/ disk' = disk
    \/ \E l \in WritingHeader : disk' = [disk EXCEPT ![l] = Torn]

Close == pc' = "closed" /\ state' = NewState /\ temp' = NewState

\* A disk request fails.  The operation returns the error and temp_state is dropped;
\* without a successful open or format there is no Vmgs.
DiskError ==
    /\ pc \notin {"closed", "idle"}
    /\ Interrupted
    /\ IF op.kind \in {"open", "format"} THEN Close
       ELSE pc' = "idle" /\ temp' = state /\ state' = state
    /\ op' = NoOp
    /\ target' = wrote
    /\ UNCHANGED <<stable, wrote, hardened, intact, exposed, requested, known>>

\* The process ends; what it wrote stays with the host.
Crash ==
    /\ pc # "closed"
    /\ Interrupted
    /\ Close
    /\ op' = NoOp
    /\ target' = wrote
    /\ UNCHANGED <<stable, wrote, hardened, intact, exposed, requested, known>>

Dirty == {l \in Locations : disk[l] # stable[l]}

\* The disk after a power loss that takes the writes to lost, and tears those to torn.
AfterPowerLoss(lost, torn) ==
    [l \in Locations |-> IF l \in torn THEN Torn ELSE IF l \in lost THEN stable[l] ELSE disk[l]]

PowerLoss ==
    LET current == get_active_header(disk) IN
    \E lost \in SUBSET Dirty, torn \in SUBSET (Dirty \cap {0, 1}) :
        /\ disk' = AfterPowerLoss(lost, torn)
        /\ stable' = disk'
        /\ wrote' = IF current \in lost \cup torn THEN hardened ELSE wrote
        /\ target' = wrote' /\ hardened' = wrote'
        /\ intact' = (intact /\ ~exposed)
        /\ exposed' = FALSE
        /\ Close /\ op' = NoOp
        /\ UNCHANGED <<requested, known>>

-----------------------------------------------------------------------------
Request ==
    \/ \E f \in Files, v \in Values : write_file(f, v)
    \/ \E src, dst \in Files, allow \in BOOLEAN : move_file(src, dst, allow)
    \/ \E f \in Files : delete_file(f)
    \/ \E k \in Keys : update_encryption_key(k)
    \/ format_new
    \/ request_format

Access == open \/ \E k \in Keys : unlock_with_encryption_key(k)

DiskRequest ==
    \/ WriteFileTable \/ WriteData \/ WriteExtendedTable \/ Flush \/ WriteHeader
    \/ ZeroHeader \/ WriteFormatHeader \/ FlushFormat

Fault == DiskError \/ Crash \/ PowerLoss

Next == Request \/ Access \/ DiskRequest \/ Fault

Spec == Init /\ [][Next]_vars

-----------------------------------------------------------------------------
(* Properties *)

Fcb == [at : Nat, len : Nat]
Slot == [key : Keys \cup {NoKey}, meta : MetaKeys \cup {NoMeta}]
Slots == [{0, 1} -> Slot]
Header == [kind : {"header"}, sequence : 0 .. SeqWrap - 1, table : Nat, encrypted : BOOLEAN,
           slots : Slots, reprovisioned : BOOLEAN]
Content == {Zeroed, Torn} \cup Header \cup [kind : {"table"}, fcbs : [Ids -> Fcb]]
             \cup [kind : {"extended"}, meta : MetaKeys \cup {NoMeta}]
             \cup [kind : {"data"}, value : Values, part : Nat]
VmgsState == [active : {0, 1}, sequence : 0 .. SeqWrap - 1, fcbs : [Ids -> Fcb],
              encrypted : BOOLEAN, unlocked : {0, 1, NoIndex},
              keys : [{0, 1} -> Keys \cup {NoKey}], slots : Slots,
              meta : MetaKeys \cup {NoMeta}, reprovisioned : BOOLEAN]
Op == [kind : {"none", "write", "move", "delete", "key", "open", "format"},
       file : Files \cup {NoFile}, value : Values \cup {Lost}, part : Nat, ext : BOOLEAN,
       then : {"done", "add", "remove", "mark"}, key : Keys \cup {NoKey},
       index : {0, 1, NoIndex}]
World == [Files -> Values \cup {Absent, Lost}]

\* Every variable has its type.
TypeOK ==
    /\ disk \in [Locations -> Content] /\ stable \in [Locations -> Content]
    /\ pc \in {"closed", "idle", "table", "data", "extended", "flush", "header",
               "zero", "format header", "format flush"}
    /\ op \in Op
    /\ state \in VmgsState /\ temp \in VmgsState
    /\ wrote \in World /\ target \in World /\ hardened \in World
    /\ intact \in BOOLEAN /\ exposed \in BOOLEAN /\ requested \in BOOLEAN
    /\ known \subseteq Keys

\* The blocks of an entry hold the value w.
Stored(d, fcb, w) ==
    /\ fcb.len = Size[w]
    /\ \A i \in 0 .. Size[w] - 1 : d[fcb.at + i] = Data(w, i)

\* The store on disk d opens, and its files are those of w.
Holds(d, w) ==
    LET i == get_active_header(d) IN
    /\ i # NoIndex
    /\ TableIsValid(d, i)
    /\ LET fcbs == d[d[i].table].fcbs IN
       \A f \in Files : /\ w[f] = Absent <=> fcbs[f].len = 0
                        /\ w[f] \in Values => Stored(d, fcbs[f], w[f])

\* Whenever the process ends, between two disk requests or in the middle of one, the
\* disk opens and has every file as the last operation that committed left it, with
\* sequence numbers at their wrap too (write_header_and_apply, get_active_header).
\* Excepted is the victim of a delete or a move that did not commit: see Forget.
CrashKeepsFiles == intact => Holds(disk, wrote)

\* A power loss that takes any of the writes since the last flush leaves the files
\* of the current header, or those of the header at the last flush.  Excepted is the
\* time from the first block written under a header that was not flushed (headers
\* are flushed by the next operation only) to the flush that follows.
PowerLossKeepsFiles ==
    intact /\ ~exposed =>
        \A lost \in SUBSET Dirty, torn \in SUBSET (Dirty \cap {0, 1}) :
            LET d == AfterPowerLoss(lost, torn) IN Holds(d, wrote) \/ Holds(d, hardened)

\* An open store works on the layout of its disk, and no two entries share a block:
\* the allocator's AllocateOffset error is out of reach, and reads return what was
\* written (allocate_space, finish_open).
MemoryFollowsDisk ==
    intact /\ pc # "closed" =>
        /\ get_active_header(disk) = state.active
        /\ disk[state.active] = make_header(state)
        /\ disk[disk[state.active].table] = Table(state.fcbs)
        /\ ~Overlap(state.fcbs)

\* At every moment of a key update, and after any crash in it, one of the keys the
\* client holds unlocks the store: the key last used or installed, or the one being
\* installed (update_encryption_key).
KeyNeverLost ==
    LET i == get_active_header(disk) IN
    intact /\ disk[i].encrypted =>
        \E k \in known : Unlocks(disk, disk[i].slots, disk[disk[i].table].fcbs, k)

\* A boot that asks for a format again after one that succeeded, with no other boot in
\* between, finds the marker and keeps what was written since (request_format).
FormatsOncePerRequest ==
    intact /\ requested /\ (\E f \in Files : wrote[f] # Absent) =>
        disk[get_active_header(disk)].reprovisioned

=============================================================================
