----------------------------- MODULE VmgsProofs -----------------------------
(***************************************************************************)
(* Proofs about the guest state file: its types, that its files survive    *)
(* crashes and power loss, and that a request to format it is served once. *)
(***************************************************************************)
EXTENDS Vmgs, TLAPS

(* The time a prover may take for one obligation. *)
USE ZenonT(20), SMTT(20)

-----------------------------------------------------------------------------
(* Types of the helpers *)

LEMMA NoOpType == NoOp \in Op
BY DEF NoOp, Op

LEMMA NewStateType == NewState \in VmgsState
BY SMTT(20), SeqAssumption DEF NewState, VmgsState, EmptySlot, NoFcb, Fcb, Slots, Slot, NoMeta, NoIndex

LEMMA SlotUpdates ==
    ASSUME NEW s \in VmgsState, NEW i \in {0, 1}, NEW k \in Keys \cup {NoKey}, NEW e \in Slot
    PROVE  /\ [s.keys EXCEPT ![i] = k] \in [{0, 1} -> Keys \cup {NoKey}]
           /\ [s.slots EXCEPT ![i] = e] \in Slots
BY DEF VmgsState, Slots

LEMMA EmptySlotType == EmptySlot \in Slot
BY DEF EmptySlot, Slot

LEMMA EncryptType ==
    ASSUME NEW s \in VmgsState, s.unlocked # NoIndex
    PROVE  encrypt_metadata_key(s) \in VmgsState
<1>1. s.unlocked \in {0, 1}
  BY DEF VmgsState, NoIndex
<1>2. [key |-> s.keys[s.unlocked], meta |-> s.meta] \in Slot
  BY <1>1 DEF VmgsState, Slot
<1>3. [s.slots EXCEPT ![s.unlocked] = [key |-> s.keys[s.unlocked], meta |-> s.meta]] \in Slots
  BY <1>1, <1>2, SlotUpdates
<1> QED
  BY <1>3 DEF encrypt_metadata_key, VmgsState

LEMMA WithKeyType ==
    ASSUME NEW s \in VmgsState, NEW k \in Keys
    PROVE  WithKey(s, k) \in VmgsState
<1> DEFINE i == IF s.unlocked = NoIndex THEN 0 ELSE 1 - s.unlocked
<1>1. i \in {0, 1}
  BY SMTT(20) DEF VmgsState, NoIndex
<1>2. /\ [s.keys EXCEPT ![i] = k] \in [{0, 1} -> Keys \cup {NoKey}]
      /\ [s.slots EXCEPT ![i] = EmptySlot] \in Slots
  BY <1>1, SlotUpdates, EmptySlotType
<1>3. WithKey(s, k) = [s EXCEPT !.encrypted = TRUE, !.keys = [s.keys EXCEPT ![i] = k],
                                !.unlocked = i, !.slots = [s.slots EXCEPT ![i] = EmptySlot]]
  BY DEF WithKey, VmgsState
<1> HIDE DEF i
<1> QED
  BY <1>1, <1>2, <1>3 DEF VmgsState

LEMMA WithoutKeyType ==
    ASSUME NEW s \in VmgsState, NEW i \in {0, 1}
    PROVE  WithoutKey(s, i) \in VmgsState
<1> DEFINE c == [s EXCEPT !.keys = [s.keys EXCEPT ![i] = NoKey],
                          !.slots = [s.slots EXCEPT ![i] = EmptySlot]]
<1>0. /\ [s.keys EXCEPT ![i] = NoKey] \in [{0, 1} -> Keys \cup {NoKey}]
      /\ [s.slots EXCEPT ![i] = EmptySlot] \in Slots
  BY SlotUpdates, EmptySlotType
<1>1. c \in VmgsState
  BY <1>0 DEF VmgsState
<1>2. c = [s EXCEPT !.keys[i] = NoKey, !.slots[i] = EmptySlot]
  BY DEF VmgsState
<1>3. \A e \in BOOLEAN, u \in {0, 1, NoIndex} :
          /\ [c EXCEPT !.encrypted = e, !.unlocked = u] \in VmgsState
          /\ [c EXCEPT !.unlocked = u] \in VmgsState
  <2> HIDE DEF c
  <2> QED  BY <1>1 DEF VmgsState
<1>4. 1 - i \in {0, 1}
  BY SMTT(20)
<1> HIDE DEF c
<1> QED
  BY <1>2, <1>3, <1>4 DEF WithoutKey

LEMMA TurnedType ==
    ASSUME NEW s \in VmgsState
    PROVE  Turned(s) \in VmgsState
<1>1. Successor(s.sequence) \in 0 .. SeqWrap - 1 /\ 1 - s.active \in {0, 1}
  BY SMTT(20), SeqAssumption DEF Successor, VmgsState
<1> QED
  BY <1>1 DEF Turned, VmgsState

LEMMA HeaderType ==
    ASSUME NEW s \in VmgsState
    PROVE  make_header(s) \in Content
BY DEF make_header, VmgsState, Header, Content, Ids, Fcb

LEMMA FromDiskType ==
    ASSUME NEW d \in [Locations -> Content], NEW i \in {0, 1}, d[i].kind = "header",
           TableIsValid(d, i)
    PROVE  FromDisk(d, i) \in VmgsState
<1>1. i \in Locations
  BY SMTT(20), CapacityAssumption DEF Locations, VMGS_MIN_FILE_BLOCK_OFFSET
<1>2. d[i] \in Header
  BY SMTT(20), <1>1 DEF Content, Zeroed, Torn
<1>3. d[i].table \in Locations
  BY SMTT(20) DEF TableIsValid, Blocks, Locations, VMGS_MIN_FILE_BLOCK_OFFSET
<1>4. d[d[i].table].fcbs \in [Ids -> Fcb]
  BY SMTT(20), <1>3 DEF TableIsValid, Content, Header, Zeroed, Torn
<1> QED
  BY <1>2, <1>4, NewStateType DEF FromDisk, VmgsState, Header

-----------------------------------------------------------------------------
(* The type invariant, and what it needs to know of keys and operations *)

\* A store that is not encrypted has no key.
Plain(s) == ~s.encrypted => s.slots[0] = EmptySlot /\ s.slots[1] = EmptySlot

\* A key that is in memory has its slot filled; the slot of index i may be yet to fill.
Armed(s, i) ==
    /\ \A j \in {0, 1} : s.keys[j] # NoKey /\ j # i => s.slots[j] # EmptySlot
    /\ s.unlocked # NoIndex => s.keys[s.unlocked] # NoKey /\ s.encrypted

PlainHeaders(d) == \A i \in {0, 1} : d[i].kind = "header" => Plain(d[i])

KeyInv ==
    /\ PlainHeaders(disk) /\ PlainHeaders(stable)
    /\ Plain(state) /\ Armed(state, NoIndex)
    /\ Plain(temp) /\ Armed(temp, NoIndex)

OpInv ==
    /\ pc \in {"closed", "idle"} => op = NoOp
    /\ pc = "data" => op.file \in Files
    /\ op.file \in Files => op.value \in Values
    /\ op.kind = "key" => op.key \in Keys
    /\ op.then = "add" => op.key \in Keys /\ op.index \in {0, 1} /\ temp.unlocked = op.index
    /\ op.then = "remove" => /\ op.index \in {0, 1}
                             /\ temp.slots[0] # EmptySlot /\ temp.slots[1] # EmptySlot

TypeInv == TypeOK /\ KeyInv /\ OpInv

LEMMA HeaderLocations == 0 \in Locations /\ 1 \in Locations
BY SMTT(20), CapacityAssumption DEF Locations, VMGS_MIN_FILE_BLOCK_OFFSET

LEMMA EncryptKeys ==
    ASSUME NEW s \in VmgsState, s.unlocked # NoIndex, Armed(s, s.unlocked)
    PROVE  LET e == encrypt_metadata_key(s) IN
           /\ e \in VmgsState /\ Plain(e) /\ Armed(e, NoIndex)
           /\ e.slots[s.unlocked] # EmptySlot
           /\ \A j \in {0, 1} : j # s.unlocked => e.slots[j] = s.slots[j]
<1> DEFINE e == encrypt_metadata_key(s)
           u == s.unlocked
           c == [key |-> s.keys[u], meta |-> s.meta]
<1>1. u \in {0, 1} /\ s.encrypted /\ s.keys[u] # NoKey
  BY DEF VmgsState, NoIndex, Armed
<1>2. c # EmptySlot
  BY <1>1 DEF EmptySlot
<1>3. /\ e.slots = [s.slots EXCEPT ![u] = c]
      /\ e.keys = s.keys /\ e.encrypted = s.encrypted /\ e.unlocked = u
  BY DEF encrypt_metadata_key, VmgsState
<1>4. e.slots[u] = c /\ \A j \in {0, 1} : j # u => e.slots[j] = s.slots[j]
  BY <1>1, <1>3 DEF VmgsState, Slots
<1>5. e \in VmgsState
  BY EncryptType
<1> HIDE DEF e, u, c
<1>6. Armed(e, NoIndex) /\ Plain(e)
  BY <1>1, <1>2, <1>3, <1>4 DEF Armed, Plain, u
<1> QED
  BY <1>2, <1>4, <1>5, <1>6 DEF e, u

LEMMA WithKeyKeys ==
    ASSUME NEW s \in VmgsState, Armed(s, NoIndex), NEW k \in Keys
    PROVE  LET w == WithKey(s, k) IN
           /\ w \in VmgsState /\ w.unlocked \in {0, 1} /\ Armed(w, w.unlocked)
           /\ w.unlocked = IF s.unlocked = NoIndex THEN 0 ELSE 1 - s.unlocked
           /\ \A j \in {0, 1} : j # w.unlocked => w.slots[j] = s.slots[j]
<1> DEFINE w == WithKey(s, k)
           i == IF s.unlocked = NoIndex THEN 0 ELSE 1 - s.unlocked
<1>1. i \in {0, 1}
  BY SMTT(20) DEF VmgsState, NoIndex
<1>2. /\ w.encrypted /\ w.unlocked = i
      /\ w.keys = [s.keys EXCEPT ![i] = k]
      /\ w.slots = [s.slots EXCEPT ![i] = EmptySlot]
  BY DEF WithKey, VmgsState
<1>3. w.keys[i] = k /\ \A j \in {0, 1} : j # i => w.keys[j] = s.keys[j] /\ w.slots[j] = s.slots[j]
  BY SMTT(20), <1>1, <1>2 DEF VmgsState, Slots
<1>4. w \in VmgsState
  BY WithKeyType
<1> HIDE DEF w, i
<1>5. Armed(w, i)
  BY SMTT(20), <1>1, <1>2, <1>3, NamesAssumption DEF Armed, NoIndex
<1> QED
  BY <1>1, <1>2, <1>3, <1>4, <1>5 DEF w, i

LEMMA WithoutKeyKeys ==
    ASSUME NEW s \in VmgsState, Armed(s, NoIndex), s.encrypted, NEW i \in {0, 1},
           s.slots[0] # EmptySlot, s.slots[1] # EmptySlot
    PROVE  LET w == WithoutKey(s, i) IN
           /\ w \in VmgsState /\ Plain(w) /\ Armed(w, NoIndex)
           /\ s.unlocked = 1 - i => w.unlocked = 1 - i
<1> DEFINE w == WithoutKey(s, i)
           u == IF s.keys[1 - i] = NoKey THEN NoIndex ELSE 1 - i
<1>1. datastore_key_count(s) # 1
  BY SMTT(20) DEF datastore_key_count
<1>2. /\ w.encrypted /\ w.unlocked = u
      /\ w.keys = [s.keys EXCEPT ![i] = NoKey]
      /\ w.slots = [s.slots EXCEPT ![i] = EmptySlot]
  BY <1>1 DEF WithoutKey, VmgsState
<1>3. /\ w.keys[i] = NoKey
      /\ w.keys[1 - i] = s.keys[1 - i] /\ w.slots[1 - i] = s.slots[1 - i]
  BY SMTT(20), <1>2 DEF VmgsState, Slots
<1>4. w \in VmgsState
  BY WithoutKeyType
<1> HIDE DEF w
<1>5. Armed(w, NoIndex) /\ Plain(w)
  BY SMTT(20), <1>2, <1>3 DEF Armed, Plain, NoIndex
<1>6. s.unlocked = 1 - i => w.unlocked = 1 - i
  BY <1>2 DEF Armed, NoIndex
<1> QED
  BY <1>4, <1>5, <1>6 DEF w

LEMMA AllocTypes ==
    ASSUME NEW o \in Op, NEW s \in VmgsState, o.file \in Files => o.value \in Values,
           Plain(s), Armed(s, s.unlocked), s.unlocked = NoIndex => Armed(s, NoIndex),
           write_files_internal(o, s)
    PROVE  op' = o /\ temp' \in VmgsState /\ Plain(temp)' /\ Armed(temp, NoIndex)'
<1>1. PICK t \in Blocks, f \in Blocks, x \in Blocks, m \in MetaKeys \cup {NoMeta} :
         temp' = Filled(s, Entries(o, s.fcbs, t, f, x), m)
  BY DEF write_files_internal
<1> DEFINE fcbs == Entries(o, s.fcbs, t, f, x)
           written == [s EXCEPT !.fcbs = fcbs, !.meta = m]
<1>2. t \in Nat /\ f \in Nat /\ x \in Nat
  BY SMTT(20), CapacityAssumption DEF Blocks, VMGS_MIN_FILE_BLOCK_OFFSET
<1>3. FileEntry(o, f) \in Fcb
  BY <1>2, SizeAssumption DEF FileEntry, Fcb, NoFcb, Op
<1>4. fcbs \in [Ids -> Fcb]
  BY <1>2, <1>3 DEF Entries, Fcb, VmgsState
<1> HIDE DEF fcbs
<1>5. /\ written \in VmgsState
      /\ written.keys = s.keys /\ written.slots = s.slots /\ written.unlocked = s.unlocked
      /\ written.encrypted = s.encrypted
  BY <1>4 DEF VmgsState
<1>6. temp' = IF encrypted_and_unlocked(s) THEN encrypt_metadata_key(written) ELSE written
  BY <1>1 DEF fcbs, Filled
<1> HIDE DEF written
<1>7. Plain(written) /\ Armed(written, written.unlocked)
  BY <1>5 DEF Plain, Armed
<1>8. op' = o
  BY DEF write_files_internal
<1>9. CASE encrypted_and_unlocked(s)
  BY <1>5, <1>6, <1>7, <1>8, <1>9, EncryptKeys DEF encrypted_and_unlocked, Armed, Plain
<1>10. CASE ~encrypted_and_unlocked(s)
  <2>1. s.unlocked = NoIndex
    BY <1>10 DEF encrypted_and_unlocked, Armed
  <2> QED
    BY <2>1, <1>5, <1>6, <1>7, <1>8, <1>10 DEF Armed, Plain
<1> QED
  BY <1>9, <1>10

\* What the operations on an open store have in common.
LEMMA RequestTypes ==
    ASSUME TypeInv, NEW o \in Op, NEW s \in VmgsState, o.file \in Files => o.value \in Values,
           Plain(s), Armed(s, s.unlocked), s.unlocked = NoIndex => Armed(s, NoIndex),
           write_files_internal(o, s), o.kind = "key" => o.key \in Keys, o.then \in {"done", "mark"},
           pc' \in {"table", "zero"}, wrote' \in World, target' \in World, known' \subseteq Keys,
           state' \in VmgsState, Plain(state'), Armed(state', NoIndex),
           intact' \in BOOLEAN, requested' \in BOOLEAN,
           UNCHANGED <<disk, stable, hardened, exposed>>
    PROVE  TypeInv'
<1>1. op' = o /\ temp' \in VmgsState /\ Plain(temp)' /\ Armed(temp, NoIndex)'
  BY AllocTypes
<1>2. TypeOK'
  BY <1>1 DEF TypeInv, TypeOK
<1>3. KeyInv'
  BY <1>1 DEF TypeInv, KeyInv, PlainHeaders, Plain, Armed
<1>4. OpInv'
  BY <1>1 DEF OpInv
<1> QED
  BY <1>2, <1>3, <1>4 DEF TypeInv

LEMMA OperationType ==
    ASSUME TypeInv, NEW kind \in {"write", "move", "delete", "key"}
    PROVE  /\ Operation(kind) \in Op
           /\ Operation(kind).file = NoFile /\ Operation(kind).then = "done"
           /\ Operation(kind).kind = kind
<1> DEFINE e == encrypted_and_unlocked(state)
<1>1. e \in BOOLEAN
  BY DEF encrypted_and_unlocked
<1> HIDE DEF e
<1>2. Operation(kind) = [NoOp EXCEPT !.kind = kind, !.ext = e]
  BY DEF Operation, e
<1>3. Operation(kind) = [kind |-> kind, file |-> NoFile, value |-> Lost, part |-> 0, ext |-> e,
                         then |-> "done", key |-> NoKey, index |-> NoIndex]
  BY <1>2 DEF NoOp
<1> QED
  BY SMTT(20), <1>1, <1>3 DEF Op

LEMMA NewStateKeys == NewState \in VmgsState /\ Plain(NewState) /\ Armed(NewState, NoIndex)
BY NewStateType DEF NewState, Plain, Armed, NoIndex

LEMMA RelabelKeys ==
    ASSUME NEW s \in VmgsState, Plain(s), Armed(s, NoIndex), NEW f \in [Ids -> Fcb]
    PROVE  LET r == [s EXCEPT !.fcbs = f] IN
           /\ r \in VmgsState /\ Plain(r) /\ Armed(r, r.unlocked)
           /\ r.unlocked = NoIndex => Armed(r, NoIndex)
<1> DEFINE r == [s EXCEPT !.fcbs = f]
<1>1. r \in VmgsState
  BY DEF VmgsState
<1>2. r.keys = s.keys /\ r.slots = s.slots /\ r.unlocked = s.unlocked /\ r.encrypted = s.encrypted
  BY DEF VmgsState
<1> HIDE DEF r
<1>3. Plain(r) /\ Armed(r, r.unlocked) /\ Armed(r, NoIndex)
  BY SMTT(20), <1>2 DEF Plain, Armed, NoIndex
<1> QED
  BY <1>1, <1>3 DEF r

LEMMA WriteFileTypes ==
    ASSUME TypeInv, NEW f \in Files, NEW v \in Values, write_file(f, v)
    PROVE  TypeInv'
<1> DEFINE o == [Operation("write") EXCEPT !.file = f, !.value = v]
<1>1. o \in Op /\ o.file = f /\ o.value = v /\ o.then = "done" /\ o.kind = "write"
  <2>1. Operation("write") \in Op /\ Operation("write").then = "done" /\ Operation("write").kind = "write"
    BY OperationType
  <2> QED
    BY <2>1 DEF Op
<1>2. Plain(state) /\ Armed(state, state.unlocked) /\ Armed(state, NoIndex)
  BY SMTT(20) DEF TypeInv, KeyInv, Armed, NoIndex
<1>3. write_files_internal(o, state) /\ target' \in World
  BY DEF write_file, TypeInv, TypeOK, World
<1> HIDE DEF o
<1> QED
  BY <1>1, <1>2, <1>3, RequestTypes DEF write_file, TypeInv, TypeOK

LEMMA MoveFileTypes ==
    ASSUME TypeInv, NEW src \in Files, NEW dst \in Files, NEW a \in BOOLEAN, move_file(src, dst, a)
    PROVE  TypeInv'
<1> DEFINE o == Operation("move")
           f == [[state.fcbs EXCEPT ![src] = NoFcb] EXCEPT ![dst] = state.fcbs[src]]
           s == [state EXCEPT !.fcbs = f]
<1>1. o \in Op /\ o.file = NoFile /\ o.then = "done" /\ o.kind = "move"
  BY OperationType
<1>2. f \in [Ids -> Fcb]
  BY DEF TypeInv, TypeOK, VmgsState, Fcb, NoFcb, Ids
<1>3. write_files_internal(o, s) /\ wrote' \in World /\ target' \in World
  BY DEF move_file, Forget, TypeInv, TypeOK, World
<1> HIDE DEF o, f
<1>4. s \in VmgsState /\ Plain(s) /\ Armed(s, s.unlocked) /\ (s.unlocked = NoIndex => Armed(s, NoIndex))
  BY <1>2, RelabelKeys DEF TypeInv, TypeOK, KeyInv
<1> HIDE DEF s
<1> QED
  BY <1>1, <1>3, <1>4, RequestTypes, NamesAssumption DEF move_file, TypeInv, TypeOK, KeyInv

LEMMA DeleteFileTypes ==
    ASSUME TypeInv, NEW v \in Files, delete_file(v)
    PROVE  TypeInv'
<1> DEFINE o == Operation("delete")
           f == [state.fcbs EXCEPT ![v] = NoFcb]
           s == [state EXCEPT !.fcbs = f]
<1>1. o \in Op /\ o.file = NoFile /\ o.then = "done" /\ o.kind = "delete"
  BY OperationType
<1>2. f \in [Ids -> Fcb]
  BY DEF TypeInv, TypeOK, VmgsState, Fcb, NoFcb, Ids
<1>3. write_files_internal(o, s) /\ wrote' \in World /\ target' \in World
  BY DEF delete_file, Forget, TypeInv, TypeOK, World
<1> HIDE DEF o, f
<1>4. s \in VmgsState /\ Plain(s) /\ Armed(s, s.unlocked) /\ (s.unlocked = NoIndex => Armed(s, NoIndex))
  BY <1>2, RelabelKeys DEF TypeInv, TypeOK, KeyInv
<1> HIDE DEF s
<1> QED
  BY <1>1, <1>3, <1>4, RequestTypes, NamesAssumption DEF delete_file, TypeInv, TypeOK, KeyInv

LEMMA FormatTypes ==
    ASSUME TypeInv, NEW then \in {"done", "mark"}, StartFormat(then)
    PROVE  TypeInv'
<1> DEFINE o == [NoOp EXCEPT !.kind = "format", !.ext = TRUE, !.then = then]
<1>1. o \in Op /\ o.file = NoFile /\ o.then = then /\ o.kind = "format"
  BY DEF NoOp, Op
<1>2. write_files_internal(o, NewState)
  BY DEF StartFormat
<1> HIDE DEF o
<1>3. Armed(NewState, NewState.unlocked)
  BY NewStateKeys DEF Armed, NewState
<1> QED
  BY <1>1, <1>2, <1>3, NewStateKeys, RequestTypes, NamesAssumption DEF StartFormat, TypeInv, TypeOK

LEMMA UnlockTypes ==
    ASSUME TypeInv, NEW k \in Keys, unlock_with_encryption_key(k)
    PROVE  TypeInv'
<1> DEFINE i == SlotOf(state.slots, k)
<1>1. i \in {0, 1} /\ state.slots[i].key = k /\ state.encrypted
  BY DEF unlock_with_encryption_key, Unlocks, SlotOf, NoIndex
<1>2. state' = [state EXCEPT !.keys[i] = k, !.unlocked = i, !.meta = state.slots[i].meta]
  BY DEF unlock_with_encryption_key
<1> HIDE DEF i
<1>3. /\ state'.keys = [state.keys EXCEPT ![i] = k] /\ state'.slots = state.slots
      /\ state'.unlocked = i /\ state'.encrypted
  BY <1>1, <1>2 DEF TypeInv, TypeOK, VmgsState
<1>4. state'.keys[i] = k /\ \A j \in {0, 1} : j # i => state'.keys[j] = state.keys[j]
  BY <1>1, <1>3 DEF TypeInv, TypeOK, VmgsState
<1>5. state.slots[i] # EmptySlot
  BY SMTT(20), <1>1, NamesAssumption DEF EmptySlot
<1>6. Plain(state') /\ Armed(state', NoIndex)
  BY SMTT(20), <1>1, <1>3, <1>4, <1>5, NamesAssumption DEF Plain, Armed, TypeInv, KeyInv
<1>7. state' \in VmgsState
  <2>1. /\ [state.keys EXCEPT ![i] = k] \in [{0, 1} -> Keys \cup {NoKey}]
        /\ state.slots[i].meta \in MetaKeys \cup {NoMeta}
    BY <1>1 DEF TypeInv, TypeOK, VmgsState, Slots, Slot
  <2>2. state' = [state EXCEPT !.keys = [state.keys EXCEPT ![i] = k], !.unlocked = i,
                               !.meta = state.slots[i].meta]
    BY <1>2 DEF TypeInv, TypeOK, VmgsState
  <2> QED
    BY <1>1, <2>1, <2>2 DEF TypeInv, TypeOK, VmgsState
<1>8. temp' = state' /\ known' = known \cup {k} /\ pc = "idle"
      /\ UNCHANGED <<disk, stable, pc, op, wrote, target, hardened, intact, exposed, requested>>
  BY DEF unlock_with_encryption_key
<1>9. TypeOK'
  BY <1>7, <1>8 DEF TypeInv, TypeOK
<1>10. KeyInv'
  BY <1>6, <1>8 DEF TypeInv, KeyInv, PlainHeaders
<1>11. OpInv'
  BY SMTT(20), <1>8 DEF TypeInv, OpInv, NoOp
<1> QED
  BY <1>9, <1>10, <1>11 DEF TypeInv

\* An operation that goes straight to its flush.
LEMMA FlushTypes ==
    ASSUME TypeInv, op' \in Op, temp' \in VmgsState, Plain(temp'), Armed(temp', NoIndex), OpInv',
           pc' \in {"idle", "flush"}, state' \in VmgsState, Plain(state'), Armed(state', NoIndex),
           known' \subseteq Keys, requested' \in BOOLEAN,
           UNCHANGED <<disk, stable, wrote, target, hardened, intact, exposed>>
    PROVE  TypeInv'
<1>1. TypeOK'
  BY DEF TypeInv, TypeOK
<1>2. KeyInv'
  BY DEF TypeInv, KeyInv, PlainHeaders
<1> QED
  BY <1>1, <1>2 DEF TypeInv

LEMMA UpdateKeyTypes ==
    ASSUME TypeInv, NEW k \in Keys, update_encryption_key(k)
    PROVE  TypeInv'
<1> DEFINE old == state.unlocked
           o == [Operation("key") EXCEPT !.ext = TRUE, !.key = k, !.index = old]
           after == [o EXCEPT !.then = IF old = NoIndex THEN "done" ELSE "remove"]
           added == WithKey(state, k)
           n == datastore_key_count(state)
<1>1. /\ after \in Op /\ after.file = NoFile /\ after.kind = "key" /\ after.key = k
      /\ after.index = old /\ after.then = IF old = NoIndex THEN "done" ELSE "remove"
  <2>1. Operation("key") \in Op /\ Operation("key").file = NoFile /\ Operation("key").kind = "key"
    BY OperationType
  <2> QED
    BY <2>1, ZenonT(40) DEF TypeInv, TypeOK, VmgsState, Op
<1>2. LET a == [o EXCEPT !.then = "add"] IN
      /\ a \in Op /\ a.file = NoFile /\ a.kind = "key" /\ a.key = k /\ a.index = old /\ a.then = "add"
  <2>1. Operation("key") \in Op /\ Operation("key").file = NoFile /\ Operation("key").kind = "key"
    BY OperationType
  <2> QED
    BY <2>1 DEF TypeInv, TypeOK, VmgsState, Op
<1>3. /\ added \in VmgsState /\ added.unlocked \in {0, 1} /\ Armed(added, added.unlocked)
      /\ added.unlocked = IF old = NoIndex THEN 0 ELSE 1 - old
      /\ \A j \in {0, 1} : j # added.unlocked => added.slots[j] = state.slots[j]
  BY WithKeyKeys DEF TypeInv, TypeOK, KeyInv
<1>4. /\ state.encrypted => old # NoIndex
      /\ old # NoIndex => state.encrypted /\ state.slots[old] # EmptySlot
      /\ state \in VmgsState /\ Plain(state) /\ Armed(state, NoIndex) /\ old \in {0, 1, NoIndex}
  BY DEF update_encryption_key, TypeInv, TypeOK, KeyInv, Armed, VmgsState, NoIndex
<1>5. /\ known' \subseteq Keys
      /\ UNCHANGED <<disk, stable, state, wrote, target, hardened, intact, exposed, requested>>
  BY DEF update_encryption_key, TypeInv, TypeOK
<1> HIDE DEF after, added
<1>6. CASE n = 0
  <2>1. old = NoIndex
    BY SMTT(20), <1>4, <1>6 DEF datastore_key_count, NoIndex
  <2>2. write_files_internal(after, added) /\ pc' = "table"
    BY SMTT(20), <1>6 DEF update_encryption_key, after, added
  <2>3. Plain(added) /\ added.unlocked # NoIndex
    BY SMTT(20), <1>3 DEF Armed, Plain, NoIndex
  <2> QED
    BY <1>1, <1>3, <1>4, <1>5, <2>1, <2>2, <2>3, RequestTypes, NamesAssumption DEF TypeInv, TypeOK
<1>7. CASE n = 1
  <2>1. old \in {0, 1} /\ after.then = "remove"
    BY SMTT(20), <1>1, <1>4, <1>7 DEF Plain, datastore_key_count, NoIndex
  <2>2. op' = after /\ temp' = encrypt_metadata_key(added) /\ pc' = "flush"
    BY SMTT(20), <1>7 DEF update_encryption_key, after, added
  <2>3. added.unlocked = 1 - old /\ added.unlocked # NoIndex
    BY SMTT(20), <1>3, <2>1 DEF NoIndex
  <2>4. /\ temp' \in VmgsState /\ Plain(temp)' /\ Armed(temp, NoIndex)'
        /\ temp'.slots[added.unlocked] # EmptySlot
        /\ \A j \in {0, 1} : j # added.unlocked => temp'.slots[j] = added.slots[j]
    BY <1>3, <2>2, <2>3, EncryptKeys
  <2>5. temp'.slots[0] # EmptySlot /\ temp'.slots[1] # EmptySlot
    BY SMTT(20), <1>3, <1>4, <2>1, <2>3, <2>4 DEF NoIndex
  <2>6. OpInv'
    BY <1>1, <2>1, <2>2, <2>5, NamesAssumption DEF OpInv
  <2> QED
    BY <1>1, <1>4, <1>5, <2>2, <2>4, <2>6, FlushTypes DEF TypeInv, TypeOK
<1>8. CASE n # 0 /\ n # 1
  <2>1. /\ op' = [o EXCEPT !.then = "add"]
        /\ temp' = WithoutKey(state, 1 - old) /\ pc' = "flush"
    BY <1>8 DEF update_encryption_key
  <2>2. state.slots[0] # EmptySlot /\ state.slots[1] # EmptySlot /\ old \in {0, 1} /\ state.encrypted
    BY SMTT(20), <1>4, <1>8 DEF Plain, datastore_key_count, NoIndex
  <2>3. temp' \in VmgsState /\ Plain(temp') /\ Armed(temp', NoIndex) /\ temp'.unlocked = old
    <3>1. 1 - old \in {0, 1} /\ old = 1 - (1 - old)
      BY SMTT(20), <2>2
    <3> QED
      BY <1>4, <2>1, <2>2, <3>1, WithoutKeyKeys
  <2>4. op' \in Op /\ op'.file = NoFile /\ op'.key = k /\ op'.index = old /\ op'.then = "add"
    BY <1>2, <2>1
  <2>5. OpInv'
    BY <2>1, <2>2, <2>3, <2>4, NamesAssumption DEF OpInv
  <2> QED
    BY <1>4, <1>5, <2>1, <2>3, <2>4, <2>5, FlushTypes DEF TypeInv, TypeOK
<1> QED
  BY <1>6, <1>7, <1>8

LEMMA ActiveHeader ==
    ASSUME NEW d, get_active_header(d) # NoIndex
    PROVE  get_active_header(d) \in {0, 1} /\ d[get_active_header(d)].kind = "header"
BY DEF get_active_header

LEMMA FromDiskKeys ==
    ASSUME NEW d \in [Locations -> Content], PlainHeaders(d), get_active_header(d) # NoIndex,
           TableIsValid(d, get_active_header(d))
    PROVE  LET s == FromDisk(d, get_active_header(d)) IN
           s \in VmgsState /\ Plain(s) /\ Armed(s, NoIndex) /\ s.unlocked = NoIndex
<1> DEFINE i == get_active_header(d)
           s == FromDisk(d, i)
<1>1. i \in {0, 1} /\ d[i].kind = "header"
  BY ActiveHeader
<1> HIDE DEF i
<1>2. s \in VmgsState
  BY <1>1, FromDiskType DEF i
<1>3. /\ s.encrypted = d[i].encrypted /\ s.slots = d[i].slots /\ s.unlocked = NoIndex
      /\ s.keys[0] = NoKey /\ s.keys[1] = NoKey
  BY DEF FromDisk, NewState
<1>4. Plain(d[i])
  BY <1>1 DEF PlainHeaders
<1> HIDE DEF s
<1> QED
  BY <1>2, <1>3, <1>4 DEF Plain, Armed, s, i

LEMMA OpenTypes ==
    ASSUME TypeInv, open
    PROVE  TypeInv'
<1> DEFINE s == FromDisk(disk, get_active_header(disk))
           r == [s EXCEPT !.reprovisioned = FALSE]
<1>1. s \in VmgsState /\ Plain(s) /\ Armed(s, NoIndex) /\ s.unlocked = NoIndex
  BY FromDiskKeys DEF open, TypeInv, TypeOK, KeyInv
<1>2. /\ state' = s /\ requested' = FALSE
      /\ IF s.reprovisioned
         THEN temp' = r /\ op' = [NoOp EXCEPT !.kind = "open"] /\ pc' = "flush"
         ELSE temp' = s /\ op' = NoOp /\ pc' = "idle"
      /\ UNCHANGED <<disk, stable, wrote, target, hardened, intact, exposed, known>>
  BY DEF open
<1> HIDE DEF s
<1>3. r \in VmgsState /\ Plain(r) /\ Armed(r, NoIndex)
  BY <1>1 DEF VmgsState, Plain, Armed
<1> HIDE DEF r
<1>4. CASE s.reprovisioned
  <2>1. op' = [NoOp EXCEPT !.kind = "open"] /\ pc' = "flush"
    BY <1>2, <1>4
  <2> QED
    BY <2>1, NoOpType, NamesAssumption, <1>1, <1>2, <1>3, <1>4, FlushTypes, ZenonT(40)
    DEF NoOp, Op, OpInv, TypeInv, TypeOK
<1>5. CASE ~s.reprovisioned
  <2>1. op' = NoOp /\ pc' = "idle"
    BY <1>2, <1>5
  <2> QED
    BY <2>1, NoOpType, NamesAssumption, <1>1, <1>2, <1>3, <1>5, FlushTypes, ZenonT(40)
    DEF NoOp, Op, OpInv, TypeInv, TypeOK
<1> QED
  BY <1>4, <1>5

LEMMA RequestFormatTypes ==
    ASSUME TypeInv, request_format
    PROVE  TypeInv'
<1> DEFINE i == get_active_header(disk)
           s == FromDisk(disk, i)
<1>1. CASE StartFormat("mark")
  BY <1>1, FormatTypes
<1>2. CASE /\ i # NoIndex /\ TableIsValid(disk, i)
           /\ state' = s /\ temp' = state' /\ op' = NoOp /\ pc' = "idle" /\ requested' = TRUE
           /\ UNCHANGED <<disk, stable, wrote, target, hardened, intact, exposed, known>>
  <2>1. s \in VmgsState /\ Plain(s) /\ Armed(s, NoIndex) /\ s.unlocked = NoIndex
    BY <1>2, FromDiskKeys DEF TypeInv, TypeOK, KeyInv
  <2>2. OpInv'
    BY <1>2, NamesAssumption DEF OpInv, NoOp
  <2> HIDE DEF s
  <2> QED
    BY <1>2, <2>1, <2>2, NoOpType, FlushTypes DEF TypeInv, TypeOK
<1> QED
  BY <1>1, <1>2 DEF request_format

\* Continue keeps the types; s is temp with another turn.
LEMMA ContinueTypes ==
    ASSUME TypeInv, NEW s \in VmgsState, Continue(s), s.keys = temp.keys, s.slots = temp.slots,
           s.unlocked = temp.unlocked, s.encrypted = temp.encrypted
    PROVE  /\ temp' \in VmgsState /\ Plain(temp') /\ Armed(temp', NoIndex)
           /\ op' \in Op /\ pc' \in {"idle", "flush"} /\ OpInv'
<1>1. Plain(s) /\ Armed(s, NoIndex) /\ op \in Op
  BY DEF TypeInv, TypeOK, KeyInv, Plain, Armed
<1>2. CASE op.then = "add"
  <2> DEFINE w == WithKey(s, op.key)
  <2>1. temp' = encrypt_metadata_key(w) /\ op' = [op EXCEPT !.then = "remove"] /\ pc' = "flush"
    BY <1>2 DEF Continue
  <2>2. op.key \in Keys /\ op.index \in {0, 1} /\ s.unlocked = op.index
    BY <1>2 DEF TypeInv, OpInv
  <2>3. /\ w \in VmgsState /\ w.unlocked \in {0, 1} /\ Armed(w, w.unlocked)
        /\ w.unlocked = 1 - op.index
        /\ \A j \in {0, 1} : j # w.unlocked => w.slots[j] = s.slots[j]
    BY SMTT(20), <1>1, <2>2, WithKeyKeys DEF NoIndex
  <2> HIDE DEF w
  <2>4. /\ temp' \in VmgsState /\ Plain(temp') /\ Armed(temp', NoIndex)
        /\ temp'.slots[w.unlocked] # EmptySlot
        /\ \A j \in {0, 1} : j # w.unlocked => temp'.slots[j] = w.slots[j]
    BY SMTT(20), <2>1, <2>3, EncryptKeys DEF NoIndex
  <2>5. s.slots[op.index] # EmptySlot
    BY SMTT(20), <1>1, <2>2 DEF Armed, NoIndex
  <2>6. temp'.slots[0] # EmptySlot /\ temp'.slots[1] # EmptySlot
    BY SMTT(20), <2>2, <2>3, <2>4, <2>5
  <2>7. /\ op' \in Op /\ op'.then = "remove" /\ op'.index = op.index /\ op'.key = op.key
        /\ op'.kind = op.kind /\ op'.file = op.file /\ op'.value = op.value
    BY <1>1, <2>1 DEF Op
  <2> QED
    BY <2>1, <2>2, <2>4, <2>6, <2>7 DEF TypeInv, OpInv
<1>3. CASE op.then = "remove"
  <2>1. temp' = WithoutKey(s, op.index) /\ op' = [op EXCEPT !.then = "done"] /\ pc' = "flush"
    BY <1>3 DEF Continue
  <2>2. op.index \in {0, 1} /\ s.slots[0] # EmptySlot /\ s.slots[1] # EmptySlot /\ s.encrypted
    BY <1>1, <1>3 DEF TypeInv, OpInv, Plain
  <2>3. temp' \in VmgsState /\ Plain(temp') /\ Armed(temp', NoIndex)
    BY <1>1, <2>1, <2>2, WithoutKeyKeys
  <2>4. /\ op' \in Op /\ op'.then = "done" /\ op'.key = op.key
        /\ op'.kind = op.kind /\ op'.file = op.file /\ op'.value = op.value
    BY <1>1, <2>1 DEF Op
  <2> QED
    BY <2>1, <2>3, <2>4 DEF TypeInv, OpInv
<1>4. CASE op.then = "mark"
  <2>1. /\ temp' = [s EXCEPT !.reprovisioned = TRUE]
        /\ op' = [op EXCEPT !.then = "done"] /\ pc' = "flush"
    BY <1>4 DEF Continue
  <2>2. temp' \in VmgsState /\ Plain(temp') /\ Armed(temp', NoIndex)
    BY <1>1, <2>1 DEF VmgsState, Plain, Armed
  <2>3. /\ op' \in Op /\ op'.then = "done" /\ op'.key = op.key
        /\ op'.kind = op.kind /\ op'.file = op.file /\ op'.value = op.value
    BY <1>1, <2>1 DEF Op
  <2> QED
    BY <2>1, <2>2, <2>3 DEF TypeInv, OpInv
<1>5. CASE op.then = "done"
  <2>1. temp' = s /\ op' = NoOp /\ pc' = "idle"
    BY <1>5 DEF Continue
  <2>2. OpInv'
    BY <2>1, NamesAssumption DEF OpInv, NoOp
  <2> QED
    BY <1>1, <2>1, <2>2, NoOpType
<1> QED
  BY <1>1, <1>2, <1>3, <1>4, <1>5 DEF Op

\* A disk request puts c at location l.
LEMMA DiskWriteTypes ==
    ASSUME TypeInv, NEW l, NEW c \in Content, c.kind = "header" => Plain(c),
           disk' = [disk EXCEPT ![l] = c]
    PROVE  disk' \in [Locations -> Content] /\ PlainHeaders(disk')
<1>1. disk' \in [Locations -> Content]
  BY DEF TypeInv, TypeOK
<1>2. ASSUME NEW i \in {0, 1}, disk'[i].kind = "header"
      PROVE  Plain(disk'[i])
  <2>1. disk'[i] = IF i = l THEN c ELSE disk[i]
    BY HeaderLocations DEF TypeInv, TypeOK
  <2> QED
    BY <1>2, <2>1 DEF TypeInv, KeyInv, PlainHeaders
<1> QED
  BY <1>1, <1>2 DEF PlainHeaders

LEMMA TurnedKeys ==
    ASSUME NEW s \in VmgsState, Plain(s), Armed(s, NoIndex)
    PROVE  LET t == Turned(s) IN
           /\ t \in VmgsState /\ Plain(t) /\ Armed(t, NoIndex)
           /\ t.keys = s.keys /\ t.slots = s.slots /\ t.unlocked = s.unlocked
           /\ t.encrypted = s.encrypted
           /\ make_header(t) \in Content /\ Plain(make_header(t))
<1> DEFINE t == Turned(s)
<1>1. t \in VmgsState
  BY TurnedType
<1>2. /\ t.keys = s.keys /\ t.slots = s.slots /\ t.unlocked = s.unlocked
      /\ t.encrypted = s.encrypted
  BY DEF Turned, VmgsState
<1> HIDE DEF t
<1>3. Plain(t) /\ Armed(t, NoIndex)
  BY <1>2 DEF Plain, Armed
<1>4. make_header(t) \in Content
  BY <1>1, HeaderType
<1>5. Plain(make_header(t))
  BY <1>3 DEF make_header, Plain
<1> QED
  BY <1>1, <1>2, <1>3, <1>4, <1>5 DEF t

LEMMA BlockWriteTypes ==
    ASSUME TypeInv, NEW b, NEW c \in Content, c.kind # "header", WriteBlock(b, c), op' \in Op,
           pc' \in {"data", "extended", "flush", "format header"}, OpInv',
           UNCHANGED <<stable, state, temp, wrote, target, hardened, intact, requested, known>>
    PROVE  TypeInv'
<1>1. disk' \in [Locations -> Content] /\ PlainHeaders(disk') /\ exposed' \in BOOLEAN
  BY DiskWriteTypes DEF WriteBlock
<1>2. TypeOK'
  BY <1>1 DEF TypeInv, TypeOK
<1>3. KeyInv'
  BY <1>1 DEF TypeInv, KeyInv
<1> QED
  BY <1>2, <1>3 DEF TypeInv

LEMMA WriteFileTableTypes ==
    ASSUME TypeInv, WriteFileTable
    PROVE  TypeInv'
<1>1. Table(temp.fcbs) \in Content /\ Table(temp.fcbs).kind # "header"
  BY DEF Table, Content, TypeInv, TypeOK, VmgsState
<1>2. pc' = IF op.file = NoFile THEN AfterData ELSE "data"
  BY DEF WriteFileTable
<1>3. /\ WriteBlock(temp.fcbs[FILE_TABLE].at, Table(temp.fcbs)) /\ op' \in Op /\ pc = "table"
      /\ UNCHANGED <<stable, op, state, temp, wrote, target, hardened, intact, requested, known>>
  BY DEF WriteFileTable, TypeInv, TypeOK
<1>4. pc' \in {"data", "extended", "flush", "format header"}
  BY <1>2 DEF AfterData, AfterFiles
<1>5. OpInv'
  BY <1>2, <1>3, <1>4 DEF OpInv, TypeInv, TypeOK, Op, AfterData, AfterFiles
<1> QED
  BY <1>1, <1>3, <1>4, <1>5, BlockWriteTypes

LEMMA WriteDataTypes ==
    ASSUME TypeInv, WriteData
    PROVE  TypeInv'
<1>1. op \in Op /\ op.file \in Files /\ op.value \in Values /\ pc = "data"
  BY DEF WriteData, TypeInv, TypeOK, OpInv
<1>2. Data(op.value, op.part) \in Content /\ Data(op.value, op.part).kind # "header"
  BY <1>1 DEF Data, Content, Op
<1>3. /\ WriteBlock(temp.fcbs[op.file].at + op.part, Data(op.value, op.part))
      /\ op' = [op EXCEPT !.part = @ + 1]
      /\ pc' = IF op.part + 1 < Size[op.value] THEN "data" ELSE AfterData
      /\ UNCHANGED <<stable, state, temp, wrote, target, hardened, intact, requested, known>>
  BY DEF WriteData
<1>4. pc' \in {"data", "extended", "flush", "format header"}
  BY <1>3 DEF AfterData, AfterFiles
<1>5. /\ op' \in Op /\ op'.file = op.file /\ op'.value = op.value /\ op'.key = op.key
      /\ op'.kind = op.kind /\ op'.then = op.then /\ op'.index = op.index
  BY SMTT(20), <1>1, <1>3 DEF Op
<1>6. OpInv'
  BY <1>1, <1>3, <1>4, <1>5 DEF OpInv, TypeInv
<1> QED
  BY <1>2, <1>3, <1>4, <1>5, <1>6, BlockWriteTypes

LEMMA WriteExtendedTypes ==
    ASSUME TypeInv, WriteExtendedTable
    PROVE  TypeInv'
<1>1. Extended(temp.meta) \in Content /\ Extended(temp.meta).kind # "header"
  BY DEF Extended, Content, TypeInv, TypeOK, VmgsState
<1>2. /\ WriteBlock(temp.fcbs[EXTENDED_FILE_TABLE].at, Extended(temp.meta)) /\ op' \in Op
      /\ pc = "extended" /\ pc' \in {"flush", "format header"}
      /\ UNCHANGED <<stable, op, state, temp, wrote, target, hardened, intact, requested, known>>
  BY DEF WriteExtendedTable, AfterFiles, TypeInv, TypeOK
<1>3. OpInv'
  BY <1>2 DEF OpInv, TypeInv
<1> QED
  BY <1>1, <1>2, <1>3, BlockWriteTypes

LEMMA FlushStepTypes ==
    ASSUME TypeInv, Flush
    PROVE  TypeInv'
BY DEF TypeInv, TypeOK, KeyInv, OpInv, Flush

LEMMA WriteHeaderTypes ==
    ASSUME TypeInv, WriteHeader
    PROVE  TypeInv'
<1> DEFINE s == Turned(temp)
<1>1. /\ s \in VmgsState /\ Plain(s) /\ Armed(s, NoIndex)
      /\ s.keys = temp.keys /\ s.slots = temp.slots /\ s.unlocked = temp.unlocked
      /\ s.encrypted = temp.encrypted /\ make_header(s) \in Content /\ Plain(make_header(s))
  BY TurnedKeys DEF TypeInv, TypeOK, KeyInv
<1>2. /\ disk' = [disk EXCEPT ![s.active] = make_header(s)] /\ state' = s /\ Continue(s)
      /\ wrote' = target /\ target' = target
      /\ requested' = (requested \/ op.kind = "format")
      /\ known' = IF op.kind = "key" /\ op.then = "done" THEN {op.key} ELSE known
      /\ UNCHANGED <<stable, hardened, intact, exposed>>
  BY DEF WriteHeader
<1> HIDE DEF s
<1>3. disk' \in [Locations -> Content] /\ PlainHeaders(disk')
  BY <1>1, <1>2, DiskWriteTypes
<1>4. /\ temp' \in VmgsState /\ Plain(temp') /\ Armed(temp', NoIndex)
      /\ op' \in Op /\ pc' \in {"idle", "flush"} /\ OpInv'
  BY <1>1, <1>2, ContinueTypes
<1>5. known' \subseteq Keys /\ requested' \in BOOLEAN
  BY <1>2 DEF TypeInv, TypeOK, OpInv
<1>6. TypeOK'
  BY <1>1, <1>2, <1>3, <1>4, <1>5 DEF TypeInv, TypeOK
<1>7. KeyInv'
  BY <1>1, <1>2, <1>3, <1>4 DEF TypeInv, KeyInv
<1> QED
  BY <1>4, <1>6, <1>7 DEF TypeInv

LEMMA ZeroHeaderTypes ==
    ASSUME TypeInv, ZeroHeader
    PROVE  TypeInv'
<1>1. Zeroed \in Content /\ Zeroed.kind # "header"
  BY DEF Zeroed, Content
<1>2. disk' \in [Locations -> Content] /\ PlainHeaders(disk')
  BY <1>1, DiskWriteTypes DEF ZeroHeader
<1>3. TypeOK'
  BY <1>2 DEF TypeInv, TypeOK, ZeroHeader
<1>4. KeyInv'
  BY <1>2 DEF TypeInv, KeyInv, ZeroHeader
<1> QED
  BY <1>3, <1>4 DEF TypeInv, OpInv, ZeroHeader

LEMMA FormatHeaderTypes ==
    ASSUME TypeInv, WriteFormatHeader
    PROVE  TypeInv'
<1> DEFINE s == Turned(temp)
<1>1. /\ s \in VmgsState /\ Plain(s) /\ Armed(s, NoIndex)
      /\ s.slots = temp.slots /\ s.unlocked = temp.unlocked
      /\ make_header(s) \in Content /\ Plain(make_header(s))
  BY TurnedKeys DEF TypeInv, TypeOK, KeyInv
<1>2. /\ disk' = [disk EXCEPT ![s.active] = make_header(s)] /\ temp' = s
      /\ pc = "format header" /\ pc' = "format flush"
      /\ UNCHANGED <<stable, op, state, wrote, target, hardened, intact, exposed, requested, known>>
  BY DEF WriteFormatHeader
<1> HIDE DEF s
<1>3. disk' \in [Locations -> Content] /\ PlainHeaders(disk')
  BY <1>1, <1>2, DiskWriteTypes
<1>4. TypeOK'
  BY <1>1, <1>2, <1>3 DEF TypeInv, TypeOK
<1>5. KeyInv'
  BY <1>1, <1>2, <1>3 DEF TypeInv, KeyInv
<1>6. OpInv'
  BY <1>1, <1>2 DEF TypeInv, OpInv
<1> QED
  BY <1>4, <1>5, <1>6 DEF TypeInv

LEMMA FlushFormatTypes ==
    ASSUME TypeInv, FlushFormat
    PROVE  TypeInv'
<1>1. /\ temp' \in VmgsState /\ Plain(temp') /\ Armed(temp', NoIndex)
      /\ op' \in Op /\ pc' \in {"idle", "flush"} /\ OpInv'
  BY ContinueTypes DEF FlushFormat, TypeInv, TypeOK
<1>2. /\ stable' = disk /\ state' = temp /\ intact' = TRUE /\ exposed' = FALSE /\ known' = {}
      /\ wrote' = [f \in Files |-> Absent] /\ target' = wrote' /\ hardened' = wrote'
      /\ UNCHANGED <<disk, requested>>
  BY DEF FlushFormat
<1>3. TypeOK'
  BY <1>1, <1>2 DEF TypeInv, TypeOK, World
<1>4. KeyInv'
  BY <1>1, <1>2 DEF TypeInv, KeyInv
<1> QED
  BY <1>1, <1>3, <1>4 DEF TypeInv

LEMMA InterruptedTypes ==
    ASSUME TypeInv, Interrupted
    PROVE  disk' \in [Locations -> Content] /\ PlainHeaders(disk')
<1>1. Torn \in Content /\ Torn.kind # "header"
  BY DEF Torn, Content
<1>2. CASE disk' = disk
  BY <1>2 DEF TypeInv, TypeOK, KeyInv
<1>3. CASE \E l \in WritingHeader : disk' = [disk EXCEPT ![l] = Torn]
  BY <1>1, <1>3, DiskWriteTypes
<1> QED
  BY <1>2, <1>3 DEF Interrupted

LEMMA FaultTypes ==
    ASSUME TypeInv, Fault
    PROVE  TypeInv'
<1>1. ASSUME op' = NoOp, pc' \in {"closed", "idle"}
      PROVE  op' \in Op /\ OpInv'
  BY <1>1, NoOpType, NamesAssumption DEF OpInv, NoOp
<1>2. CASE DiskError \/ Crash
  <2>1. disk' \in [Locations -> Content] /\ PlainHeaders(disk')
    BY <1>2, InterruptedTypes DEF DiskError, Crash
  <2>2. /\ state' \in VmgsState /\ Plain(state') /\ Armed(state', NoIndex)
        /\ temp' \in VmgsState /\ Plain(temp') /\ Armed(temp', NoIndex)
        /\ pc' \in {"closed", "idle"} /\ op' = NoOp /\ target' = wrote
        /\ UNCHANGED <<stable, wrote, hardened, intact, exposed, requested, known>>
    BY <1>2, NewStateKeys DEF DiskError, Crash, Close, TypeInv, TypeOK, KeyInv
  <2>3. TypeOK'
    BY <1>1, <2>1, <2>2 DEF TypeInv, TypeOK
  <2>4. KeyInv'
    BY <2>1, <2>2 DEF TypeInv, KeyInv
  <2> QED
    BY <1>1, <2>2, <2>3, <2>4 DEF TypeInv
<1>3. CASE PowerLoss
  <2>1. PICK lost \in SUBSET Dirty, torn \in SUBSET (Dirty \cap {0, 1}) :
            /\ disk' = AfterPowerLoss(lost, torn) /\ stable' = disk'
            /\ wrote' = IF get_active_header(disk) \in lost \cup torn THEN hardened ELSE wrote
            /\ target' = wrote' /\ hardened' = wrote' /\ intact' = (intact /\ ~exposed)
            /\ exposed' = FALSE /\ Close /\ op' = NoOp /\ UNCHANGED <<requested, known>>
    BY <1>3 DEF PowerLoss
  <2>2. Torn \in Content /\ Torn.kind # "header"
    BY DEF Torn, Content
  <2>3. disk' \in [Locations -> Content]
    BY <2>1, <2>2 DEF AfterPowerLoss, TypeInv, TypeOK
  <2>4. ASSUME NEW i \in {0, 1}, disk'[i].kind = "header"
        PROVE  Plain(disk'[i])
    <3>1. disk'[i] \in {Torn, stable[i], disk[i]}
      BY <2>1, HeaderLocations DEF AfterPowerLoss
    <3> QED
      BY <2>2, <2>4, <3>1 DEF TypeInv, KeyInv, PlainHeaders
  <2>5. PlainHeaders(disk') /\ PlainHeaders(stable')
    BY <2>1, <2>4 DEF PlainHeaders
  <2>6. /\ state' = NewState /\ temp' = NewState /\ pc' = "closed"
    BY <2>1 DEF Close
  <2>7. TypeOK'
    BY <1>1, <2>1, <2>3, <2>6, NewStateKeys DEF TypeInv, TypeOK
  <2>8. KeyInv'
    BY <2>5, <2>6, NewStateKeys DEF KeyInv
  <2> QED
    BY <1>1, <2>1, <2>6, <2>7, <2>8 DEF TypeInv
<1> QED
  BY <1>2, <1>3 DEF Fault

LEMMA InitTypes == Init => TypeInv
<1> SUFFICES ASSUME Init PROVE TypeInv
  OBVIOUS
<1>1. Zeroed \in Content /\ Zeroed.kind # "header"
  BY DEF Zeroed, Content
<1>2. TypeOK
  BY <1>1, NewStateKeys, NoOpType DEF Init, TypeOK, World
<1>3. KeyInv
  BY <1>1, NewStateKeys, HeaderLocations DEF Init, KeyInv, PlainHeaders
<1>4. OpInv
  BY NamesAssumption DEF Init, OpInv, NoOp
<1> QED
  BY <1>2, <1>3, <1>4 DEF TypeInv

LEMMA NextTypes == TypeInv /\ [Next]_vars => TypeInv'
<1> SUFFICES ASSUME TypeInv, [Next]_vars PROVE TypeInv'
  OBVIOUS
<1>1. CASE Request
  <2>1. ASSUME NEW f \in Files, NEW v \in Values, write_file(f, v) PROVE TypeInv'
    BY <2>1, WriteFileTypes
  <2>2. ASSUME NEW f \in Files, NEW d \in Files, NEW a \in BOOLEAN, move_file(f, d, a) PROVE TypeInv'
    BY <2>2, MoveFileTypes
  <2>3. ASSUME NEW f \in Files, delete_file(f) PROVE TypeInv'
    BY <2>3, DeleteFileTypes
  <2>4. ASSUME NEW k \in Keys, update_encryption_key(k) PROVE TypeInv'
    BY <2>4, UpdateKeyTypes
  <2>5. ASSUME format_new PROVE TypeInv'
    BY <2>5, FormatTypes DEF format_new
  <2>6. ASSUME request_format PROVE TypeInv'
    BY <2>6, RequestFormatTypes
  <2> QED
    BY <1>1, <2>1, <2>2, <2>3, <2>4, <2>5, <2>6 DEF Request
<1>2. CASE Access
  BY <1>2, OpenTypes, UnlockTypes DEF Access
<1>3. CASE DiskRequest
  BY <1>3, WriteFileTableTypes, WriteDataTypes, WriteExtendedTypes, FlushStepTypes,
     WriteHeaderTypes, ZeroHeaderTypes, FormatHeaderTypes, FlushFormatTypes DEF DiskRequest
<1>4. CASE Fault
  BY <1>4, FaultTypes
<1>5. CASE UNCHANGED vars
  <2>1. TypeOK'
    BY <1>5 DEF vars, TypeInv, TypeOK
  <2>2. KeyInv'
    BY <1>5 DEF vars, TypeInv, KeyInv, PlainHeaders, Plain, Armed
  <2>3. OpInv'
    BY <1>5 DEF vars, TypeInv, OpInv
  <2> QED
    BY <2>1, <2>2, <2>3 DEF TypeInv
<1> QED
  BY <1>1, <1>2, <1>3, <1>4, <1>5 DEF Next

LEMMA TypesHold == Spec => []TypeInv
BY InitTypes, NextTypes, PTL DEF Spec

\* Every variable keeps its type, on a disk that lost any of its writes too: what open
\* and request_format read back is a state, and the slots of the two keys and the
\* steps of update_encryption_key fit together.
THEOREM TypeCorrect == Spec => []TypeOK
<1>1. TypeInv => TypeOK
  BY DEF TypeInv
<1> QED
  BY <1>1, TypesHold, PTL

-----------------------------------------------------------------------------
(* What a disk with a current header looks like *)

\* Every entry lies in the blocks of the disk and has them to itself.
Clean(fcbs) ==
    /\ fcbs \in [Ids -> Fcb]
    /\ \A id \in Ids : Extent(fcbs[id]) \subseteq Blocks
    /\ ~Overlap(fcbs)
    /\ fcbs[FILE_TABLE].len = 1

\* Header i is current and names the table of fcbs.
HeaderAt(d, i, fcbs) ==
    /\ d[i].kind = "header"
    /\ d[i].table = fcbs[FILE_TABLE].at
    /\ d[1 - i].kind = "header" => d[i].sequence = Successor(d[1 - i].sequence)

\* The table of fcbs and the files of w are in their blocks.
FilesAt(d, fcbs, w) ==
    /\ Clean(fcbs)
    /\ d[fcbs[FILE_TABLE].at] = Table(fcbs)
    /\ \A f \in Files : /\ w[f] = Absent <=> fcbs[f].len = 0
                        /\ w[f] \in Values => Stored(d, fcbs[f], w[f])

Good(d, i, fcbs, w) == HeaderAt(d, i, fcbs) /\ FilesAt(d, fcbs, w)

\* Block b is needed for the files of w.
Protects(fcbs, w, b) ==
    \/ b \in Extent(fcbs[FILE_TABLE])
    \/ \E f \in Files : w[f] \in Values /\ b \in Extent(fcbs[f])

-----------------------------------------------------------------------------
(* The inductive invariant *)

Active == get_active_header(disk)
Current == disk[disk[Active].table].fcbs

\* The disk has the files of wrote.  What was flushed has them too if the current
\* header was flushed, and otherwise the files of hardened under the other header,
\* as long as only the current header differs.
DiskInv ==
    intact =>
        /\ Active \in {0, 1}
        /\ Good(disk, Active, Current, wrote)
        /\ disk[Active] = stable[Active] => Good(stable, Active, Current, wrote)
        /\ disk[Active] # stable[Active] /\ ~exposed =>
             /\ \A l \in Locations : l # Active => disk[l] = stable[l]
             /\ Good(stable, 1 - Active, stable[stable[1 - Active].table].fcbs, hardened)

MemoryInv ==
    intact /\ pc # "closed" =>
        state.active = Active /\ state.fcbs = Current /\ disk[Active] = make_header(state)

\* The entries whose blocks the operation has yet to write.
Pending ==
    {id \in Ids : \/ id = FILE_TABLE /\ pc = "table"
                  \/ id = op.file /\ pc \in {"table", "data"}
                  \/ id = EXTENDED_FILE_TABLE /\ op.ext /\ pc \in {"table", "data", "extended"}}

\* How far the operation is: its entries are clean, blocks still to be written hold
\* nothing that the current header needs, and what was written is in place.
StepInv ==
    intact /\ pc \notin {"closed", "idle"} =>
        /\ pc \in {"table", "data", "extended", "flush", "header"}
        /\ op.kind = "format" => pc \in {"flush", "header"}
        /\ Clean(temp.fcbs) /\ temp.active = state.active /\ temp.sequence = state.sequence
        /\ \A f \in Files :
             /\ target[f] = Absent <=> temp.fcbs[f].len = 0
             /\ f # op.file /\ target[f] \in Values => Stored(disk, temp.fcbs[f], target[f])
        /\ op.file \in Files => /\ target[op.file] = op.value /\ op.then = "done"
                                /\ temp.fcbs[op.file].len = Size[op.value]
        /\ \A id \in Pending : \A b \in Extent(temp.fcbs[id]) : ~Protects(state.fcbs, wrote, b)
        /\ pc = "table" => op.part = 0
        /\ pc # "table" => disk[temp.fcbs[FILE_TABLE].at] = Table(temp.fcbs)
        /\ pc = "data" => /\ op.part < Size[op.value]
                          /\ \A j \in 0 .. op.part - 1 :
                               disk[temp.fcbs[op.file].at + j] = Data(op.value, j)
        /\ pc \in {"extended", "flush", "header"} /\ op.file \in Files =>
             Stored(disk, temp.fcbs[op.file], op.value)
        /\ pc = "header" => stable = disk /\ hardened = wrote

\* A format builds a store without files behind a cleared second header.
FormatInv ==
    /\ pc \in {"zero", "format header", "format flush"} => op.kind = "format" /\ ~intact
    /\ op.kind = "format" /\ ~intact =>
         /\ pc \in {"zero", "table", "extended", "format header", "format flush"}
         /\ op.file = NoFile /\ state.active = 1
         /\ Clean(temp.fcbs) /\ \A f \in Files : temp.fcbs[f].len = 0
         /\ pc # "format flush" => temp.active = 1
         /\ pc # "zero" => disk[1] = Zeroed
         /\ pc \notin {"zero", "table"} => disk[temp.fcbs[FILE_TABLE].at] = Table(temp.fcbs)
         /\ pc = "format flush" => temp.active = 0 /\ disk[0] = make_header(temp)

FileInv ==
    /\ DiskInv /\ MemoryInv /\ StepInv /\ FormatInv
    /\ pc \in {"closed", "idle"} => target = wrote
    /\ pc = "extended" => op.ext
    /\ intact \/ op.kind = "format" =>
         (pc \in {"zero", "table", "data", "extended"} /\ op.ext =>
              temp.fcbs[EXTENDED_FILE_TABLE].len = 1)

-----------------------------------------------------------------------------
(* Disks *)

LEMMA BlocksAreLocations ==
    /\ Blocks \subseteq Locations /\ 0 \notin Blocks /\ 1 \notin Blocks
    /\ \A l \in Locations : l \in Blocks \/ l \in {0, 1}
BY SMTT(20), CapacityAssumption DEF Blocks, Locations, VMGS_MIN_FILE_BLOCK_OFFSET

LEMMA TableEntry == FILE_TABLE \in Ids /\ EXTENDED_FILE_TABLE \in Ids /\ Files \subseteq Ids
BY DEF Ids

LEMMA TableBlock ==
    ASSUME NEW fcbs, Clean(fcbs)
    PROVE  /\ fcbs[FILE_TABLE].at \in Blocks
           /\ fcbs[FILE_TABLE].at \in Extent(fcbs[FILE_TABLE])
           /\ \A w : Protects(fcbs, w, fcbs[FILE_TABLE].at)
<1>1. fcbs[FILE_TABLE] \in Fcb /\ Extent(fcbs[FILE_TABLE]) \subseteq Blocks
  BY TableEntry DEF Clean
<1>2. fcbs[FILE_TABLE].at \in Extent(fcbs[FILE_TABLE])
  BY SMTT(20), <1>1 DEF Clean, Extent, Fcb
<1> QED
  BY <1>1, <1>2 DEF Protects

\* Only one header is followed by no other.
LEMMA CurrentHeader ==
    ASSUME NEW d \in [Locations -> Content], NEW i \in {0, 1}, NEW fcbs, HeaderAt(d, i, fcbs)
    PROVE  get_active_header(d) = i
<1>1. ASSUME d[0].kind = "header", d[1].kind = "header"
      PROVE  d[0].sequence \in 0 .. SeqWrap - 1 /\ d[1].sequence \in 0 .. SeqWrap - 1
  <2>1. d[0] \in Header /\ d[1] \in Header
    BY SMTT(20), <1>1, HeaderLocations DEF Content, Zeroed, Torn
  <2> QED
    BY <2>1 DEF Header
<1>2. ASSUME NEW a \in 0 .. SeqWrap - 1, NEW b \in 0 .. SeqWrap - 1
      PROVE  ~(a = Successor(b) /\ b = Successor(a))
  BY SMTT(20), SeqAssumption DEF Successor
<1>3. CASE i = 0
  BY SMTT(20), <1>3 DEF HeaderAt, get_active_header
<1>4. CASE i = 1
  BY SMTT(20), <1>1, <1>2, <1>4 DEF HeaderAt, get_active_header
<1> QED
  BY <1>3, <1>4

LEMMA GoodHolds ==
    ASSUME NEW d \in [Locations -> Content], NEW i \in {0, 1}, NEW fcbs, NEW w,
           Good(d, i, fcbs, w)
    PROVE  /\ get_active_header(d) = i /\ d[d[i].table].fcbs = fcbs
           /\ d[d[i].table] = Table(fcbs) /\ TableIsValid(d, i)
           /\ Holds(d, w)
<1>1. get_active_header(d) = i
  BY CurrentHeader DEF Good
<1>2. /\ d[i].table = fcbs[FILE_TABLE].at /\ d[i].table \in Blocks
      /\ d[d[i].table] = Table(fcbs)
  BY TableBlock DEF Good, HeaderAt, FilesAt
<1>3. d[d[i].table].fcbs = fcbs /\ d[d[i].table].kind = "table"
  BY SMTT(20), <1>2 DEF Table
<1>4. \A id \in Ids : Extent(fcbs[id]) \subseteq Blocks
  BY DEF Good, FilesAt, Clean
<1>5. TableIsValid(d, i)
  BY <1>2, <1>3, <1>4 DEF TableIsValid
<1>6. Holds(d, w)
  BY SMTT(20), <1>1, <1>3, <1>5 DEF Holds, Good, FilesAt, NoIndex
<1> QED
  BY <1>1, <1>2, <1>3, <1>5, <1>6

\* The files depend only on the blocks that they need.
LEMMA FilesFrame ==
    ASSUME NEW d, NEW e, NEW fcbs, NEW w, FilesAt(d, fcbs, w),
           \A b \in Blocks : Protects(fcbs, w, b) => e[b] = d[b]
    PROVE  FilesAt(e, fcbs, w)
<1>1. Clean(fcbs)
  BY DEF FilesAt
<1>2. e[fcbs[FILE_TABLE].at] = Table(fcbs)
  BY <1>1, TableBlock DEF FilesAt
<1>3. ASSUME NEW f \in Files, w[f] \in Values
      PROVE  Stored(e, fcbs[f], w[f])
  <2>1. Stored(d, fcbs[f], w[f])
    BY <1>3 DEF FilesAt
  <2>2. fcbs[f] \in Fcb /\ Extent(fcbs[f]) \subseteq Blocks
    BY <1>1, TableEntry DEF Clean
  <2>3. Size[w[f]] \in Nat
    BY <1>3, SizeAssumption
  <2>4. ASSUME NEW j \in 0 .. Size[w[f]] - 1
        PROVE  e[fcbs[f].at + j] = Data(w[f], j)
    <3>1. fcbs[f].at + j \in Extent(fcbs[f])
      BY SMTT(20), <2>1, <2>2, <2>3 DEF Stored, Extent, Fcb
    <3>2. Protects(fcbs, w, fcbs[f].at + j) /\ fcbs[f].at + j \in Blocks
      BY <1>3, <2>2, <3>1 DEF Protects
    <3> QED
      BY <2>1, <3>2 DEF Stored
  <2> QED
    BY <2>1, <2>4 DEF Stored
<1> QED
  BY <1>1, <1>2, <1>3 DEF FilesAt

LEMMA GoodFrame ==
    ASSUME NEW d, NEW e, NEW i \in {0, 1}, NEW fcbs, NEW w, Good(d, i, fcbs, w),
           \A b \in Blocks : Protects(fcbs, w, b) => e[b] = d[b],
           e[i] = d[i], e[1 - i] = d[1 - i] \/ e[1 - i].kind # "header"
    PROVE  Good(e, i, fcbs, w)
<1>1. FilesAt(e, fcbs, w)
  BY FilesFrame DEF Good
<1>2. HeaderAt(e, i, fcbs)
  BY DEF HeaderAt, Good
<1> QED
  BY <1>1, <1>2 DEF Good

-----------------------------------------------------------------------------
(* Allocation *)

\* The entries that write_files_internal allocates for o.
Fresh(o) == {id \in Ids : id = FILE_TABLE \/ id = o.file \/ (id = EXTENDED_FILE_TABLE /\ o.ext)}

LEMMA NamesDiffer ==
    /\ FILE_TABLE # EXTENDED_FILE_TABLE
    /\ \A f \in Files : f # FILE_TABLE /\ f # EXTENDED_FILE_TABLE /\ f # NoFile
    /\ NoFile \notin Ids
BY NamesAssumption DEF FILE_TABLE, EXTENDED_FILE_TABLE, NoFile, Ids

LEMMA FitExtent ==
    ASSUME NEW used, NEW n \in Nat, NEW at \in Blocks, BestFit(used, n, at)
    PROVE  /\ Extent([at |-> at, len |-> n]) \subseteq Blocks
           /\ Extent([at |-> at, len |-> n]) \cap used = {}
BY SMTT(20), CapacityAssumption DEF BestFit, Fits, Extent, Blocks, VMGS_MIN_FILE_BLOCK_OFFSET

LEMMA FilledLayout ==
    ASSUME NEW s \in VmgsState, NEW fcbs, NEW m
    PROVE  /\ Filled(s, fcbs, m).fcbs = fcbs
           /\ Filled(s, fcbs, m).active = s.active
           /\ Filled(s, fcbs, m).sequence = s.sequence
BY DEF Filled, encrypt_metadata_key, VmgsState

LEMMA Allocated ==
    ASSUME NEW o \in Op, NEW s \in VmgsState, o.file \in Files => o.value \in Values,
           \A id \in Ids : Extent(s.fcbs[id]) \subseteq Blocks,
           write_files_internal(o, s)
    PROVE  /\ temp'.active = s.active /\ temp'.sequence = s.sequence
           /\ Clean(temp'.fcbs)
           /\ \A id \in Ids : id \notin Fresh(o) => temp'.fcbs[id] = s.fcbs[id]
           /\ \A id \in Fresh(o) : Extent(temp'.fcbs[id]) \cap Used(s.fcbs) = {}
           /\ o.file \in Files => temp'.fcbs[o.file].len = Size[o.value]
           /\ o.ext => temp'.fcbs[EXTENDED_FILE_TABLE].len = 1
<1> DEFINE used == Used(s.fcbs)
<1>1. PICK t, f, x, m :
         /\ t \in Blocks /\ f \in Blocks /\ x \in Blocks
         /\ BestFit(used, 1, t)
         /\ o.file # NoFile => BestFit(used \cup {t}, Size[o.value], f)
         /\ o.ext => BestFit(used \cup {t} \cup Extent(FileEntry(o, f)), 1, x)
         /\ temp' = Filled(s, Entries(o, s.fcbs, t, f, x), m)
  BY DEF write_files_internal
<1> DEFINE F == Entries(o, s.fcbs, t, f, x)
           T == [at |-> t, len |-> 1]
           G == FileEntry(o, f)
           X == [at |-> x, len |-> 1]
<1>2. temp'.fcbs = F /\ temp'.active = s.active /\ temp'.sequence = s.sequence
  BY SMTT(20), <1>1, FilledLayout
<1>3. t \in Nat /\ f \in Nat /\ x \in Nat
  BY SMTT(20), <1>1, CapacityAssumption DEF Blocks, VMGS_MIN_FILE_BLOCK_OFFSET
<1>4. T \in Fcb /\ X \in Fcb /\ G \in Fcb /\ (o.file \in Files => G.len = Size[o.value])
  BY <1>3, SizeAssumption, NamesDiffer DEF FileEntry, Fcb, NoFcb, Op
<1>5. Extent(T) \subseteq Blocks /\ Extent(T) \cap used = {} /\ Extent(T) = {t}
  <2>1. Extent(T) = {t}
    BY SMTT(20), <1>3 DEF Extent
  <2> QED
    BY <1>1, <2>1, FitExtent
<1>6. ASSUME o.file # NoFile
      PROVE  Extent(G) \subseteq Blocks /\ Extent(G) \cap used = {} /\ t \notin Extent(G)
  <2>1. o.value \in Values /\ Size[o.value] \in Nat /\ G = [at |-> f, len |-> Size[o.value]]
    BY <1>6, SizeAssumption DEF Op, FileEntry
  <2>2. BestFit(used \cup {t}, Size[o.value], f) /\ f \in Blocks
    BY <1>1, <1>6
  <2>3. Extent(G) \subseteq Blocks /\ Extent(G) \cap (used \cup {t}) = {}
    BY <2>1, <2>2, FitExtent
  <2> QED
    BY <2>3
<1>7. ASSUME o.ext
      PROVE  /\ Extent(X) \subseteq Blocks /\ Extent(X) \cap used = {} /\ t \notin Extent(X)
             /\ Extent(X) \cap Extent(G) = {}
  <2>1. BestFit(used \cup {t} \cup Extent(G), 1, x) /\ 1 \in Nat /\ x \in Blocks
    BY <1>1, <1>7
  <2>2. Extent(X) \subseteq Blocks /\ Extent(X) \cap (used \cup {t} \cup Extent(G)) = {}
    BY <2>1, FitExtent
  <2> QED
    BY <2>2
<1> HIDE DEF T, G, X, used
<1>8. /\ F \in [Ids -> Fcb]
      /\ F[FILE_TABLE] = T
      /\ o.file \in Files => F[o.file] = G
      /\ o.ext => F[EXTENDED_FILE_TABLE] = X
      /\ \A id \in Ids : id \notin Fresh(o) => F[id] = s.fcbs[id]
  <2>1. F = [id \in Ids |-> CASE id = FILE_TABLE -> T
                              [] id = o.file -> G
                              [] id = EXTENDED_FILE_TABLE /\ o.ext -> X
                              [] OTHER -> s.fcbs[id]]
    BY DEF Entries, T, G, X
  <2>2. s.fcbs \in [Ids -> Fcb] /\ o.file \in Files \cup {NoFile}
    BY DEF VmgsState, Op
  <2> HIDE DEF F
  <2> QED
    BY <1>4, <2>1, <2>2, TableEntry, NamesDiffer DEF Fresh
<1> HIDE DEF F
<1>9. /\ ~Overlap(s.fcbs)
      /\ \A id \in Ids : Extent(s.fcbs[id]) \subseteq used
  BY DEF write_files_internal, used, Used
<1>10. ASSUME NEW id \in Ids, id \in Fresh(o)
       PROVE  /\ \/ id = FILE_TABLE /\ F[id] = T
                 \/ id = o.file /\ o.file # NoFile /\ F[id] = G
                 \/ id = EXTENDED_FILE_TABLE /\ o.ext /\ F[id] = X
              /\ Extent(F[id]) \subseteq Blocks /\ Extent(F[id]) \cap used = {}
  <2>1. \/ id = FILE_TABLE /\ F[id] = T
        \/ id = o.file /\ o.file # NoFile /\ F[id] = G
        \/ id = EXTENDED_FILE_TABLE /\ o.ext /\ F[id] = X
    BY <1>8, <1>10, NamesDiffer DEF Fresh, Op
  <2> QED
    BY <1>5, <1>6, <1>7, <2>1
<1>11. ASSUME NEW a \in Ids, NEW b \in Ids, a # b
       PROVE  Extent(F[a]) \cap Extent(F[b]) = {}
  <2>1. CASE a \notin Fresh(o) /\ b \notin Fresh(o)
    BY <1>8, <1>9, <1>11, <2>1 DEF Overlap
  <2>2. CASE a \in Fresh(o) /\ b \notin Fresh(o)
    BY <1>8, <1>9, <1>10, <2>2
  <2>3. CASE a \notin Fresh(o) /\ b \in Fresh(o)
    BY <1>8, <1>9, <1>10, <2>3
  <2>4. CASE a \in Fresh(o) /\ b \in Fresh(o)
    <3>1. \/ a = FILE_TABLE /\ F[a] = T
          \/ a = o.file /\ o.file # NoFile /\ F[a] = G
          \/ a = EXTENDED_FILE_TABLE /\ o.ext /\ F[a] = X
      BY <1>10, <2>4
    <3>2. \/ b = FILE_TABLE /\ F[b] = T
          \/ b = o.file /\ o.file # NoFile /\ F[b] = G
          \/ b = EXTENDED_FILE_TABLE /\ o.ext /\ F[b] = X
      BY <1>10, <2>4
    <3> QED
      BY SMTT(20), <1>5, <1>6, <1>7, <1>11, <3>1, <3>2
  <2> QED
    BY <2>1, <2>2, <2>3, <2>4
<1>12. Clean(F)
  <2>1. \A id \in Ids : Extent(F[id]) \subseteq Blocks
    BY <1>8, <1>10
  <2>2. F[FILE_TABLE].len = 1
    BY SMTT(20), <1>8 DEF T
  <2> QED
    BY <1>8, <1>11, <2>1, <2>2 DEF Clean, Overlap
<1>13. /\ \A id \in Fresh(o) : Extent(F[id]) \cap used = {}
       /\ o.file \in Files => F[o.file].len = Size[o.value]
       /\ o.ext => F[EXTENDED_FILE_TABLE].len = 1
  BY SMTT(20), <1>4, <1>8, <1>10 DEF Fresh, X
<1> QED
  BY <1>2, <1>8, <1>12, <1>13 DEF used

-----------------------------------------------------------------------------
(* Operations *)

\* w is v without the promise about some files that exist.
Forgets(fcbs, v, w) ==
    \A f \in Files : w[f] = v[f] \/ (w[f] = Lost /\ fcbs[f].len > 0)

LEMMA GoodForgets ==
    ASSUME NEW d, NEW i, NEW fcbs, NEW v, NEW w, Good(d, i, fcbs, v), Forgets(fcbs, v, w)
    PROVE  Good(d, i, fcbs, w)
<1>1. ASSUME NEW f \in Files
      PROVE  /\ w[f] = Absent <=> fcbs[f].len = 0
             /\ w[f] \in Values => Stored(d, fcbs[f], w[f])
  <2>1. CASE w[f] = v[f]
    BY <2>1 DEF Good, FilesAt
  <2>2. CASE w[f] = Lost /\ fcbs[f].len > 0
    BY SMTT(20), <2>2, NamesAssumption DEF Absent, Lost
  <2> QED
    BY <2>1, <2>2 DEF Forgets
<1> QED
  BY <1>1 DEF Good, FilesAt

\* The disk is the same and its current header too.
LEMMA SameDisk ==
    ASSUME DiskInv, UNCHANGED <<disk, stable, hardened, intact, exposed>>,
           intact => Forgets(Current, wrote, wrote')
    PROVE  DiskInv'
<1> SUFFICES ASSUME intact PROVE DiskInv'
  BY DEF DiskInv
<1>1. Active' = Active /\ Current' = Current
  BY DEF Active, Current
<1>2. Good(disk, Active, Current, wrote')
  BY GoodForgets DEF DiskInv
<1>3. disk[Active] = stable[Active] => Good(stable, Active, Current, wrote')
  BY GoodForgets DEF DiskInv
<1> QED
  BY <1>1, <1>2, <1>3 DEF DiskInv

LEMMA SameMemory ==
    ASSUME MemoryInv, pc # "closed", UNCHANGED <<disk, intact, state>>
    PROVE  MemoryInv'
<1>1. Active' = Active /\ Current' = Current
  BY DEF Active, Current
<1> QED
  BY <1>1 DEF MemoryInv, make_header

\* An operation on an open store begins: s is its temporary state before allocation.
LEMMA Begins ==
    ASSUME TypeInv, FileInv, pc = "idle", NEW o \in Op, NEW s \in VmgsState,
           write_files_internal(o, s), pc' = "table",
           UNCHANGED <<disk, stable, state, hardened, intact, exposed>>,
           o.part = 0, o.kind # "format", o.file \in Files => o.value \in Values /\ o.then = "done",
           s.active = state.active, s.sequence = state.sequence,
           intact =>
             /\ \A id \in Ids : Extent(s.fcbs[id]) \subseteq Blocks
             /\ Forgets(state.fcbs, wrote, wrote')
             /\ \A b \in Blocks : Protects(state.fcbs, wrote', b) => b \in Used(s.fcbs)
             /\ \A f \in Files : f # o.file =>
                    /\ target'[f] = Absent <=> s.fcbs[f].len = 0
                    /\ target'[f] \in Values => Stored(disk, s.fcbs[f], target'[f])
             /\ o.file \in Files => target'[o.file] = o.value
    PROVE  FileInv'
<1>1. op' = o
  BY DEF write_files_internal
<1>2. intact => state.fcbs = Current /\ state.active = Active
  BY DEF FileInv, MemoryInv
<1>3. DiskInv'
  BY <1>2, SameDisk DEF FileInv
<1>4. MemoryInv'
  BY SameMemory DEF FileInv
<1>5. FormatInv'
  BY <1>1 DEF FormatInv
<1>6. ASSUME intact
      PROVE  StepInv' /\ (o.ext => temp'.fcbs[EXTENDED_FILE_TABLE].len = 1)
  <2>1. /\ temp'.active = s.active /\ temp'.sequence = s.sequence
        /\ Clean(temp'.fcbs)
        /\ \A id \in Ids : id \notin Fresh(o) => temp'.fcbs[id] = s.fcbs[id]
        /\ \A id \in Fresh(o) : Extent(temp'.fcbs[id]) \cap Used(s.fcbs) = {}
        /\ o.file \in Files => temp'.fcbs[o.file].len = Size[o.value]
        /\ o.ext => temp'.fcbs[EXTENDED_FILE_TABLE].len = 1
    BY <1>6, Allocated
  <2>2. ASSUME NEW f \in Files
        PROVE  /\ target'[f] = Absent <=> temp'.fcbs[f].len = 0
               /\ f # o.file /\ target'[f] \in Values => Stored(disk, temp'.fcbs[f], target'[f])
    <3>1. CASE f = o.file
      <4>1. target'[f] \in Values /\ temp'.fcbs[f].len = Size[o.value] /\ Size[o.value] \in Nat \ {0}
        BY <1>6, <2>1, <3>1, SizeAssumption
      <4> QED
        BY <3>1, <4>1, NamesAssumption
    <3>2. CASE f # o.file
      <4>1. temp'.fcbs[f] = s.fcbs[f]
        BY <2>1, <3>2, TableEntry, NamesDiffer DEF Fresh
      <4> QED
        BY <1>6, <3>2, <4>1
    <3> QED
      BY <3>1, <3>2
  <2>3. ASSUME NEW id \in Pending', NEW b \in Extent(temp'.fcbs[id])
        PROVE  ~Protects(state.fcbs, wrote', b)
    <3>1. id \in Fresh(o) /\ id \in Ids
      BY <1>1 DEF Pending, Fresh
    <3> QED
      BY <1>6, <2>1, <3>1 DEF Clean
  <2> QED
    BY <1>1, <2>1, <2>2, <2>3 DEF StepInv
<1>7. ~intact => StepInv'
  BY DEF StepInv
<1> QED
  BY <1>1, <1>3, <1>4, <1>5, <1>6, <1>7 DEF FileInv

LEMMA ProtectsUsed ==
    ASSUME NEW fcbs, NEW w, NEW b, Protects(fcbs, w, b)
    PROVE  b \in Used(fcbs)
BY TableEntry DEF Protects, Used

\* The files of an intact store that is open, in terms of its state.
LEMMA OpenFiles ==
    ASSUME FileInv, intact, pc # "closed"
    PROVE  FilesAt(disk, state.fcbs, wrote)
BY DEF FileInv, MemoryInv, DiskInv, Good

LEMMA WriteFileKeeps ==
    ASSUME TypeInv, FileInv, NEW f \in Files, NEW v \in Values, write_file(f, v)
    PROVE  FileInv'
<1> DEFINE o == [Operation("write") EXCEPT !.file = f, !.value = v]
<1>1. /\ o \in Op /\ o.file = f /\ o.value = v /\ o.then = "done" /\ o.kind = "write" /\ o.part = 0
  <2>1. /\ Operation("write") \in Op /\ Operation("write").then = "done"
        /\ Operation("write").kind = "write" /\ Operation("write").part = 0
    BY OperationType DEF Operation, NoOp
  <2> QED
    BY <2>1 DEF Op
<1>2. /\ write_files_internal(o, state) /\ pc = "idle" /\ pc' = "table"
      /\ target' = [wrote EXCEPT ![f] = v] /\ wrote' = wrote
      /\ UNCHANGED <<disk, stable, state, hardened, intact, exposed>>
  BY DEF write_file
<1> HIDE DEF o
<1>3. ASSUME intact
      PROVE  /\ \A id \in Ids : Extent(state.fcbs[id]) \subseteq Blocks
             /\ Forgets(state.fcbs, wrote, wrote')
             /\ \A b \in Blocks : Protects(state.fcbs, wrote', b) => b \in Used(state.fcbs)
             /\ \A g \in Files : g # f =>
                    /\ target'[g] = Absent <=> state.fcbs[g].len = 0
                    /\ target'[g] \in Values => Stored(disk, state.fcbs[g], target'[g])
             /\ target'[f] = v
  <2>1. FilesAt(disk, state.fcbs, wrote)
    BY <1>2, <1>3, OpenFiles
  <2>2. target'[f] = v /\ \A g \in Files : g # f => target'[g] = wrote[g]
    BY <1>2 DEF TypeInv, TypeOK, World
  <2> QED
    BY <1>2, <2>1, <2>2, ProtectsUsed DEF FilesAt, Clean, Forgets
<1> QED
  BY <1>1, <1>2, <1>3, Begins DEF TypeInv, TypeOK

LEMMA MoveFileKeeps ==
    ASSUME TypeInv, FileInv, NEW src \in Files, NEW dst \in Files, NEW a \in BOOLEAN,
           move_file(src, dst, a)
    PROVE  FileInv'
<1> DEFINE o == Operation("move")
           F == state.fcbs
           G == [[F EXCEPT ![src] = NoFcb] EXCEPT ![dst] = F[src]]
           s == [state EXCEPT !.fcbs = G]
<1>1. o \in Op /\ o.file = NoFile /\ o.kind = "move" /\ o.part = 0
  BY OperationType DEF Operation, NoOp
<1>2. /\ write_files_internal(o, s) /\ pc = "idle" /\ pc' = "table" /\ F[src].len > 0
      /\ wrote' = IF dst # src /\ F[dst].len > 0 THEN [wrote EXCEPT ![dst] = Lost] ELSE wrote
      /\ target' = [[wrote EXCEPT ![src] = Absent] EXCEPT ![dst] = wrote[src]]
      /\ UNCHANGED <<disk, stable, state, hardened, intact, exposed>>
  BY DEF move_file, Forget
<1>3. /\ G \in [Ids -> Fcb] /\ F \in [Ids -> Fcb] /\ G[dst] = F[src]
      /\ dst # src => G[src] = NoFcb
      /\ \A id \in Ids : id # src /\ id # dst => G[id] = F[id]
  BY TableEntry DEF TypeInv, TypeOK, VmgsState, Fcb, NoFcb
<1> HIDE DEF o, G
<1>4. s \in VmgsState /\ s.fcbs = G /\ s.active = state.active /\ s.sequence = state.sequence
  BY <1>3 DEF TypeInv, TypeOK, VmgsState
<1> HIDE DEF s
<1>5. ASSUME intact
      PROVE  /\ \A id \in Ids : Extent(G[id]) \subseteq Blocks
             /\ Forgets(F, wrote, wrote')
             /\ \A b \in Blocks : Protects(F, wrote', b) => b \in Used(G)
             /\ \A f \in Files : /\ target'[f] = Absent <=> G[f].len = 0
                                 /\ target'[f] \in Values => Stored(disk, G[f], target'[f])
  <2>1. FilesAt(disk, F, wrote)
    BY <1>2, <1>5, OpenFiles
  <2>2. Extent(NoFcb) = {} /\ NoFcb.len = 0
    BY SMTT(20) DEF Extent, NoFcb
  <2>3. \A id \in Ids : Extent(G[id]) \subseteq Blocks
    BY <1>3, <2>1, <2>2, TableEntry DEF FilesAt, Clean
  <2>4. /\ target'[dst] = wrote[src] /\ (dst # src => target'[src] = Absent)
        /\ \A f \in Files : f # src /\ f # dst => target'[f] = wrote[f]
    BY <1>2 DEF TypeInv, TypeOK, World
  <2>5. /\ \A f \in Files : f # dst => wrote'[f] = wrote[f]
        /\ wrote'[dst] = IF dst # src /\ F[dst].len > 0 THEN Lost ELSE wrote[dst]
    BY <1>2 DEF TypeInv, TypeOK, World
  <2>6. Forgets(F, wrote, wrote')
    BY <2>5 DEF Forgets
  <2>7. ASSUME NEW b \in Blocks, Protects(F, wrote', b)
        PROVE  b \in Used(G)
    <3>1. CASE b \in Extent(F[FILE_TABLE])
      <4>1. G[FILE_TABLE] = F[FILE_TABLE]
        BY <1>3, TableEntry, NamesDiffer
      <4> QED
        BY <3>1, <4>1, TableEntry DEF Used
    <3>2. ASSUME NEW f \in Files, wrote'[f] \in Values, b \in Extent(F[f])
          PROVE  b \in Used(G)
      <4>1. CASE f = src
        BY <1>3, <3>2, <4>1, TableEntry DEF Used
      <4>2. CASE f = dst /\ dst # src
        <5>1. F[dst] \in Fcb /\ ~(F[dst].len > 0)
          BY <1>3, <2>5, <3>2, <4>2, NamesAssumption, TableEntry
        <5> QED
          BY SMTT(20), <3>2, <4>2, <5>1 DEF Extent, Fcb
      <4>3. CASE f # src /\ f # dst
        BY <1>3, <3>2, <4>3, TableEntry DEF Used
      <4> QED
        BY <4>1, <4>2, <4>3
    <3> QED
      BY <2>7, <3>1, <3>2 DEF Protects
  <2>8. ASSUME NEW f \in Files
        PROVE  /\ target'[f] = Absent <=> G[f].len = 0
               /\ target'[f] \in Values => Stored(disk, G[f], target'[f])
    <3>1. CASE f = dst
      BY <1>3, <2>1, <2>4, <3>1 DEF FilesAt
    <3>2. CASE f = src /\ src # dst
      BY <1>3, <2>2, <2>4, <3>2, NamesAssumption
    <3>3. CASE f # src /\ f # dst
      BY <1>3, <2>1, <2>4, <3>3, TableEntry DEF FilesAt
    <3> QED
      BY <3>1, <3>2, <3>3
  <2> QED
    BY <2>3, <2>6, <2>7, <2>8
<1>6. o.file \notin Files
  BY <1>1, NamesDiffer
<1> HIDE DEF F
<1> QED
  BY <1>1, <1>2, <1>4, <1>5, <1>6, Begins DEF F

LEMMA DeleteFileKeeps ==
    ASSUME TypeInv, FileInv, NEW v \in Files, delete_file(v)
    PROVE  FileInv'
<1> DEFINE o == Operation("delete")
           F == state.fcbs
           G == [F EXCEPT ![v] = NoFcb]
           s == [state EXCEPT !.fcbs = G]
<1>1. o \in Op /\ o.file = NoFile /\ o.kind = "delete" /\ o.part = 0
  BY OperationType DEF Operation, NoOp
<1>2. /\ write_files_internal(o, s) /\ pc = "idle" /\ pc' = "table" /\ F[v].len > 0
      /\ wrote' = [wrote EXCEPT ![v] = Lost] /\ target' = [wrote EXCEPT ![v] = Absent]
      /\ UNCHANGED <<disk, stable, state, hardened, intact, exposed>>
  BY DEF delete_file, Forget, TypeInv, TypeOK, VmgsState
<1>3. /\ G \in [Ids -> Fcb] /\ F \in [Ids -> Fcb] /\ G[v] = NoFcb
      /\ \A id \in Ids : id # v => G[id] = F[id]
  BY TableEntry DEF TypeInv, TypeOK, VmgsState, Fcb, NoFcb
<1> HIDE DEF o, G
<1>4. s \in VmgsState /\ s.fcbs = G /\ s.active = state.active /\ s.sequence = state.sequence
  BY <1>3 DEF TypeInv, TypeOK, VmgsState
<1> HIDE DEF s
<1>5. ASSUME intact
      PROVE  /\ \A id \in Ids : Extent(G[id]) \subseteq Blocks
             /\ Forgets(F, wrote, wrote')
             /\ \A b \in Blocks : Protects(F, wrote', b) => b \in Used(G)
             /\ \A f \in Files : /\ target'[f] = Absent <=> G[f].len = 0
                                 /\ target'[f] \in Values => Stored(disk, G[f], target'[f])
  <2>1. FilesAt(disk, F, wrote)
    BY <1>2, <1>5, OpenFiles
  <2>2. Extent(NoFcb) = {} /\ NoFcb.len = 0
    BY SMTT(20) DEF Extent, NoFcb
  <2>3. \A id \in Ids : Extent(G[id]) \subseteq Blocks
    BY <1>3, <2>1, <2>2, TableEntry DEF FilesAt, Clean
  <2>4. /\ target'[v] = Absent /\ wrote'[v] = Lost
        /\ \A f \in Files : f # v => target'[f] = wrote[f] /\ wrote'[f] = wrote[f]
    BY <1>2 DEF TypeInv, TypeOK, World
  <2>5. Forgets(F, wrote, wrote')
    BY <1>2, <2>4 DEF Forgets
  <2>6. ASSUME NEW b \in Blocks, Protects(F, wrote', b)
        PROVE  b \in Used(G)
    <3>1. PICK id \in Ids : id # v /\ b \in Extent(F[id])
      BY <2>4, <2>6, TableEntry, NamesDiffer, NamesAssumption DEF Protects
    <3> QED
      BY <1>3, <3>1 DEF Used
  <2>7. ASSUME NEW f \in Files
        PROVE  /\ target'[f] = Absent <=> G[f].len = 0
               /\ target'[f] \in Values => Stored(disk, G[f], target'[f])
    <3>1. CASE f = v
      BY <1>3, <2>2, <2>4, <3>1, NamesAssumption
    <3>2. CASE f # v
      BY <1>3, <2>1, <2>4, <3>2, TableEntry DEF FilesAt
    <3> QED
      BY <3>1, <3>2
  <2> QED
    BY <2>3, <2>5, <2>6, <2>7
<1>6. o.file \notin Files
  BY <1>1, NamesDiffer
<1> HIDE DEF F
<1> QED
  BY <1>1, <1>2, <1>4, <1>5, <1>6, Begins DEF F

\* An operation that has all its blocks in place and goes to its flush.
LEMMA AtFlush ==
    ASSUME pc' = "flush", FilesAt(disk', temp'.fcbs, target'), op'.file \notin Files,
           temp'.active = state'.active, temp'.sequence = state'.sequence
    PROVE  StepInv'
<1>1. Pending' = {}
  BY DEF Pending
<1> QED
  BY <1>1 DEF StepInv, FilesAt

LEMMA EncryptLayout ==
    ASSUME NEW s \in VmgsState
    PROVE  LET e == encrypt_metadata_key(s) IN
           e.fcbs = s.fcbs /\ e.active = s.active /\ e.sequence = s.sequence
BY DEF encrypt_metadata_key, VmgsState

LEMMA WithKeyLayout ==
    ASSUME NEW s \in VmgsState, NEW k
    PROVE  LET w == WithKey(s, k) IN
           w.fcbs = s.fcbs /\ w.active = s.active /\ w.sequence = s.sequence
BY DEF WithKey, VmgsState

LEMMA WithoutKeyLayout ==
    ASSUME NEW s \in VmgsState, NEW i
    PROVE  LET w == WithoutKey(s, i) IN
           w.fcbs = s.fcbs /\ w.active = s.active /\ w.sequence = s.sequence
BY DEF WithoutKey, VmgsState

LEMMA UpdateKeyKeeps ==
    ASSUME TypeInv, FileInv, NEW k \in Keys, update_encryption_key(k)
    PROVE  FileInv'
<1> DEFINE old == state.unlocked
           o == [Operation("key") EXCEPT !.ext = TRUE, !.key = k, !.index = old]
           after == [o EXCEPT !.then = IF old = NoIndex THEN "done" ELSE "remove"]
           added == WithKey(state, k)
           n == datastore_key_count(state)
<1>1. /\ after \in Op /\ after.file = NoFile /\ after.kind = "key" /\ after.part = 0
      /\ LET a == [o EXCEPT !.then = "add"] IN a.file = NoFile /\ a.kind = "key"
  <2>1. /\ Operation("key") \in Op /\ Operation("key").file = NoFile
        /\ Operation("key").kind = "key" /\ Operation("key").part = 0
    BY OperationType DEF Operation, NoOp
  <2>2. o \in Op /\ o.file = NoFile /\ o.kind = "key" /\ o.part = 0
    BY <2>1 DEF TypeInv, TypeOK, VmgsState, Op
  <2> HIDE DEF o
  <2> QED
    BY <2>2 DEF Op
<1>2. /\ added \in VmgsState /\ added.fcbs = state.fcbs /\ added.active = state.active
      /\ added.sequence = state.sequence /\ state \in VmgsState
  BY WithKeyType, WithKeyLayout DEF TypeInv, TypeOK
<1>3. /\ pc = "idle" /\ target = wrote
      /\ UNCHANGED <<disk, stable, state, wrote, target, hardened, intact, exposed>>
  BY DEF update_encryption_key, FileInv
<1> HIDE DEF after, added
<1>4. intact => FilesAt(disk, state.fcbs, wrote)
  BY <1>3, OpenFiles
<1>5. CASE n = 0
  <2>1. write_files_internal(after, added) /\ pc' = "table"
    BY SMTT(20), <1>5 DEF update_encryption_key, after, added
  <2>2. ASSUME intact
        PROVE  /\ \A id \in Ids : Extent(added.fcbs[id]) \subseteq Blocks
               /\ Forgets(state.fcbs, wrote, wrote')
               /\ \A b \in Blocks : Protects(state.fcbs, wrote', b) => b \in Used(added.fcbs)
               /\ \A f \in Files :
                    /\ target'[f] = Absent <=> added.fcbs[f].len = 0
                    /\ target'[f] \in Values => Stored(disk, added.fcbs[f], target'[f])
    BY <1>2, <1>3, <1>4, <2>2, ProtectsUsed DEF FilesAt, Clean, Forgets
  <2> QED
    BY <1>1, <1>2, <1>3, <2>1, <2>2, NamesDiffer, Begins
<1>6. CASE n # 0
  <2>1. /\ pc' = "flush" /\ op'.file = NoFile /\ op'.kind = "key"
        /\ temp'.fcbs = state.fcbs /\ temp'.active = state.active /\ temp'.sequence = state.sequence
    <3>1. CASE n = 1
      <4>1. op' = after /\ temp' = encrypt_metadata_key(added) /\ pc' = "flush"
        BY SMTT(20), <3>1 DEF update_encryption_key, after, added
      <4> QED
        BY <1>1, <1>2, <4>1, EncryptLayout
    <3>2. CASE n # 1
      <4>1. /\ op' = [o EXCEPT !.then = "add"]
            /\ temp' = WithoutKey(state, 1 - old) /\ pc' = "flush"
        BY <1>6, <3>2 DEF update_encryption_key
      <4> QED
        BY <1>1, <1>2, <4>1, WithoutKeyLayout
    <3> QED
      BY <3>1, <3>2
  <2>2. DiskInv'
    BY <1>3, SameDisk DEF FileInv, Forgets
  <2>3. MemoryInv'
    BY <1>3, SameMemory DEF FileInv
  <2>4. StepInv'
    <3>1. CASE intact
      BY <1>3, <1>4, <2>1, <3>1, AtFlush, NamesDiffer
    <3>2. CASE ~intact
      BY <1>3, <3>2 DEF StepInv
    <3> QED
      BY <3>1, <3>2
  <2>5. FormatInv'
    BY <2>1 DEF FormatInv
  <2> QED
    BY <2>1, <2>2, <2>3, <2>4, <2>5 DEF FileInv
<1> QED
  BY <1>5, <1>6

LEMMA UnlockKeeps ==
    ASSUME TypeInv, FileInv, NEW k \in Keys, unlock_with_encryption_key(k)
    PROVE  FileInv'
<1>1. /\ pc = "idle" /\ pc' = "idle" /\ op = NoOp
      /\ UNCHANGED <<disk, stable, op, wrote, target, hardened, intact, exposed>>
  BY DEF unlock_with_encryption_key, TypeInv, OpInv
<1>2. /\ state'.active = state.active /\ state'.fcbs = state.fcbs
      /\ make_header(state') = make_header(state)
  BY DEF unlock_with_encryption_key, TypeInv, TypeOK, VmgsState, make_header
<1>3. DiskInv'
  BY <1>1, SameDisk DEF FileInv, Forgets
<1>4. MemoryInv'
  <2>1. Active' = Active /\ Current' = Current
    BY <1>1 DEF Active, Current
  <2> QED
    BY <1>1, <1>2, <2>1 DEF FileInv, MemoryInv
<1>5. StepInv'
  BY <1>1 DEF StepInv
<1>6. FormatInv'
  BY <1>1 DEF FormatInv, NoOp
<1> QED
  BY <1>1, <1>3, <1>4, <1>5, <1>6 DEF FileInv

LEMMA FromDiskLayout ==
    ASSUME NEW d, NEW i
    PROVE  LET s == FromDisk(d, i) IN
           s.fcbs = d[d[i].table].fcbs /\ s.active = i /\ s.sequence = d[i].sequence
BY DEF FromDisk, NewState

LEMMA FromDiskHeader ==
    ASSUME NEW d \in [Locations -> Content], NEW i \in {0, 1}, NEW fcbs, NEW w, Good(d, i, fcbs, w)
    PROVE  make_header(FromDisk(d, i)) = d[i]
<1>1. d[i] \in Header
  BY SMTT(20), HeaderLocations DEF Good, HeaderAt, Content, Zeroed, Torn
<1>2. d[d[i].table].fcbs = fcbs /\ d[i].table = fcbs[FILE_TABLE].at
  BY SMTT(20), GoodHolds DEF Good, HeaderAt
<1>3. make_header(FromDisk(d, i)) =
        [kind |-> "header", sequence |-> d[i].sequence, table |-> d[i].table,
         encrypted |-> d[i].encrypted, slots |-> d[i].slots, reprovisioned |-> d[i].reprovisioned]
  BY <1>2 DEF make_header, FromDisk, NewState
<1> QED
  BY <1>1, <1>3 DEF Header

\* The store is opened as it is on the disk.
LEMMA Opened ==
    ASSUME TypeInv, FileInv, pc = "closed", state' = FromDisk(disk, Active),
           pc' \in {"idle", "flush"}, op'.file = NoFile, op'.kind # "format",
           temp'.fcbs = state'.fcbs, temp'.active = state'.active, temp'.sequence = state'.sequence,
           UNCHANGED <<disk, stable, wrote, target, hardened, intact, exposed>>
    PROVE  FileInv'
<1>1. DiskInv'
  BY SameDisk DEF FileInv, Forgets
<1>2. Active' = Active /\ Current' = Current /\ state'.fcbs = Current /\ state'.active = Active
  BY SMTT(20), FromDiskLayout DEF Active, Current
<1>3. intact => disk[Active] = make_header(state')
  BY FromDiskHeader DEF TypeInv, TypeOK, FileInv, DiskInv
<1>4. MemoryInv'
  BY <1>2, <1>3 DEF MemoryInv
<1>5. StepInv'
  <2>1. CASE intact /\ pc' = "flush"
    <3>1. FilesAt(disk', temp'.fcbs, target')
      BY <1>2, <2>1 DEF FileInv, DiskInv, Good
    <3> QED
      BY <2>1, <3>1, AtFlush, NamesDiffer
  <2>2. CASE ~intact \/ pc' = "idle"
    BY <2>2 DEF StepInv
  <2> QED
    BY <2>1, <2>2
<1>6. FormatInv'
  BY DEF FormatInv
<1> QED
  BY <1>1, <1>4, <1>5, <1>6 DEF FileInv

LEMMA OpenKeeps ==
    ASSUME TypeInv, FileInv, open
    PROVE  FileInv'
<1> DEFINE s == FromDisk(disk, Active)
<1>1. /\ pc = "closed" /\ state' = s
      /\ IF s.reprovisioned
         THEN /\ temp' = [s EXCEPT !.reprovisioned = FALSE]
              /\ op' = [NoOp EXCEPT !.kind = "open"] /\ pc' = "flush"
         ELSE temp' = s /\ op' = NoOp /\ pc' = "idle"
      /\ UNCHANGED <<disk, stable, wrote, target, hardened, intact, exposed>>
  BY DEF open, Active
<1>2. s \in VmgsState
  BY FromDiskKeys DEF open, Active, TypeInv, TypeOK, KeyInv
<1> HIDE DEF s
<1>3. temp'.fcbs = s.fcbs /\ temp'.active = s.active /\ temp'.sequence = s.sequence
  BY <1>1, <1>2 DEF VmgsState
<1>4. op'.file = NoFile /\ op'.kind # "format" /\ pc' \in {"idle", "flush"}
  BY SMTT(20), <1>1 DEF NoOp
<1> QED
  BY <1>1, <1>3, <1>4, Opened DEF s

LEMMA FormatKeeps ==
    ASSUME TypeInv, FileInv, NEW then \in {"done", "mark"}, StartFormat(then)
    PROVE  FileInv'
<1> DEFINE o == [NoOp EXCEPT !.kind = "format", !.ext = TRUE, !.then = then]
<1>1. o \in Op /\ o.file = NoFile /\ o.kind = "format" /\ o.ext
  BY DEF NoOp, Op
<1>2. /\ write_files_internal(o, NewState) /\ pc' = "zero" /\ state' = NewState /\ ~intact'
      /\ op' = o
  BY DEF StartFormat, write_files_internal
<1> HIDE DEF o
<1>3. /\ NewState.active = 1 /\ NewState.sequence = 0
      /\ \A id \in Ids : NewState.fcbs[id] = NoFcb
  BY DEF NewState
<1>4. \A id \in Ids : Extent(NewState.fcbs[id]) \subseteq Blocks
  BY SMTT(20), <1>3 DEF Extent, NoFcb
<1>5. /\ temp'.active = 1 /\ Clean(temp'.fcbs)
      /\ \A id \in Ids : id \notin Fresh(o) => temp'.fcbs[id] = NoFcb
      /\ temp'.fcbs[EXTENDED_FILE_TABLE].len = 1
  BY <1>1, <1>2, <1>3, <1>4, NewStateType, NamesDiffer, Allocated
<1>6. \A f \in Files : temp'.fcbs[f].len = 0
  BY SMTT(20), <1>1, <1>5, NamesDiffer, TableEntry DEF Fresh, NoFcb
<1>7. FormatInv'
  BY <1>1, <1>2, <1>3, <1>5, <1>6 DEF FormatInv
<1>8. DiskInv' /\ MemoryInv' /\ StepInv'
  BY <1>2 DEF DiskInv, MemoryInv, StepInv
<1> QED
  BY <1>1, <1>2, <1>5, <1>7, <1>8 DEF FileInv

LEMMA RequestFormatKeeps ==
    ASSUME TypeInv, FileInv, request_format
    PROVE  FileInv'
<1>1. CASE StartFormat("mark")
  BY <1>1, FormatKeeps
<1>2. CASE /\ pc = "closed" /\ state' = FromDisk(disk, Active) /\ temp' = state'
           /\ op' = NoOp /\ pc' = "idle"
           /\ UNCHANGED <<disk, stable, wrote, target, hardened, intact, exposed>>
  BY <1>2, Opened DEF NoOp
<1> QED
  BY <1>1, <1>2 DEF request_format, Active

-----------------------------------------------------------------------------
(* Disk requests *)

\* Writing a block that the current header does not need.
LEMMA BlockWritten ==
    ASSUME TypeInv, FileInv, intact, pc # "closed", pc' # "closed", NEW b \in Blocks,
           NEW c \in Content, WriteBlock(b, c), ~Protects(state.fcbs, wrote, b),
           UNCHANGED <<stable, state, wrote, hardened, intact>>
    PROVE  /\ DiskInv' /\ MemoryInv' /\ disk'[b] = c
           /\ \A l \in Locations : l # b => disk'[l] = disk[l]
<1>1. disk' = [disk EXCEPT ![b] = c] /\ disk \in [Locations -> Content]
  BY DEF WriteBlock, TypeInv, TypeOK
<1>2. disk' \in [Locations -> Content] /\ disk'[b] = c /\ \A l \in Locations : l # b => disk'[l] = disk[l]
  BY <1>1, BlocksAreLocations
<1>3. /\ Active \in {0, 1} /\ state.active = Active /\ state.fcbs = Current
      /\ disk[Active] = make_header(state) /\ Good(disk, Active, Current, wrote)
  BY DEF FileInv, DiskInv, MemoryInv
<1>4. disk'[Active] = disk[Active] /\ disk'[1 - Active] = disk[1 - Active]
  BY SMTT(20), <1>2, <1>3, BlocksAreLocations, HeaderLocations
<1>5. Good(disk', Active, Current, wrote)
  <2>1. \A l \in Blocks : Protects(Current, wrote, l) => disk'[l] = disk[l]
    BY <1>2, <1>3, BlocksAreLocations
  <2> QED
    BY <1>3, <1>4, <2>1, GoodFrame
<1>6. Active' = Active /\ Current' = Current
  <2>1. get_active_header(disk') = Active /\ disk'[disk'[Active].table].fcbs = Current
    BY SMTT(20), <1>2, <1>3, <1>5, GoodHolds
  <2> QED
    BY <2>1 DEF Active, Current
<1>7. disk[Active] # stable[Active] => exposed'
  BY <1>3 DEF WriteBlock, HeaderIsFlushed
<1>8. DiskInv'
  <2> USE DEF DiskInv
  <2>1. disk'[Active] = stable[Active] => Good(stable, Active, Current, wrote)
    BY <1>4 DEF FileInv
  <2> QED
    BY <1>3, <1>4, <1>5, <1>6, <1>7, <2>1
<1>9. MemoryInv'
  BY <1>3, <1>4, <1>6 DEF MemoryInv
<1> QED
  BY <1>2, <1>8, <1>9

LEMMA StoredFrame ==
    ASSUME NEW d, NEW e, NEW b, NEW fcbs, Clean(fcbs), NEW f \in Files, NEW v \in Values,
           Stored(d, fcbs[f], v), \A l \in Locations : l # b => e[l] = d[l],
           b \notin Extent(fcbs[f])
    PROVE  Stored(e, fcbs[f], v)
<1>1. fcbs[f] \in Fcb /\ Extent(fcbs[f]) \subseteq Blocks /\ Size[v] \in Nat
  BY TableEntry, SizeAssumption DEF Clean
<1>2. ASSUME NEW j \in 0 .. Size[v] - 1
      PROVE  e[fcbs[f].at + j] = d[fcbs[f].at + j]
  <2>1. fcbs[f].at + j \in Extent(fcbs[f])
    BY SMTT(20), <1>1 DEF Stored, Extent, Fcb
  <2> QED
    BY <1>1, <2>1, BlocksAreLocations
<1> QED
  BY <1>2 DEF Stored

LEMMA Apart ==
    ASSUME NEW fcbs, Clean(fcbs), NEW a \in Ids, NEW c \in Ids, a # c, NEW b \in Extent(fcbs[a])
    PROVE  b \notin Extent(fcbs[c]) /\ b \in Blocks
BY DEF Clean, Overlap

LEMMA FileTableKeeps ==
    ASSUME TypeInv, FileInv, intact, WriteFileTable
    PROVE  FileInv'
<1> DEFINE F == temp.fcbs
           b == F[FILE_TABLE].at
<1>1. /\ WriteBlock(b, Table(F)) /\ pc = "table"
      /\ pc' = IF op.file = NoFile THEN AfterData ELSE "data"
      /\ UNCHANGED <<stable, op, state, temp, wrote, target, hardened, intact>>
  BY DEF WriteFileTable
<1>2. Clean(F) /\ op.kind # "format" /\ op \in Op
  BY <1>1 DEF FileInv, StepInv, TypeInv, TypeOK
<1>3. Table(F) \in Content
  BY DEF Table, Content, TypeInv, TypeOK, VmgsState
<1>4. b \in Blocks /\ b \in Extent(F[FILE_TABLE]) /\ FILE_TABLE \in Pending
  BY <1>1, <1>2, TableBlock, TableEntry DEF Pending
<1>5. ~Protects(state.fcbs, wrote, b)
  BY <1>1, <1>4 DEF FileInv, StepInv
<1>6. /\ pc' \in {"data", "extended", "flush"}
      /\ pc' = "data" <=> op.file \in Files
      /\ pc' = "extended" => op.ext
  BY <1>1, <1>2, NamesDiffer DEF AfterData, AfterFiles, Op
<1> HIDE DEF b, F
<1>7. /\ DiskInv' /\ MemoryInv' /\ disk'[b] = Table(F)
      /\ \A l \in Locations : l # b => disk'[l] = disk[l]
  BY <1>1, <1>3, <1>4, <1>5, <1>6, BlockWritten
<1>8. ASSUME NEW f \in Files, f # op.file, target[f] \in Values
      PROVE  Stored(disk', F[f], target[f])
  <2>1. Stored(disk, F[f], target[f])
    BY <1>1, <1>8 DEF FileInv, StepInv, F
  <2>2. b \notin Extent(F[f])
    BY <1>2, <1>4, TableEntry, NamesDiffer, Apart
  <2> QED
    BY <1>2, <1>7, <1>8, <2>1, <2>2, StoredFrame
<1>9. Pending' \subseteq Pending
  BY <1>1, <1>6 DEF Pending
<1>10. op.file \in Files => op.value \in Values /\ Size[op.value] \in Nat \ {0}
  BY SizeAssumption DEF TypeInv, OpInv
<1>11. StepInv'
  <2>1. /\ \A f \in Files : target[f] = Absent <=> F[f].len = 0
        /\ op.file \in Files => /\ target[op.file] = op.value /\ op.then = "done"
                                /\ F[op.file].len = Size[op.value]
        /\ temp.active = state.active /\ temp.sequence = state.sequence /\ op.part = 0
    BY <1>1 DEF FileInv, StepInv, F
  <2>2. \A id \in Pending' : \A l \in Extent(F[id]) : ~Protects(state.fcbs, wrote, l)
    BY <1>1, <1>9 DEF FileInv, StepInv, F
  <2> QED
    BY SMTT(20), <1>1, <1>2, <1>6, <1>7, <1>8, <1>10, <2>1, <2>2 DEF StepInv, F, b
<1>12. FormatInv'
  BY <1>1, <1>2, <1>6 DEF FormatInv
<1> QED
  BY <1>1, <1>2, <1>6, <1>7, <1>11, <1>12 DEF FileInv

LEMMA DataKeeps ==
    ASSUME TypeInv, FileInv, intact, WriteData
    PROVE  FileInv'
<1> DEFINE F == temp.fcbs
           x == op.file
           b == F[x].at + op.part
           c == Data(op.value, op.part)
<1>1. /\ WriteBlock(b, c) /\ pc = "data"
      /\ op' = [op EXCEPT !.part = @ + 1]
      /\ pc' = IF op.part + 1 < Size[op.value] THEN "data" ELSE AfterData
      /\ UNCHANGED <<stable, state, temp, wrote, target, hardened, intact>>
  BY DEF WriteData
<1>2. /\ Clean(F) /\ op.kind # "format" /\ op \in Op /\ x \in Files /\ op.value \in Values
      /\ Size[op.value] \in Nat /\ op.part < Size[op.value] /\ F[x].len = Size[op.value]
      /\ F[x] \in Fcb /\ op.part \in Nat
  BY <1>1, SizeAssumption, TableEntry DEF FileInv, StepInv, TypeInv, TypeOK, OpInv, Clean, Op
<1>3. c \in Content
  BY <1>2 DEF Data, Content
<1>4. b \in Extent(F[x]) /\ x \in Pending /\ b \in Blocks
  BY SMTT(20), <1>1, <1>2, TableEntry DEF Pending, Extent, Fcb, Clean
<1>5. ~Protects(state.fcbs, wrote, b)
  BY <1>1, <1>4 DEF FileInv, StepInv
<1>6. /\ op'.part = op.part + 1 /\ op'.file = x /\ op'.value = op.value /\ op'.kind = op.kind
      /\ op'.then = op.then /\ op'.ext = op.ext
  BY <1>1, <1>2 DEF Op
<1>7. /\ pc' \in {"data", "extended", "flush"}
      /\ pc' = "data" <=> op.part + 1 < Size[op.value]
      /\ pc' = "extended" => op.ext
  BY <1>1, <1>2 DEF AfterData, AfterFiles
<1>8. \A j \in 0 .. op.part - 1 : disk[F[x].at + j] = Data(op.value, j)
  BY <1>1 DEF FileInv, StepInv
<1> HIDE DEF F, b, c
<1>9. /\ DiskInv' /\ MemoryInv' /\ disk'[b] = c
      /\ \A l \in Locations : l # b => disk'[l] = disk[l]
  BY <1>1, <1>3, <1>4, <1>5, <1>7, BlockWritten
<1>10. ASSUME NEW f \in Files, f # x, target[f] \in Values
       PROVE  Stored(disk', F[f], target[f])
  <2>1. Stored(disk, F[f], target[f])
    BY <1>1, <1>10 DEF FileInv, StepInv, F
  <2>2. b \notin Extent(F[f])
    BY <1>2, <1>4, <1>10, TableEntry, Apart
  <2>3. Clean(F) /\ \A l \in Locations : l # b => disk'[l] = disk[l]
    BY <1>2, <1>9
  <2> QED
    BY <1>10, <2>1, <2>2, <2>3, StoredFrame
<1>11. \A j \in 0 .. op.part : disk'[F[x].at + j] = Data(op.value, j)
  <2>1. ASSUME NEW j \in 0 .. op.part, j # op.part
        PROVE  F[x].at + j \in Locations /\ F[x].at + j # b /\ j \in 0 .. op.part - 1
    <3>1. F[x].at + j \in Extent(F[x])
      BY SMTT(20), <1>2, <2>1 DEF Extent, Fcb
    <3>2. F[x].at + j # b /\ j \in 0 .. op.part - 1
      BY SMTT(20), <1>2, <2>1 DEF b, Fcb
    <3> QED
      BY <1>2, <3>1, <3>2, TableEntry, BlocksAreLocations DEF Clean
  <2> QED
    BY <1>2, <1>8, <1>9, <2>1 DEF b, c
<1>12. disk'[F[FILE_TABLE].at] = Table(F)
  <2>1. F[FILE_TABLE].at # b /\ F[FILE_TABLE].at \in Locations
    BY <1>2, <1>4, TableBlock, TableEntry, NamesDiffer, Apart, BlocksAreLocations
  <2> QED
    BY <1>1, <1>9, <2>1 DEF FileInv, StepInv, F
<1>13. Pending' \subseteq Pending
  BY <1>1, <1>6, <1>7 DEF Pending
<1>14. StepInv'
  <2>1. /\ \A f \in Files : target[f] = Absent <=> F[f].len = 0
        /\ target[x] = op.value /\ op.then = "done"
        /\ temp.active = state.active /\ temp.sequence = state.sequence
    BY <1>1, <1>2 DEF FileInv, StepInv, F
  <2>2. \A id \in Pending' : \A l \in Extent(F[id]) : ~Protects(state.fcbs, wrote, l)
    BY <1>1, <1>13 DEF FileInv, StepInv, F
  <2>3. pc' # "data" => Stored(disk', F[x], op.value)
    BY SMTT(20), <1>2, <1>7, <1>11 DEF Stored
  <2>4. \A j \in 0 .. op'.part - 1 : disk'[F[x].at + j] = Data(op.value, j)
    BY SMTT(20), <1>2, <1>6, <1>11
  <2> QED
    BY <1>1, <1>2, <1>6, <1>7, <1>10, <1>12, <2>1, <2>2, <2>3, <2>4 DEF StepInv, F
<1>15. FormatInv'
  BY <1>1, <1>2, <1>6, <1>7 DEF FormatInv
<1>16. (pc = "extended" => op.ext)' /\ (op.ext => temp.fcbs[EXTENDED_FILE_TABLE].len = 1)'
  BY <1>1, <1>6, <1>7 DEF FileInv
<1> QED
  BY <1>7, <1>9, <1>14, <1>15, <1>16 DEF FileInv

LEMMA ExtendedKeeps ==
    ASSUME TypeInv, FileInv, intact, WriteExtendedTable
    PROVE  FileInv'
<1> DEFINE F == temp.fcbs
           x == EXTENDED_FILE_TABLE
           b == F[x].at
           c == Extended(temp.meta)
<1>1. /\ WriteBlock(b, c) /\ pc = "extended" /\ pc' = AfterFiles
      /\ UNCHANGED <<stable, op, state, temp, wrote, target, hardened, intact>>
  BY DEF WriteExtendedTable
<1>2. /\ Clean(F) /\ op.kind # "format" /\ op.ext /\ F[x].len = 1 /\ F[x] \in Fcb
  BY <1>1, TableEntry DEF FileInv, StepInv, Clean
<1>3. c \in Content
  BY DEF Extended, Content, TypeInv, TypeOK, VmgsState
<1>4. b \in Extent(F[x]) /\ x \in Pending /\ b \in Blocks
  BY SMTT(20), <1>1, <1>2, TableEntry DEF Pending, Extent, Fcb, Clean
<1>5. ~Protects(state.fcbs, wrote, b)
  BY <1>1, <1>4 DEF FileInv, StepInv
<1>6. pc' = "flush"
  BY <1>1, <1>2 DEF AfterFiles
<1> HIDE DEF F, b, c
<1>7. /\ DiskInv' /\ MemoryInv' /\ \A l \in Locations : l # b => disk'[l] = disk[l]
  BY <1>1, <1>3, <1>4, <1>5, <1>6, BlockWritten
<1>8. ASSUME NEW f \in Files, target[f] \in Values
      PROVE  Stored(disk', F[f], target[f])
  <2>1. Stored(disk, F[f], target[f])
    BY <1>1, <1>8 DEF FileInv, StepInv, F
  <2>2. b \notin Extent(F[f])
    BY <1>2, <1>4, TableEntry, NamesDiffer, Apart
  <2>3. Clean(F) /\ \A l \in Locations : l # b => disk'[l] = disk[l]
    BY <1>2, <1>7
  <2> QED
    BY <1>8, <2>1, <2>2, <2>3, StoredFrame
<1>9. disk'[F[FILE_TABLE].at] = Table(F)
  <2>1. F[FILE_TABLE].at # b /\ F[FILE_TABLE].at \in Locations
    BY SMTT(20), <1>2, <1>4, TableBlock, TableEntry, NamesDiffer, Apart, BlocksAreLocations
  <2> QED
    BY <1>1, <1>7, <2>1 DEF FileInv, StepInv, F
<1>10. StepInv'
  <2>1. /\ \A f \in Files : target[f] = Absent <=> F[f].len = 0
        /\ op.file \in Files => /\ target[op.file] = op.value /\ op.then = "done"
                                /\ F[op.file].len = Size[op.value]
        /\ temp.active = state.active /\ temp.sequence = state.sequence
    BY <1>1 DEF FileInv, StepInv, F
  <2>2. Pending' = {}
    BY <1>6 DEF Pending
  <2>3. op.file \in Files => op.value \in Values
    BY DEF TypeInv, OpInv
  <2> QED
    BY <1>1, <1>2, <1>6, <1>8, <1>9, <2>1, <2>2, <2>3 DEF StepInv, F
<1>11. FormatInv'
  BY <1>1, <1>2, <1>6 DEF FormatInv
<1> QED
  BY <1>1, <1>2, <1>6, <1>7, <1>10, <1>11 DEF FileInv, F

\* Writing a block while nothing is promised.
LEMMA FormatBlockKeeps ==
    ASSUME TypeInv, FileInv, ~intact, WriteFileTable \/ WriteData \/ WriteExtendedTable
    PROVE  FileInv'
<1>1. /\ pc \in {"table", "data", "extended"} /\ ~intact' /\ op'.kind = op.kind /\ op'.file = op.file
      /\ op'.ext = op.ext /\ UNCHANGED <<state, temp>>
  <2>1. op' = op \/ op' = [op EXCEPT !.part = op.part + 1]
    BY DEF WriteFileTable, WriteData, WriteExtendedTable
  <2>2. op \in Op
    BY DEF TypeInv, TypeOK
  <2>3. op'.kind = op.kind /\ op'.file = op.file /\ op'.ext = op.ext
    BY <2>1, <2>2 DEF Op
  <2>4. pc \in {"table", "data", "extended"} /\ ~intact' /\ UNCHANGED <<state, temp>>
    BY SMTT(20) DEF WriteFileTable, WriteData, WriteExtendedTable
  <2> QED
    BY <2>3, <2>4
<1>2. /\ pc' \in {"data", "extended", "flush", "format header"}
      /\ pc' = "format header" => op.kind = "format"
      /\ pc' = "extended" => op.ext
  BY DEF WriteFileTable, WriteData, WriteExtendedTable, AfterData, AfterFiles
<1>3. DiskInv' /\ MemoryInv' /\ StepInv'
  BY <1>1 DEF DiskInv, MemoryInv, StepInv
<1>4. ASSUME op.kind = "format"
      PROVE  FormatInv' /\ (op.ext => temp'.fcbs[EXTENDED_FILE_TABLE].len = 1)
  <2> DEFINE F == temp.fcbs
  <2>1. /\ pc \in {"table", "extended"} /\ op.file = NoFile /\ state.active = 1 /\ temp.active = 1
        /\ Clean(F) /\ (\A f \in Files : F[f].len = 0) /\ disk[1] = Zeroed
        /\ pc = "extended" => disk[F[FILE_TABLE].at] = Table(F) /\ op.ext
        /\ op.ext => F[EXTENDED_FILE_TABLE].len = 1
    BY <1>1, <1>4 DEF FileInv, FormatInv
  <2>2. disk \in [Locations -> Content]
    BY DEF TypeInv, TypeOK
  <2>3. F[FILE_TABLE].at \in Blocks
    BY <2>1, TableBlock
  <2>4. disk'[1] = Zeroed /\ disk'[F[FILE_TABLE].at] = Table(F)
    <3>1. CASE WriteFileTable
      <4>1. disk' = [disk EXCEPT ![F[FILE_TABLE].at] = Table(F)]
        BY <3>1 DEF WriteFileTable, WriteBlock
      <4> QED
        BY <2>1, <2>2, <2>3, <4>1, BlocksAreLocations, HeaderLocations
    <3>2. CASE WriteExtendedTable
      <4>1. /\ disk' = [disk EXCEPT ![F[EXTENDED_FILE_TABLE].at] = Extended(temp.meta)]
            /\ pc = "extended"
        BY <3>2 DEF WriteExtendedTable, WriteBlock
      <4>2. F[EXTENDED_FILE_TABLE] \in Fcb /\ F[EXTENDED_FILE_TABLE].len = 1
        BY <2>1, <4>1, TableEntry DEF Clean
      <4>3. F[EXTENDED_FILE_TABLE].at \in Extent(F[EXTENDED_FILE_TABLE])
        BY SMTT(20), <4>2 DEF Extent, Fcb
      <4>4. F[EXTENDED_FILE_TABLE].at \in Blocks /\ F[EXTENDED_FILE_TABLE].at # F[FILE_TABLE].at
        BY SMTT(20), <2>1, <4>3, TableBlock, TableEntry, NamesDiffer, Apart
      <4> QED
        BY <2>1, <2>2, <2>3, <4>1, <4>4, BlocksAreLocations, HeaderLocations
    <3>3. CASE WriteData
      BY <2>1, <3>3 DEF WriteData
    <3> QED
      BY <3>1, <3>2, <3>3
  <2>5. pc' \in {"extended", "format header"}
    <3>1. CASE WriteFileTable
      BY <1>4, <2>1, <3>1 DEF WriteFileTable, AfterData, AfterFiles
    <3>2. CASE WriteExtendedTable
      BY <1>4, <3>2 DEF WriteExtendedTable, AfterFiles
    <3>3. CASE WriteData
      BY <2>1, <3>3 DEF WriteData
    <3> QED
      BY <3>1, <3>2, <3>3
  <2> QED
    BY <1>1, <1>4, <2>1, <2>4, <2>5 DEF FormatInv
<1>5. op.kind # "format" => FormatInv'
  BY <1>1, <1>2 DEF FormatInv
<1> QED
  BY <1>1, <1>2, <1>3, <1>4, <1>5 DEF FileInv

LEMMA FlushKeeps ==
    ASSUME TypeInv, FileInv, Flush
    PROVE  FileInv'
<1>1. /\ pc = "flush" /\ pc' = "header" /\ stable' = disk /\ hardened' = wrote /\ exposed' = FALSE
      /\ UNCHANGED <<disk, op, state, temp, wrote, target, intact>>
  BY DEF Flush
<1>2. Active' = Active /\ Current' = Current
  BY <1>1 DEF Active, Current
<1>3. DiskInv'
  BY <1>1, <1>2 DEF FileInv, DiskInv
<1>4. MemoryInv'
  BY <1>1, SameMemory DEF FileInv
<1>5. StepInv'
  <2>1. Pending' = {}
    BY <1>1 DEF Pending
  <2> QED
    BY <1>1, <2>1 DEF FileInv, StepInv
<1>6. FormatInv'
  BY <1>1 DEF FileInv, FormatInv
<1> QED
  BY <1>1, <1>3, <1>4, <1>5, <1>6 DEF FileInv

\* Continue leaves the layout alone.
LEMMA ContinueLayout ==
    ASSUME TypeInv, NEW s \in VmgsState, Continue(s)
    PROVE  /\ temp'.fcbs = s.fcbs /\ temp'.active = s.active /\ temp'.sequence = s.sequence
           /\ \/ pc' = "idle" /\ op' = NoOp
              \/ pc' = "flush" /\ op.then # "done" /\ op'.file = op.file /\ op'.kind = op.kind
<1>1. op \in Op
  BY DEF TypeInv, TypeOK
<1>2. CASE op.then = "add"
  <2>1. /\ temp' = encrypt_metadata_key(WithKey(s, op.key))
        /\ op' = [op EXCEPT !.then = "remove"] /\ pc' = "flush"
    BY <1>2 DEF Continue
  <2>2. WithKey(s, op.key) \in VmgsState
    BY <1>2, WithKeyType DEF TypeInv, OpInv
  <2> QED
    BY SMTT(20), <1>1, <1>2, <2>1, <2>2, WithKeyLayout, EncryptLayout DEF Op
<1>3. CASE op.then = "remove"
  <2>1. temp' = WithoutKey(s, op.index) /\ op' = [op EXCEPT !.then = "done"] /\ pc' = "flush"
    BY <1>3 DEF Continue
  <2> QED
    BY <1>1, <1>3, <2>1, WithoutKeyLayout DEF Op
<1>4. CASE op.then = "mark"
  <2>1. /\ temp' = [s EXCEPT !.reprovisioned = TRUE]
        /\ op' = [op EXCEPT !.then = "done"] /\ pc' = "flush"
    BY <1>4 DEF Continue
  <2> QED
    BY <1>1, <1>4, <2>1 DEF Op, VmgsState
<1>5. CASE op.then = "done"
  BY <1>5 DEF Continue
<1> QED
  BY <1>1, <1>2, <1>3, <1>4, <1>5 DEF Op

\* The header that is written is not the one it replaces: it is two turns later.
LEMMA HeaderIsNew ==
    ASSUME TypeInv, FileInv, intact, pc = "header"
    PROVE  make_header(Turned(temp)) # disk[1 - Active]
<1> DEFINE q == disk[1 - Active].sequence
           h == make_header(Turned(temp))
<1>1. /\ Active \in {0, 1} /\ HeaderAt(disk, Active, Current)
      /\ disk[Active] = make_header(state) /\ temp.sequence = state.sequence
  BY DEF FileInv, DiskInv, MemoryInv, StepInv, Good
<1>2. h.kind = "header" /\ h.sequence = Successor(disk[Active].sequence)
  BY SMTT(20), <1>1 DEF make_header, Turned, TypeInv, TypeOK, VmgsState
<1>3. CASE disk[1 - Active].kind # "header"
  BY <1>2, <1>3
<1>4. CASE disk[1 - Active].kind = "header"
  <2>1. 1 - Active \in Locations
    BY SMTT(20), <1>1, HeaderLocations
  <2>2. disk[1 - Active] \in Header
    BY SMTT(20), <1>4, <2>1 DEF TypeInv, TypeOK, Content, Zeroed, Torn
  <2>3. q \in 0 .. SeqWrap - 1
    BY <2>2 DEF Header
  <2>4. Successor(Successor(q)) # q
    BY SMTT(20), <2>3, SeqAssumption DEF Successor
  <2>5. disk[Active].sequence = Successor(q)
    BY <1>1, <1>4 DEF HeaderAt
  <2> QED
    BY <1>2, <2>4, <2>5
<1> QED
  BY <1>3, <1>4

\* The commit.
LEMMA HeaderKeeps ==
    ASSUME TypeInv, FileInv, intact, WriteHeader
    PROVE  FileInv'
<1> DEFINE s == Turned(temp)
           a == Active
           F == temp.fcbs
           h == make_header(s)
<1>1. /\ pc = "header" /\ disk' = [disk EXCEPT ![s.active] = h] /\ state' = s /\ Continue(s)
      /\ wrote' = target /\ target' = target /\ UNCHANGED <<stable, hardened, intact, exposed>>
  BY DEF WriteHeader
<1>2. /\ a \in {0, 1} /\ Good(disk, a, Current, wrote) /\ disk[a] = make_header(state)
      /\ stable = disk /\ hardened = wrote /\ temp.active = a /\ temp.sequence = state.sequence
      /\ temp \in VmgsState /\ disk \in [Locations -> Content]
  BY <1>1 DEF FileInv, DiskInv, MemoryInv, StepInv, TypeInv, TypeOK
<1>3. /\ s.active = 1 - a /\ s.fcbs = F /\ s.sequence = Successor(temp.sequence)
  BY <1>2 DEF Turned, VmgsState
<1>4. s \in VmgsState /\ h \in Content /\ h.kind = "header" /\ h.table = F[FILE_TABLE].at
      /\ h.sequence = Successor(temp.sequence)
  BY <1>2, <1>3, TurnedType, HeaderType DEF make_header
<1>5. h # disk[1 - a]
  BY <1>1, HeaderIsNew
<1>6. FilesAt(disk, F, target)
  <2>1. op.file \in Files => op.value \in Values
    BY DEF TypeInv, OpInv
  <2> QED
    BY <1>1, <2>1 DEF FileInv, StepInv, FilesAt
<1>7. disk[a].sequence = temp.sequence
  BY SMTT(20), <1>2 DEF make_header
<1> HIDE DEF s, a, F, h
<1>8. /\ disk'[1 - a] = h /\ disk'[a] = disk[a] /\ disk' \in [Locations -> Content]
      /\ \A l \in Locations : l # 1 - a => disk'[l] = disk[l]
      /\ a # 1 - a /\ 1 - (1 - a) = a /\ 1 - a \in {0, 1}
  BY SMTT(20), <1>1, <1>2, <1>3, <1>4, HeaderLocations
<1>9. Good(disk', 1 - a, F, target)
  <2>1. HeaderAt(disk', 1 - a, F)
    BY <1>4, <1>7, <1>8 DEF HeaderAt
  <2>2. \A b \in Blocks : disk'[b] = disk[b]
    BY <1>8, BlocksAreLocations
  <2>3. FilesAt(disk', F, target)
    BY <1>6, <2>2, FilesFrame
  <2> QED
    BY <2>1, <2>3 DEF Good
<1>10. Active' = 1 - a /\ Current' = F
  <2>1. get_active_header(disk') = 1 - a /\ disk'[disk'[1 - a].table].fcbs = F
    BY SMTT(20), <1>8, <1>9, GoodHolds
  <2> QED
    BY <2>1 DEF Active, Current
<1>11. DiskInv'
  <2>1. Good(stable, a, stable[stable[a].table].fcbs, hardened)
    BY SMTT(20), <1>2, GoodHolds
  <2>2. disk'[1 - a] # stable[1 - a] /\ \A l \in Locations : l # 1 - a => disk'[l] = stable[l]
    BY <1>2, <1>5, <1>8
  <2> QED
    BY <1>1, <1>8, <1>9, <1>10, <2>1, <2>2 DEF DiskInv
<1>12. MemoryInv'
  BY <1>1, <1>3, <1>8, <1>10 DEF MemoryInv, h
<1>13. /\ temp'.fcbs = F /\ temp'.active = state'.active /\ temp'.sequence = state'.sequence
       /\ \/ pc' = "idle" /\ op' = NoOp
          \/ pc' = "flush" /\ op.then # "done" /\ op'.file = op.file /\ op'.kind = op.kind
  BY <1>1, <1>3, <1>4, ContinueLayout
<1>14. StepInv'
  <2>1. CASE pc' = "flush"
    <3>1. op'.file \notin Files
      BY <1>1, <1>13, <2>1 DEF FileInv, StepInv
    <3>2. FilesAt(disk', temp'.fcbs, target')
      BY <1>1, <1>9, <1>13 DEF Good
    <3> QED
      BY <1>13, <2>1, <3>1, <3>2, AtFlush
  <2>2. CASE pc' = "idle"
    BY <2>2 DEF StepInv
  <2> QED
    BY <1>13, <2>1, <2>2
<1>15. FormatInv'
  BY <1>1, <1>13 DEF FormatInv
<1> QED
  BY <1>1, <1>11, <1>12, <1>13, <1>14, <1>15 DEF FileInv

LEMMA FormatStepKeeps ==
    ASSUME TypeInv, FileInv, ~intact, WriteHeader \/ ZeroHeader \/ WriteFormatHeader
    PROVE  FileInv'
<1>1. ~intact'
  BY DEF WriteHeader, ZeroHeader, WriteFormatHeader
<1>2. DiskInv' /\ MemoryInv' /\ StepInv'
  BY <1>1 DEF DiskInv, MemoryInv, StepInv
<1>3. disk \in [Locations -> Content] /\ temp \in VmgsState
  BY DEF TypeInv, TypeOK
<1>4. CASE WriteHeader
  <2>1. /\ pc = "header" /\ Continue(Turned(temp)) /\ wrote' = target /\ target' = target
    BY <1>4 DEF WriteHeader
  <2>2. op.kind # "format"
    BY <2>1 DEF FileInv, FormatInv
  <2>3. /\ pc' \in {"idle", "flush"} /\ op'.kind # "format"
    BY SMTT(20), <1>3, <2>1, <2>2, TurnedType, ContinueLayout DEF NoOp
  <2>4. FormatInv'
    BY <2>3 DEF FormatInv
  <2> QED
    BY <1>1, <1>2, <2>1, <2>3, <2>4 DEF FileInv
<1>5. CASE ZeroHeader
  <2>1. /\ pc = "zero" /\ disk' = [disk EXCEPT ![state.active] = Zeroed] /\ pc' = "table"
        /\ UNCHANGED <<op, state, temp, intact>>
    BY <1>5 DEF ZeroHeader
  <2>2. op.kind = "format" /\ state.active = 1
    BY <2>1 DEF FileInv, FormatInv
  <2>3. disk'[1] = Zeroed
    BY <1>3, <2>1, <2>2, HeaderLocations
  <2>4. FormatInv'
    BY <2>1, <2>2, <2>3 DEF FileInv, FormatInv
  <2> QED
    BY <1>1, <1>2, <2>1, <2>2, <2>4 DEF FileInv
<1>6. CASE WriteFormatHeader
  <2> DEFINE s == Turned(temp)
             F == temp.fcbs
  <2>1. /\ pc = "format header" /\ disk' = [disk EXCEPT ![s.active] = make_header(s)]
        /\ temp' = s /\ pc' = "format flush" /\ UNCHANGED <<op, state, intact>>
    BY <1>6 DEF WriteFormatHeader
  <2>2. /\ op.kind = "format" /\ temp.active = 1 /\ op.file = NoFile /\ state.active = 1
        /\ Clean(F) /\ (\A f \in Files : F[f].len = 0)
        /\ disk[1] = Zeroed /\ disk[F[FILE_TABLE].at] = Table(F)
    BY <2>1 DEF FileInv, FormatInv
  <2>3. s.active = 0 /\ s.fcbs = F
    BY SMTT(20), <1>3, <2>2 DEF Turned, VmgsState
  <2>4. F[FILE_TABLE].at \in Blocks
    BY <2>2, TableBlock
  <2> HIDE DEF s, F
  <2>5. disk'[0] = make_header(s) /\ disk'[1] = disk[1] /\ disk'[F[FILE_TABLE].at] = Table(F)
    <3>1. disk' = [disk EXCEPT ![0] = make_header(s)]
      BY <2>1, <2>3
    <3>2. F[FILE_TABLE].at \in Locations /\ F[FILE_TABLE].at # 0
      BY <2>4, BlocksAreLocations
    <3> QED
      BY SMTT(20), <1>3, <2>2, <3>1, <3>2, HeaderLocations
  <2>6. FormatInv'
    BY <2>1, <2>2, <2>3, <2>5 DEF FormatInv
  <2> QED
    BY <1>1, <1>2, <2>1, <2>6 DEF FileInv
<1> QED
  BY <1>4, <1>5, <1>6

LEMMA FlushFormatKeeps ==
    ASSUME TypeInv, FileInv, FlushFormat
    PROVE  FileInv'
<1> DEFINE F == temp.fcbs
<1>1. /\ pc = "format flush" /\ stable' = disk /\ disk' = disk /\ state' = temp /\ Continue(temp)
      /\ wrote' = [f \in Files |-> Absent] /\ target' = wrote' /\ hardened' = wrote'
      /\ intact' /\ ~exposed'
  BY DEF FlushFormat
<1>2. /\ op.kind = "format" /\ op.file = NoFile /\ temp.active = 0 /\ disk[0] = make_header(temp)
      /\ Clean(F) /\ (\A f \in Files : F[f].len = 0)
      /\ disk[1] = Zeroed /\ disk[F[FILE_TABLE].at] = Table(F)
  BY <1>1 DEF FileInv, FormatInv
<1>3. disk \in [Locations -> Content] /\ temp \in VmgsState
  BY DEF TypeInv, TypeOK
<1> HIDE DEF F
<1>4. Good(disk, 0, F, wrote')
  <2>1. HeaderAt(disk, 0, F)
    BY SMTT(20), <1>2 DEF HeaderAt, make_header, Zeroed, F
  <2>2. FilesAt(disk, F, wrote')
    BY <1>1, <1>2, NamesAssumption DEF FilesAt
  <2> QED
    BY <2>1, <2>2 DEF Good
<1>5. Active' = 0 /\ Current' = F
  <2>1. get_active_header(disk) = 0 /\ disk[disk[0].table].fcbs = F
    BY <1>3, <1>4, GoodHolds
  <2> QED
    BY <1>1, <2>1 DEF Active, Current
<1>6. DiskInv'
  BY <1>1, <1>4, <1>5 DEF DiskInv
<1>7. MemoryInv'
  BY <1>1, <1>2, <1>5 DEF MemoryInv, F
<1>8. /\ temp'.fcbs = F /\ temp'.active = temp.active /\ temp'.sequence = temp.sequence
      /\ \/ pc' = "idle" /\ op' = NoOp
         \/ pc' = "flush" /\ op'.file = op.file /\ op'.kind = op.kind
  BY <1>1, <1>3, ContinueLayout DEF F
<1>9. StepInv'
  <2>1. CASE pc' = "flush"
    BY <1>1, <1>2, <1>4, <1>8, <2>1, AtFlush, NamesDiffer DEF Good
  <2>2. CASE pc' = "idle"
    BY <2>2 DEF StepInv
  <2> QED
    BY <1>8, <2>1, <2>2
<1>10. FormatInv'
  BY <1>1, <1>8 DEF FormatInv
<1> QED
  BY <1>1, <1>6, <1>7, <1>8, <1>9, <1>10 DEF FileInv

-----------------------------------------------------------------------------
(* Faults *)

\* A request fails or the process ends: at most the header slot that is not in use is torn.
LEMMA InterruptedDisk ==
    ASSUME TypeInv, FileInv, intact, pc # "closed", Interrupted
    PROVE  /\ disk'[Active] = disk[Active] /\ (\A b \in Blocks : disk'[b] = disk[b])
           /\ Good(disk', Active, Current, wrote) /\ Active' = Active /\ Current' = Current
           /\ disk[Active] # stable[Active] => disk' = disk
<1>1. /\ Active \in {0, 1} /\ Good(disk, Active, Current, wrote) /\ state.active = Active
      /\ disk \in [Locations -> Content]
  BY DEF FileInv, DiskInv, MemoryInv, TypeInv, TypeOK
<1>2. \/ disk' = disk
      \/ pc = "header" /\ disk' = [disk EXCEPT ![1 - Active] = Torn]
  <2>1. pc \notin {"zero", "format header"}
    BY DEF FileInv, FormatInv
  <2>2. pc = "header" => temp.active = Active
    BY <1>1 DEF FileInv, StepInv
  <2> QED
    BY <2>1, <2>2 DEF Interrupted, WritingHeader
<1>3. /\ disk'[Active] = disk[Active] /\ disk' \in [Locations -> Content]
      /\ \A b \in Blocks : disk'[b] = disk[b]
      /\ disk'[1 - Active] = disk[1 - Active] \/ disk'[1 - Active].kind # "header"
  <2>1. CASE disk' = disk
    BY <1>1, <2>1
  <2>2. CASE disk' = [disk EXCEPT ![1 - Active] = Torn]
    <3>1. Torn \in Content /\ Torn.kind # "header"
      BY DEF Torn, Content
    <3> HIDE DEF Torn
    <3> QED
      BY SMTT(20), <1>1, <2>2, <3>1, HeaderLocations, BlocksAreLocations
  <2> QED
    BY <1>2, <2>1, <2>2
<1>4. Good(disk', Active, Current, wrote)
  BY <1>1, <1>3, GoodFrame
<1>5. get_active_header(disk') = Active /\ disk'[disk'[Active].table].fcbs = Current
  BY SMTT(20), <1>1, <1>3, <1>4, GoodHolds
<1>6. Active' = Active /\ Current' = Current
  BY <1>5 DEF Active, Current
<1>7. disk[Active] # stable[Active] => disk' = disk
  BY <1>2 DEF FileInv, StepInv
<1> QED
  BY <1>3, <1>4, <1>6, <1>7

LEMMA InterruptedKeeps ==
    ASSUME TypeInv, FileInv, DiskError \/ Crash
    PROVE  FileInv'
<1>1. /\ Interrupted /\ pc' \in {"closed", "idle"} /\ op' = NoOp /\ target' = wrote
      /\ pc # "closed" /\ (pc' # "closed" => state' = state)
      /\ UNCHANGED <<stable, wrote, hardened, intact, exposed>>
  BY DEF DiskError, Crash, Close
<1>2. StepInv' /\ FormatInv'
  BY <1>1 DEF StepInv, FormatInv, NoOp
<1>3. CASE ~intact
  <2>1. DiskInv' /\ MemoryInv'
    BY <1>1, <1>3 DEF DiskInv, MemoryInv
  <2> QED
    BY <1>1, <1>2, <2>1 DEF FileInv, NoOp
<1>4. CASE intact
  <2>1. /\ disk'[Active] = disk[Active]
        /\ Good(disk', Active, Current, wrote) /\ Active' = Active /\ Current' = Current
        /\ disk[Active] # stable[Active] => disk' = disk
    BY <1>1, <1>4, InterruptedDisk
  <2>2. DiskInv'
    <3>1. CASE disk' = disk
      BY <1>1, <2>1, <3>1 DEF FileInv, DiskInv
    <3>2. CASE disk[Active] = stable[Active]
      BY <1>1, <1>4, <2>1, <3>2 DEF FileInv, DiskInv
    <3> QED
      BY <2>1, <3>1, <3>2
  <2>3. MemoryInv'
    BY <1>1, <1>4, <2>1 DEF FileInv, MemoryInv
  <2> QED
    BY <1>1, <1>2, <2>2, <2>3 DEF FileInv
<1> QED
  BY <1>3, <1>4

LEMMA SameFiles ==
    ASSUME NEW d, NEW e, NEW fcbs, NEW w, FilesAt(d, fcbs, w), FilesAt(e, fcbs, w), NEW b \in Blocks,
           Protects(fcbs, w, b)
    PROVE  d[b] = e[b]
<1>1. Clean(fcbs)
  BY DEF FilesAt
<1>2. CASE b \in Extent(fcbs[FILE_TABLE])
  <2>1. fcbs[FILE_TABLE] \in Fcb /\ fcbs[FILE_TABLE].len = 1
    BY <1>1, TableEntry DEF Clean
  <2>2. b = fcbs[FILE_TABLE].at
    BY SMTT(20), <1>2, <2>1 DEF Extent, Fcb
  <2> QED
    BY <2>2 DEF FilesAt
<1>3. ASSUME NEW f \in Files, w[f] \in Values, b \in Extent(fcbs[f])
      PROVE  d[b] = e[b]
  <2>1. fcbs[f] \in Fcb /\ Size[w[f]] \in Nat
    BY <1>1, <1>3, TableEntry, SizeAssumption DEF Clean
  <2>2. Stored(d, fcbs[f], w[f]) /\ Stored(e, fcbs[f], w[f])
    BY <1>3 DEF FilesAt
  <2>3. b - fcbs[f].at \in 0 .. Size[w[f]] - 1 /\ b = fcbs[f].at + (b - fcbs[f].at)
    BY SMTT(20), <1>3, <2>1, <2>2 DEF Extent, Fcb, Stored
  <2> QED
    BY <2>2, <2>3 DEF Stored
<1> QED
  BY <1>2, <1>3 DEF Protects

\* The header that is current once the writes to lost and torn are gone, and its table.
Survivor(lost, torn) == IF Active \in lost \cup torn THEN 1 - Active ELSE Active

SurvivingTable(lost, torn) ==
    IF Active \in lost \cup torn THEN stable[stable[1 - Active].table].fcbs ELSE Current

\* Any of the writes since the last flush may be lost, and headers torn.
LEMMA AfterLoss ==
    ASSUME TypeInv, FileInv, intact, ~exposed, NEW lost \in SUBSET Dirty,
           NEW torn \in SUBSET (Dirty \cap {0, 1})
    PROVE  LET d == AfterPowerLoss(lost, torn)
               i == Survivor(lost, torn)
           IN /\ i \in {0, 1}
              /\ Good(d, i, SurvivingTable(lost, torn),
                      IF Active \in lost \cup torn THEN hardened ELSE wrote)
              /\ d[i] = IF Active \in lost \cup torn THEN stable[i] ELSE disk[i]
<1> DEFINE d == AfterPowerLoss(lost, torn)
           w == IF Active \in lost \cup torn THEN hardened ELSE wrote
           a == Active
           i == Survivor(lost, torn)
           F == SurvivingTable(lost, torn)
<1> SUFFICES i \in {0, 1} /\ Good(d, i, F, w) /\ d[i] = IF a \in lost \cup torn THEN stable[i] ELSE disk[i]
  OBVIOUS
<1>1. /\ a \in {0, 1} /\ Good(disk, a, Current, wrote)
      /\ disk[a] = stable[a] => Good(stable, a, Current, wrote)
      /\ disk[a] # stable[a] =>
           /\ \A l \in Locations : l # a => disk[l] = stable[l]
           /\ Good(stable, 1 - a, stable[stable[1 - a].table].fcbs, hardened)
  BY DEF FileInv, DiskInv
<1>2. /\ \A l \in Locations : d[l] = IF l \in torn THEN Torn ELSE IF l \in lost THEN stable[l] ELSE disk[l]
      /\ \A l \in Locations : disk[l] = stable[l] => d[l] = disk[l]
      /\ \A l \in Blocks : l \notin torn
  BY BlocksAreLocations DEF AfterPowerLoss, Dirty
<1>3. a \in Locations /\ 1 - a \in Locations /\ Torn.kind # "header" /\ 1 - (1 - a) = a
  BY SMTT(20), <1>1, HeaderLocations DEF Torn
<1> HIDE DEF d, a, w, i, F
<1>4. CASE disk[a] = stable[a]
  <2>1. w = wrote /\ i = a /\ F = Current /\ a \notin lost \cup torn
    BY <1>4 DEF Dirty, a, i, F, w, Survivor, SurvivingTable
  <2>2. d[a] = disk[a] /\ d[a] = stable[a]
    BY <1>2, <1>3, <1>4
  <2>3. ASSUME NEW b \in Blocks, Protects(Current, wrote, b)
        PROVE  d[b] = disk[b] /\ d[b] = stable[b]
    <3>1. disk[b] = stable[b]
      BY SMTT(20), <1>1, <1>4, <2>3, SameFiles DEF Good
    <3> QED
      BY <1>2, <3>1, BlocksAreLocations
  <2>4. CASE d[1 - a] = stable[1 - a]
    <3>1. /\ Good(stable, a, Current, wrote) /\ a \in {0, 1} /\ d[a] = stable[a]
          /\ \A b \in Blocks : Protects(Current, wrote, b) => d[b] = stable[b]
      BY <1>1, <1>4, <2>2, <2>3
    <3>2. Good(d, a, Current, wrote)
      BY <2>4, <3>1, GoodFrame
    <3> QED
      BY <2>1, <2>2, <3>1, <3>2
  <2>5. CASE d[1 - a] # stable[1 - a]
    <3>1. d[1 - a] = disk[1 - a] \/ d[1 - a].kind # "header"
      BY <1>2, <1>3, <2>5
    <3>2. Good(disk, a, Current, wrote) /\ a \in {0, 1} /\ d[a] = disk[a]
      BY <1>1, <2>2
    <3>3. \A b \in Blocks : Protects(Current, wrote, b) => d[b] = disk[b]
      BY <2>3
    <3>4. Good(d, a, Current, wrote)
      BY <3>1, <3>2, <3>3, GoodFrame
    <3> QED
      BY <2>1, <3>2, <3>4
  <2> QED
    BY <2>4, <2>5
<1>5. CASE disk[a] # stable[a]
  <2>1. \A l \in Locations : l # a => d[l] = disk[l] /\ d[l] = stable[l]
    BY <1>1, <1>2, <1>5
  <2>2. \A b \in Blocks : d[b] = disk[b] /\ d[b] = stable[b]
    BY <1>1, <2>1, BlocksAreLocations
  <2>3. d[1 - a] = disk[1 - a] /\ d[1 - a] = stable[1 - a]
    BY SMTT(20), <1>1, <1>3, <2>1
  <2>4. CASE a \in lost \cup torn
    <3>1. d[a] = stable[a] \/ d[a].kind # "header"
      BY <1>2, <1>3, <2>4
    <3>2. 1 - a \in {0, 1} /\ w = hardened /\ i = 1 - a /\ F = stable[stable[1 - a].table].fcbs
      BY SMTT(20), <1>1, <2>4 DEF a, i, F, w, Survivor, SurvivingTable
    <3>3. Good(d, 1 - a, stable[stable[1 - a].table].fcbs, hardened)
      <4> DEFINE c == 1 - a
                 G == stable[stable[c].table].fcbs
      <4>1. /\ Good(stable, c, G, hardened) /\ c \in {0, 1} /\ d[c] = stable[c]
            /\ d[1 - c] = stable[1 - c] \/ d[1 - c].kind # "header"
        BY <1>1, <1>3, <1>5, <2>3, <3>1, <3>2
      <4>2. \A b \in Blocks : Protects(G, hardened, b) => d[b] = stable[b]
        BY <2>2
      <4> HIDE DEF c, G
      <4>3. Good(d, c, G, hardened)
        BY <4>1, <4>2, GoodFrame, ZenonT(40)
      <4> QED
        BY <4>3 DEF c, G
    <3> QED
      BY <2>3, <2>4, <3>2, <3>3
  <2>5. CASE a \notin lost \cup torn
    <3>1. d[a] = disk[a] /\ w = wrote /\ i = a /\ F = Current
      BY <1>2, <1>3, <2>5 DEF a, i, F, w, Survivor, SurvivingTable
    <3>2. Good(disk, a, Current, wrote) /\ a \in {0, 1}
      BY <1>1
    <3>3. \A b \in Blocks : Protects(Current, wrote, b) => d[b] = disk[b]
      BY <2>2
    <3>4. Good(d, a, Current, wrote)
      BY <2>3, <3>1, <3>2, <3>3, GoodFrame
    <3> QED
      BY <2>5, <3>1, <3>2, <3>4
  <2> QED
    BY <2>4, <2>5
<1> QED
  BY <1>4, <1>5

LEMMA PowerLossKeeps ==
    ASSUME TypeInv, TypeInv', FileInv, PowerLoss
    PROVE  FileInv'
<1>1. PICK lost \in SUBSET Dirty, torn \in SUBSET (Dirty \cap {0, 1}) :
          /\ disk' = AfterPowerLoss(lost, torn) /\ stable' = disk'
          /\ wrote' = IF Active \in lost \cup torn THEN hardened ELSE wrote
          /\ target' = wrote' /\ hardened' = wrote' /\ intact' = (intact /\ ~exposed)
          /\ pc' = "closed" /\ op' = NoOp
  BY DEF PowerLoss, Close, Active
<1>2. MemoryInv' /\ StepInv' /\ FormatInv'
  BY <1>1 DEF MemoryInv, StepInv, FormatInv, NoOp
<1>3. ASSUME intact, ~exposed
      PROVE  DiskInv'
  <2> DEFINE i == Survivor(lost, torn)
             F == SurvivingTable(lost, torn)
  <2>1. i \in {0, 1} /\ Good(disk', i, F, wrote')
    BY <1>1, <1>3, AfterLoss
  <2> HIDE DEF i, F
  <2>2. Active' = i /\ Current' = F
    <3>1. disk' \in [Locations -> Content]
      BY DEF TypeInv, TypeOK
    <3>2. get_active_header(disk') = i /\ disk'[disk'[i].table].fcbs = F
      BY SMTT(20), <2>1, <3>1, GoodHolds
    <3> QED
      BY <3>2 DEF Active, Current
  <2> QED
    BY <1>1, <2>1, <2>2 DEF DiskInv
<1>4. ~intact' => DiskInv'
  BY DEF DiskInv
<1>5. DiskInv'
  BY <1>1, <1>3, <1>4
<1> QED
  BY <1>1, <1>2, <1>5 DEF FileInv, NoOp

-----------------------------------------------------------------------------
(* Theorems *)

LEMMA InitFiles == Init => FileInv
<1> SUFFICES ASSUME Init
             PROVE  FileInv
  OBVIOUS
<1>1. ~intact /\ pc = "closed" /\ target = wrote /\ op.kind = "none"
  BY DEF Init, NoOp
<1>2. DiskInv /\ MemoryInv /\ StepInv /\ FormatInv
  BY <1>1 DEF DiskInv, MemoryInv, StepInv, FormatInv
<1> QED
  BY <1>1, <1>2 DEF FileInv

LEMMA DiskRequestKeeps ==
    ASSUME TypeInv, FileInv, DiskRequest
    PROVE  FileInv'
<1>1. CASE WriteFileTable
  BY <1>1, FileTableKeeps, FormatBlockKeeps
<1>2. CASE WriteData
  BY <1>2, DataKeeps, FormatBlockKeeps
<1>3. CASE WriteExtendedTable
  BY <1>3, ExtendedKeeps, FormatBlockKeeps
<1>4. CASE Flush
  BY <1>4, FlushKeeps
<1>5. CASE WriteHeader
  BY <1>5, HeaderKeeps, FormatStepKeeps
<1>6. CASE ZeroHeader \/ WriteFormatHeader
  <2>1. ~intact
    BY <1>6 DEF ZeroHeader, WriteFormatHeader, FileInv, FormatInv
  <2> QED
    BY <1>6, <2>1, FormatStepKeeps
<1>7. CASE FlushFormat
  BY <1>7, FlushFormatKeeps
<1> QED
  BY <1>1, <1>2, <1>3, <1>4, <1>5, <1>6, <1>7 DEF DiskRequest

LEMMA NextFiles == TypeInv /\ TypeInv' /\ FileInv /\ [Next]_vars => FileInv'
<1> SUFFICES ASSUME TypeInv, TypeInv', FileInv, [Next]_vars PROVE FileInv'
  OBVIOUS
<1>1. CASE Request
  <2>1. ASSUME NEW f \in Files, NEW v \in Values, write_file(f, v) PROVE FileInv'
    BY <2>1, WriteFileKeeps
  <2>2. ASSUME NEW f \in Files, NEW d \in Files, NEW a \in BOOLEAN, move_file(f, d, a) PROVE FileInv'
    BY <2>2, MoveFileKeeps
  <2>3. ASSUME NEW f \in Files, delete_file(f) PROVE FileInv'
    BY <2>3, DeleteFileKeeps
  <2>4. ASSUME NEW k \in Keys, update_encryption_key(k) PROVE FileInv'
    BY <2>4, UpdateKeyKeeps
  <2>5. ASSUME format_new PROVE FileInv'
    BY <2>5, FormatKeeps DEF format_new
  <2>6. ASSUME request_format PROVE FileInv'
    BY <2>6, RequestFormatKeeps
  <2> QED
    BY <1>1, <2>1, <2>2, <2>3, <2>4, <2>5, <2>6 DEF Request
<1>2. CASE Access
  BY <1>2, OpenKeeps, UnlockKeeps DEF Access
<1>3. CASE DiskRequest
  BY <1>3, DiskRequestKeeps
<1>4. CASE Fault
  BY <1>4, InterruptedKeeps, PowerLossKeeps DEF Fault
<1>5. CASE UNCHANGED vars
  <2>1. Active' = Active /\ Current' = Current /\ Pending' = Pending
    BY <1>5 DEF vars, Active, Current, Pending
  <2>2. DiskInv' /\ MemoryInv'
    BY <1>5, <2>1 DEF vars, FileInv, DiskInv, MemoryInv
  <2>3. StepInv' /\ FormatInv'
    BY <1>5, <2>1 DEF vars, FileInv, StepInv, FormatInv
  <2> QED
    BY <1>5, <2>2, <2>3 DEF vars, FileInv
<1> QED
  BY <1>1, <1>2, <1>3, <1>4, <1>5 DEF Next

LEMMA FilesHold == Spec => [](TypeInv /\ FileInv)
<1>1. Init => FileInv
  BY InitFiles
<1>2. TypeInv /\ TypeInv' /\ FileInv /\ [Next]_vars => FileInv'
  BY NextFiles
<1> QED
  BY <1>1, <1>2, TypesHold, PTL DEF Spec

\* Whenever the process ends, the disk opens and has the files of the last commit, for
\* every number of files, sizes of values, capacity and wrap of the sequence numbers.
THEOREM CrashSafety == Spec => []CrashKeepsFiles
<1>1. TypeInv /\ FileInv => CrashKeepsFiles
  <2> SUFFICES ASSUME TypeInv, FileInv, intact PROVE Holds(disk, wrote)
    BY DEF CrashKeepsFiles
  <2>1. Active \in {0, 1} /\ Good(disk, Active, Current, wrote) /\ disk \in [Locations -> Content]
    BY DEF FileInv, DiskInv, TypeInv, TypeOK
  <2> QED
    BY <2>1, GoodHolds
<1> QED
  BY <1>1, FilesHold, PTL

\* A power loss takes any of the writes since the last flush and tears headers; the disk
\* then opens with the files of the current header or with those of the last flush,
\* outside the time in which blocks were written under an unflushed header.
THEOREM PowerLossSafety == Spec => []PowerLossKeepsFiles
<1>1. TypeInv /\ FileInv => PowerLossKeepsFiles
  <2> SUFFICES ASSUME TypeInv, FileInv, intact, ~exposed, NEW lost \in SUBSET Dirty,
                      NEW torn \in SUBSET (Dirty \cap {0, 1})
               PROVE  \/ Holds(AfterPowerLoss(lost, torn), wrote)
                      \/ Holds(AfterPowerLoss(lost, torn), hardened)
    BY DEF PowerLossKeepsFiles
  <2> DEFINE d == AfterPowerLoss(lost, torn)
             w == IF Active \in lost \cup torn THEN hardened ELSE wrote
  <2>1. PICK i, F : i \in {0, 1} /\ Good(d, i, F, w)
    BY SMTT(20), AfterLoss
  <2>2. d \in [Locations -> Content]
    BY DEF AfterPowerLoss, TypeInv, TypeOK, Content
  <2> HIDE DEF d
  <2>3. Holds(d, w)
    BY <2>1, <2>2, GoodHolds
  <2> QED
    BY <2>3 DEF d
<1> QED
  BY <1>1, FilesHold, PTL

\* An open store has the layout of its disk in memory, and its entries never overlap.
THEOREM MemoryAgrees == Spec => []MemoryFollowsDisk
<1>1. TypeInv /\ FileInv => MemoryFollowsDisk
  <2> SUFFICES ASSUME TypeInv, FileInv, intact, pc # "closed"
               PROVE  /\ get_active_header(disk) = state.active
                      /\ disk[state.active] = make_header(state)
                      /\ disk[disk[state.active].table] = Table(state.fcbs)
                      /\ ~Overlap(state.fcbs)
    BY DEF MemoryFollowsDisk
  <2>1. /\ Active \in {0, 1} /\ Good(disk, Active, Current, wrote) /\ disk \in [Locations -> Content]
        /\ state.active = Active /\ state.fcbs = Current /\ disk[Active] = make_header(state)
    BY DEF FileInv, DiskInv, MemoryInv, TypeInv, TypeOK
  <2>2. disk[Active].table = Current[FILE_TABLE].at
    BY <2>1 DEF Good, HeaderAt
  <2>3. disk[Current[FILE_TABLE].at] = Table(Current) /\ ~Overlap(Current)
    BY <2>1 DEF Good, FilesAt, Clean
  <2> QED
    BY <2>1, <2>2, <2>3 DEF Active
<1> QED
  BY <1>1, FilesHold, PTL

-----------------------------------------------------------------------------
(* The marker of a format *)

NoFiles(w) == \A f \in Files : w[f] = Absent

\* Since a boot that asked for a format the marker is in the current header, in the one
\* that a power loss goes back to and in every state that may become a header, unless
\* there is no file to lose.  Only a format sets the marker.
RequestInv ==
    /\ intact /\ requested =>
         /\ disk[Active].reprovisioned \/ NoFiles(wrote)
         /\ pc # "closed" => state.reprovisioned /\ temp.reprovisioned
    /\ intact /\ ~exposed /\ disk[Active] # stable[Active] /\ (requested \/ disk[Active].reprovisioned) =>
             stable[1 - Active].reprovisioned \/ NoFiles(hardened)
    /\ intact /\ pc # "closed" /\ temp.reprovisioned => state.reprovisioned \/ op.kind = "format"
    /\ op.then = "mark" => op.kind = "format"
    /\ op.kind = "format" =>
         /\ op.then \in {"mark", "done"} /\ ~requested
         /\ intact => op.then = "done" /\ temp.reprovisioned /\ NoFiles(wrote) /\ NoFiles(target)

\* An open store that keeps its state keeps its current header.
LEMMA SameHeader ==
    ASSUME FileInv, FileInv', intact, intact', pc # "closed", pc' # "closed",
           state'.active = state.active, state'.fcbs = state.fcbs,
           make_header(state') = make_header(state)
    PROVE  /\ Active' = Active /\ Current' = Current /\ Active \in {0, 1}
           /\ disk'[Active] = disk[Active] /\ disk[Active] = make_header(state)
           /\ Current = state.fcbs
<1>1. /\ state.active = Active /\ state.fcbs = Current /\ disk[Active] = make_header(state)
      /\ Active \in {0, 1}
  BY DEF FileInv, DiskInv, MemoryInv
<1>2. state'.active = Active' /\ state'.fcbs = Current' /\ disk'[Active'] = make_header(state')
  BY DEF FileInv, MemoryInv
<1> QED
  BY <1>1, <1>2

\* What the steps of an operation do to the marker and to the keys in memory.
LEMMA FilledKeys ==
    ASSUME NEW o, NEW s \in VmgsState, write_files_internal(o, s)
    PROVE  /\ op' = o /\ temp'.reprovisioned = s.reprovisioned
           /\ temp'.unlocked = s.unlocked /\ temp'.encrypted = s.encrypted /\ temp'.keys = s.keys
           /\ temp'.slots = IF encrypted_and_unlocked(s)
                            THEN [s.slots EXCEPT ![s.unlocked] =
                                      [key |-> s.keys[s.unlocked], meta |-> temp'.meta]]
                            ELSE s.slots
<1>1. PICK fcbs, m : temp' = Filled(s, fcbs, m) /\ op' = o
  BY DEF write_files_internal
<1> DEFINE t == [s EXCEPT !.fcbs = fcbs, !.meta = m]
<1>2. /\ t.reprovisioned = s.reprovisioned /\ t.unlocked = s.unlocked /\ t.encrypted = s.encrypted
      /\ t.keys = s.keys /\ t.slots = s.slots /\ t.meta = m
      /\ DOMAIN t = DOMAIN s
  BY DEF VmgsState
<1>3. temp' = IF encrypted_and_unlocked(s) THEN encrypt_metadata_key(t) ELSE t
  BY <1>1 DEF Filled
<1>4. CASE encrypted_and_unlocked(s)
  <2>1. temp' = [t EXCEPT !.slots[t.unlocked] = [key |-> t.keys[t.unlocked], meta |-> t.meta]]
    BY <1>3, <1>4 DEF encrypt_metadata_key
  <2>2. temp'.slots = [t.slots EXCEPT ![t.unlocked] = [key |-> t.keys[t.unlocked], meta |-> t.meta]]
    BY <2>1 DEF VmgsState
  <2>3. /\ temp'.reprovisioned = t.reprovisioned /\ temp'.unlocked = t.unlocked
        /\ temp'.encrypted = t.encrypted /\ temp'.keys = t.keys /\ temp'.meta = t.meta
    BY <2>1 DEF VmgsState
  <2> HIDE DEF t
  <2> QED
    BY <1>1, <1>2, <1>4, <2>2, <2>3
<1>5. CASE ~encrypted_and_unlocked(s)
  BY <1>1, <1>2, <1>3, <1>5
<1> QED
  BY <1>4, <1>5

LEMMA MarkerStays ==
    ASSUME NEW s \in VmgsState, NEW k, NEW i
    PROVE  /\ encrypt_metadata_key(s).reprovisioned = s.reprovisioned
           /\ WithKey(s, k).reprovisioned = s.reprovisioned
           /\ WithoutKey(s, i).reprovisioned = s.reprovisioned
           /\ Turned(s).reprovisioned = s.reprovisioned
           /\ make_header(s).reprovisioned = s.reprovisioned
BY DEF encrypt_metadata_key, WithKey, WithoutKey, Turned, make_header, VmgsState

LEMMA ContinueMarker ==
    ASSUME TypeInv, NEW s \in VmgsState, Continue(s)
    PROVE  /\ op.then # "mark" => temp'.reprovisioned = s.reprovisioned
           /\ op.then = "mark" =>
                /\ temp'.reprovisioned /\ pc' = "flush" /\ op'.kind = op.kind /\ op'.then = "done"
           /\ op.then = "done" => op' = NoOp
           /\ op'.kind = "format" => op.kind = "format"
           /\ op'.then # "mark"
<1>1. op \in Op
  BY DEF TypeInv, TypeOK
<1>2. CASE op.then = "add"
  <2>1. temp' = encrypt_metadata_key(WithKey(s, op.key)) /\ op' = [op EXCEPT !.then = "remove"]
    BY <1>2 DEF Continue
  <2>2. WithKey(s, op.key) \in VmgsState
    BY <1>2, WithKeyType DEF TypeInv, OpInv
  <2> QED
    BY <1>1, <1>2, <2>1, <2>2, MarkerStays DEF Op
<1>3. CASE op.then = "remove"
  <2>1. temp' = WithoutKey(s, op.index) /\ op' = [op EXCEPT !.then = "done"]
    BY <1>3 DEF Continue
  <2> QED
    BY <1>1, <1>3, <2>1, MarkerStays DEF Op
<1>4. CASE op.then = "mark"
  <2>1. /\ temp' = [s EXCEPT !.reprovisioned = TRUE] /\ op' = [op EXCEPT !.then = "done"]
        /\ pc' = "flush"
    BY <1>4 DEF Continue
  <2> QED
    BY <1>1, <1>4, <2>1 DEF Op, VmgsState
<1>5. CASE op.then = "done"
  <2>1. temp' = s /\ op' = NoOp
    BY <1>5 DEF Continue
  <2> QED
    BY <1>5, <2>1 DEF NoOp
<1> QED
  BY <1>1, <1>2, <1>3, <1>4, <1>5 DEF Op

\* Requests of clients that leave the disk and the marker alone.
LEMMA MarkerKept ==
    ASSUME TypeInv, FileInv, FileInv', RequestInv, pc = "idle", pc' # "closed",
           state'.active = state.active, state'.fcbs = state.fcbs,
           make_header(state') = make_header(state), state'.reprovisioned = state.reprovisioned,
           temp'.reprovisioned = state.reprovisioned, op'.kind # "format", op'.then # "mark",
           UNCHANGED <<disk, stable, hardened, intact, exposed, requested>>
    PROVE  RequestInv'
<1>1. CASE intact
  <2>1. Active' = Active /\ disk'[Active] = disk[Active] /\ disk[Active] = make_header(state)
    BY <1>1, SameHeader
  <2>2. disk[Active].reprovisioned = state.reprovisioned
    BY <2>1, MarkerStays DEF TypeInv, TypeOK
  <2>3. requested => state.reprovisioned
    BY <1>1 DEF RequestInv
  <2> QED
    BY <1>1, <2>1, <2>2, <2>3 DEF RequestInv
<1>2. CASE ~intact
  BY <1>2 DEF RequestInv
<1> QED
  BY <1>1, <1>2

LEMMA RequestMarker ==
    ASSUME TypeInv, FileInv, FileInv', RequestInv, Request \/ Access
    PROVE  RequestInv'
<1>1. state \in VmgsState
  BY DEF TypeInv, TypeOK
<1>2. ASSUME NEW kind \in {"write", "move", "delete"}
      PROVE  Operation(kind).kind # "format" /\ Operation(kind).then # "mark"
  BY SMTT(20) DEF Operation, NoOp
<1>3. ASSUME NEW o, NEW s \in VmgsState, write_files_internal(o, s), o.kind # "format", o.then # "mark",
             s.reprovisioned = state.reprovisioned, pc = "idle", pc' = "table",
             UNCHANGED <<disk, stable, state, hardened, intact, exposed, requested>>
      PROVE  RequestInv'
  <2>1. op' = o /\ temp'.reprovisioned = state.reprovisioned
    BY <1>3, FilledKeys
  <2> QED
    BY <1>3, <2>1, MarkerKept
<1>4. ASSUME NEW f \in Files, NEW v \in Values, write_file(f, v)
      PROVE  RequestInv'
  <2>1. LET o == [Operation("write") EXCEPT !.file = f, !.value = v] IN
        o.kind # "format" /\ o.then # "mark"
    BY SMTT(20) DEF Operation, NoOp
  <2> QED
    BY <1>1, <1>3, <1>4, <2>1 DEF write_file
<1>5. ASSUME NEW f \in Files, NEW d \in Files, NEW a \in BOOLEAN, move_file(f, d, a)
      PROVE  RequestInv'
  <2> DEFINE F == [[state.fcbs EXCEPT ![f] = NoFcb] EXCEPT ![d] = state.fcbs[f]]
  <2>1. F \in [Ids -> Fcb]
    BY <1>1, TableEntry DEF VmgsState, NoFcb, Fcb
  <2>2. write_files_internal(Operation("move"), [state EXCEPT !.fcbs = F])
    BY <1>5 DEF move_file
  <2> HIDE DEF F
  <2>3. [state EXCEPT !.fcbs = F] \in VmgsState
    BY <1>1, <2>1 DEF VmgsState
  <2>4. [state EXCEPT !.fcbs = F].reprovisioned = state.reprovisioned
    BY <1>1 DEF VmgsState
  <2> QED
    BY <1>2, <1>3, <1>5, <2>2, <2>3, <2>4 DEF move_file
<1>6. ASSUME NEW f \in Files, delete_file(f)
      PROVE  RequestInv'
  <2> DEFINE F == [state.fcbs EXCEPT ![f] = NoFcb]
  <2>1. F \in [Ids -> Fcb]
    BY <1>1, TableEntry DEF VmgsState, NoFcb, Fcb
  <2>2. write_files_internal(Operation("delete"), [state EXCEPT !.fcbs = F])
    BY <1>6 DEF delete_file
  <2> HIDE DEF F
  <2>3. [state EXCEPT !.fcbs = F] \in VmgsState
    BY <1>1, <2>1 DEF VmgsState
  <2>4. [state EXCEPT !.fcbs = F].reprovisioned = state.reprovisioned
    BY <1>1 DEF VmgsState
  <2> QED
    BY <1>2, <1>3, <1>6, <2>2, <2>3, <2>4 DEF delete_file
<1>7. ASSUME NEW k \in Keys, update_encryption_key(k)
      PROVE  RequestInv'
  <2> DEFINE old == state.unlocked
             o == [Operation("key") EXCEPT !.ext = TRUE, !.key = k, !.index = old]
             after == [o EXCEPT !.then = IF old = NoIndex THEN "done" ELSE "remove"]
             added == WithKey(state, k)
  <2>1. /\ after.kind # "format" /\ after.then # "mark"
        /\ LET a == [o EXCEPT !.then = "add"] IN a.kind # "format" /\ a.then # "mark"
    BY SMTT(20) DEF Operation, NoOp
  <2>2. added \in VmgsState /\ added.reprovisioned = state.reprovisioned
    BY <1>1, WithKeyType, MarkerStays
  <2>3. /\ pc = "idle"
        /\ UNCHANGED <<disk, stable, state, hardened, intact, exposed, requested>>
    BY <1>7 DEF update_encryption_key
  <2>4. \/ write_files_internal(after, added) /\ pc' = "table"
        \/ op' = after /\ temp' = encrypt_metadata_key(added) /\ pc' = "flush"
        \/ op' = [o EXCEPT !.then = "add"] /\ temp' = WithoutKey(state, 1 - old) /\ pc' = "flush"
    BY <1>7, SMTT(20) DEF update_encryption_key
  <2> HIDE DEF after, added, o
  <2>5. CASE write_files_internal(after, added) /\ pc' = "table"
    BY <1>3, <2>1, <2>2, <2>3, <2>5
  <2>6. CASE op' = after /\ temp' = encrypt_metadata_key(added) /\ pc' = "flush"
    <3>1. temp'.reprovisioned = state.reprovisioned
      BY <2>2, <2>6, MarkerStays
    <3> QED
      BY <2>1, <2>3, <2>6, <3>1, MarkerKept
  <2>7. CASE op' = [o EXCEPT !.then = "add"] /\ temp' = WithoutKey(state, 1 - old) /\ pc' = "flush"
    <3>1. temp'.reprovisioned = state.reprovisioned
      BY <1>1, <2>7, MarkerStays
    <3> QED
      BY <2>1, <2>3, <2>7, <3>1, MarkerKept
  <2> QED
    BY <2>4, <2>5, <2>6, <2>7
<1>8. ASSUME NEW k \in Keys, unlock_with_encryption_key(k)
      PROVE  RequestInv'
  <2>1. /\ state'.active = state.active /\ state'.fcbs = state.fcbs
        /\ make_header(state') = make_header(state) /\ state'.reprovisioned = state.reprovisioned
    BY <1>1, <1>8 DEF unlock_with_encryption_key, VmgsState, make_header
  <2>2. /\ pc = "idle" /\ pc' = "idle" /\ op' = op /\ op = NoOp /\ temp' = state'
        /\ UNCHANGED <<disk, stable, hardened, intact, exposed, requested>>
    BY <1>8 DEF unlock_with_encryption_key, TypeInv, OpInv
  <2>3. op'.kind # "format" /\ op'.then # "mark"
    BY <2>2, SMTT(20) DEF NoOp
  <2> QED
    BY <2>1, <2>2, <2>3, MarkerKept
<1>9. ASSUME NEW then \in {"done", "mark"}, StartFormat(then)
      PROVE  RequestInv'
  <2>1. ~intact' /\ ~requested' /\ op' = [NoOp EXCEPT !.kind = "format", !.ext = TRUE, !.then = then]
    BY <1>9 DEF StartFormat, write_files_internal
  <2>2. op'.then = then /\ op'.kind = "format"
    BY <2>1 DEF NoOp
  <2> QED
    BY <2>1, <2>2 DEF RequestInv
<1>10. ASSUME pc = "closed", op'.kind # "format", op'.then # "mark", Active \in {0, 1}, state' = FromDisk(disk, Active),
              requested' => state'.reprovisioned /\ temp' = state',
              temp'.reprovisioned => state'.reprovisioned,
              UNCHANGED <<disk, stable, wrote, hardened, intact, exposed>>
       PROVE  RequestInv'
  <2>1. Active' = Active
    BY <1>10 DEF Active
  <2>2. state'.reprovisioned = disk[Active].reprovisioned
    BY <1>10 DEF FromDisk, NewState
  <2> QED
    BY <1>10, <2>1, <2>2 DEF RequestInv
<1>11. ASSUME open
       PROVE  RequestInv'
  <2> DEFINE s == FromDisk(disk, Active)
  <2>1. s \in VmgsState /\ Active \in {0, 1}
    BY <1>11, FromDiskKeys, ActiveHeader DEF open, Active, TypeInv, TypeOK, KeyInv
  <2>2. /\ pc = "closed" /\ state' = s /\ ~requested'
        /\ temp' = [s EXCEPT !.reprovisioned = FALSE] \/ temp' = s
        /\ op' = [NoOp EXCEPT !.kind = "open"] \/ op' = NoOp
        /\ UNCHANGED <<disk, stable, wrote, hardened, intact, exposed>>
    BY <1>11 DEF open, Active
  <2> HIDE DEF s
  <2>3. temp'.reprovisioned => s.reprovisioned
    BY <2>1, <2>2 DEF VmgsState
  <2>4. op'.kind # "format" /\ op'.then # "mark"
    BY <2>2, SMTT(20) DEF NoOp
  <2> QED
    BY <1>10, <2>1, <2>2, <2>3, <2>4 DEF s
<1>12. ASSUME request_format
       PROVE  RequestInv'
  <2>1. CASE StartFormat("mark")
    BY <1>9, <2>1
  <2>2. CASE /\ pc = "closed" /\ Active # NoIndex /\ disk[Active].reprovisioned
             /\ state' = FromDisk(disk, Active) /\ temp' = state' /\ op' = NoOp
             /\ UNCHANGED <<disk, stable, wrote, hardened, intact, exposed>>
    <3>1. state'.reprovisioned /\ Active \in {0, 1} /\ op'.kind # "format" /\ op'.then # "mark"
      BY <2>2, ActiveHeader, SMTT(20) DEF FromDisk, NewState, NoOp, Active
    <3> QED
      BY <1>10, <2>2, <3>1
  <2> QED
    BY <1>12, <2>1, <2>2 DEF request_format, Active
<1>13. ASSUME format_new
       PROVE  RequestInv'
  BY <1>9, <1>13 DEF format_new
<1> QED
  BY <1>4, <1>5, <1>6, <1>7, <1>8, <1>11, <1>12, <1>13 DEF Request, Access

\* Writing a block.
LEMMA BlockMarker ==
    ASSUME TypeInv, FileInv, FileInv', RequestInv, WriteFileTable \/ WriteData \/ WriteExtendedTable
    PROVE  RequestInv'
<1>1. /\ pc # "closed" /\ pc' # "closed" /\ (exposed' = (exposed \/ ~HeaderIsFlushed))
      /\ op' = op \/ op' = [op EXCEPT !.part = op.part + 1]
      /\ UNCHANGED <<stable, state, temp, wrote, target, hardened, intact, requested>>
  <2>1. CASE WriteFileTable
    BY <2>1 DEF WriteFileTable, WriteBlock, AfterData, AfterFiles
  <2>2. CASE WriteData
    BY <2>2 DEF WriteData, WriteBlock, AfterData, AfterFiles
  <2>3. CASE WriteExtendedTable
    BY <2>3 DEF WriteExtendedTable, WriteBlock, AfterFiles
  <2> QED
    BY <2>1, <2>2, <2>3
<1>2. op'.kind = op.kind /\ op'.then = op.then
  BY <1>1 DEF TypeInv, TypeOK, Op
<1>3. CASE intact
  <2>1. Active' = Active /\ disk'[Active] = disk[Active] /\ Active = state.active
    BY <1>1, <1>3, SameHeader DEF FileInv, MemoryInv
  <2>2. disk'[Active] # stable[Active] => exposed'
    BY <1>1, <2>1 DEF HeaderIsFlushed
  <2> QED
    BY <1>1, <1>2, <1>3, <2>1, <2>2 DEF RequestInv
<1>4. CASE ~intact
  BY <1>1, <1>2, <1>4 DEF RequestInv
<1> QED
  BY <1>3, <1>4

\* Where the header goes, and what it replaces.
LEMMA Committed ==
    ASSUME TypeInv, FileInv, FileInv', intact, WriteHeader
    PROVE  /\ Active \in {0, 1} /\ Active' = 1 - Active /\ 1 - Active' = Active
           /\ Current' = temp.fcbs /\ disk'[Active'] = make_header(Turned(temp))
           /\ state' = Turned(temp) /\ stable' = disk /\ disk[Active] = make_header(state)
           /\ state.fcbs = Current /\ disk' \in [Locations -> Content]
           /\ disk'[1 - Active] # stable[1 - Active] /\ hardened' = wrote
           /\ \A b \in Blocks : disk'[b] = disk[b]
<1> DEFINE s == Turned(temp)
<1>1. /\ pc = "header" /\ disk' = [disk EXCEPT ![s.active] = make_header(s)] /\ state' = s
      /\ Continue(s) /\ UNCHANGED <<stable, hardened, intact>>
  BY DEF WriteHeader
<1>2. /\ Active \in {0, 1} /\ state.active = Active /\ state.fcbs = Current
      /\ disk[Active] = make_header(state) /\ stable = disk /\ hardened = wrote
      /\ temp.active = Active /\ temp \in VmgsState /\ disk \in [Locations -> Content]
  BY <1>1 DEF FileInv, DiskInv, MemoryInv, StepInv, TypeInv, TypeOK
<1>3. s.active = 1 - Active /\ s.fcbs = temp.fcbs /\ s \in VmgsState
  BY <1>2, TurnedType DEF Turned, VmgsState
<1>4. pc' # "closed"
  BY <1>1, <1>3, ContinueLayout
<1> HIDE DEF s
<1>5. state'.active = Active' /\ state'.fcbs = Current' /\ disk'[Active'] = make_header(state')
  BY <1>1, <1>4 DEF FileInv, MemoryInv
<1>6. make_header(s) # disk[1 - Active] /\ make_header(s) \in Content
  BY <1>1, <1>3, HeaderIsNew, HeaderType DEF s
<1>7. /\ disk'[1 - Active] = make_header(s) /\ disk' \in [Locations -> Content]
      /\ \A b \in Blocks : disk'[b] = disk[b]
  BY <1>1, <1>2, <1>3, <1>6, HeaderLocations, BlocksAreLocations, SMTT(20)
<1>8. 1 - (1 - Active) = Active
  BY <1>2, SMTT(20)
<1> QED
  BY <1>1, <1>2, <1>3, <1>5, <1>6, <1>7, <1>8 DEF s

LEMMA HeaderMarker ==
    ASSUME TypeInv, FileInv, FileInv', RequestInv, WriteHeader
    PROVE  RequestInv'
<1> DEFINE s == Turned(temp)
<1>1. /\ pc = "header" /\ state' = s /\ Continue(s) /\ wrote' = target /\ target' = target
      /\ requested' = (requested \/ op.kind = "format") /\ UNCHANGED <<stable, intact>>
  BY DEF WriteHeader
<1>2. s \in VmgsState /\ s.reprovisioned = temp.reprovisioned
  BY TurnedType, MarkerStays DEF TypeInv, TypeOK
<1>3. /\ op.then # "mark" => temp'.reprovisioned = s.reprovisioned
      /\ op.then = "done" => op' = NoOp
      /\ op'.kind = "format" => op.kind = "format"
      /\ pc' # "closed" /\ op'.then # "mark"
  BY <1>1, <1>2, ContinueMarker, ContinueLayout
<1> HIDE DEF s
<1>4. CASE intact
  <2>1. /\ Active' = 1 - Active /\ 1 - Active' = Active /\ disk'[Active'] = make_header(s)
        /\ stable' = disk /\ disk[Active] = make_header(state) /\ hardened' = wrote
    BY <1>4, Committed DEF s
  <2>2. /\ disk'[Active'].reprovisioned = temp.reprovisioned
        /\ stable'[1 - Active'].reprovisioned = state.reprovisioned
    <3>1. disk'[Active'] = make_header(s) /\ stable'[1 - Active'] = make_header(state)
      BY <2>1
    <3>2. /\ make_header(s).reprovisioned = s.reprovisioned
          /\ make_header(state).reprovisioned = state.reprovisioned
      BY <1>2, MarkerStays DEF TypeInv, TypeOK
    <3> QED
      BY <1>2, <3>1, <3>2
  <2>3. op.kind = "format" => /\ op.then = "done" /\ temp.reprovisioned
                              /\ NoFiles(wrote) /\ NoFiles(target)
    BY <1>4 DEF RequestInv
  <2>4. /\ requested => state.reprovisioned /\ temp.reprovisioned
        /\ temp.reprovisioned => state.reprovisioned \/ op.kind = "format"
    BY <1>1, <1>4 DEF RequestInv
  <2>5. op.then = "mark" => op.kind = "format"
    BY DEF RequestInv
  <2>6. op'.kind # "format"
    BY <1>3, <2>3, SMTT(20) DEF NoOp
  <2>7. requested' => disk'[Active'].reprovisioned /\ state'.reprovisioned /\ temp'.reprovisioned
    BY <1>1, <1>2, <1>3, <2>2, <2>3, <2>4, <2>5
  <2>8. requested' \/ disk'[Active'].reprovisioned =>
            stable'[1 - Active'].reprovisioned \/ NoFiles(hardened')
    BY <1>1, <2>1, <2>2, <2>3, <2>4
  <2>9. temp'.reprovisioned => state'.reprovisioned
    BY <1>1, <1>2, <1>3, <2>3, <2>5
  <2> QED
    BY <1>3, <2>6, <2>7, <2>8, <2>9 DEF RequestInv
<1>5. CASE ~intact
  <2>1. op.kind # "format"
    BY <1>1, <1>5 DEF FileInv, FormatInv
  <2> QED
    BY <1>1, <1>3, <1>5, <2>1 DEF RequestInv
<1> QED
  BY <1>4, <1>5

LEMMA DiskMarker ==
    ASSUME TypeInv, FileInv, FileInv', RequestInv, DiskRequest
    PROVE  RequestInv'
<1>1. CASE Flush
  <2>1. /\ stable' = disk /\ pc = "flush" /\ pc' = "header"
        /\ UNCHANGED <<disk, op, state, temp, wrote, target, intact, requested>>
    BY <1>1 DEF Flush
  <2>2. Active' = Active
    BY <2>1 DEF Active
  <2> QED
    BY <2>1, <2>2 DEF RequestInv
<1>2. CASE ZeroHeader \/ WriteFormatHeader
  <2>1. /\ pc \in {"zero", "format header"} /\ UNCHANGED <<op, intact, requested>>
    BY <1>2 DEF ZeroHeader, WriteFormatHeader
  <2>2. ~intact /\ ~intact'
    BY <2>1 DEF FileInv, FormatInv
  <2> QED
    BY <2>1, <2>2 DEF RequestInv
<1>3. CASE FlushFormat
  <2>1. /\ pc = "format flush" /\ stable' = disk /\ disk' = disk /\ state' = temp /\ Continue(temp)
        /\ wrote' = [f \in Files |-> Absent] /\ target' = wrote' /\ requested' = requested
    BY <1>3 DEF FlushFormat
  <2>2. op.kind = "format" /\ op.then \in {"mark", "done"} /\ ~requested
    BY <2>1 DEF FileInv, FormatInv, RequestInv
  <2>3. NoFiles(wrote') /\ NoFiles(target')
    BY <2>1 DEF NoFiles
  <2>4. /\ op.then # "mark" => temp'.reprovisioned = temp.reprovisioned
        /\ op.then = "mark" => temp'.reprovisioned /\ op'.kind = op.kind /\ op'.then = "done"
        /\ op.then = "done" => op' = NoOp
        /\ op'.then # "mark"
    BY <2>1, ContinueMarker DEF TypeInv, TypeOK
  <2>5. CASE op.then = "mark"
    BY <2>1, <2>2, <2>3, <2>4, <2>5 DEF RequestInv
  <2>6. CASE op.then = "done"
    <3>1. op'.kind # "format"
      BY <2>4, <2>6, SMTT(20) DEF NoOp
    <3> QED
      BY <2>1, <2>2, <2>4, <2>6, <3>1 DEF RequestInv
  <2> QED
    BY <2>2, <2>5, <2>6
<1> QED
  BY <1>1, <1>2, <1>3, BlockMarker, HeaderMarker DEF DiskRequest

\* The header that Good is about is the current one.
LEMMA GoodActive ==
    ASSUME TypeInv', NEW i \in {0, 1}, NEW F, NEW w, Good(disk', i, F, w)
    PROVE  Active' = i /\ Current' = F
<1>1. disk' \in [Locations -> Content]
  BY DEF TypeInv, TypeOK
<1>2. get_active_header(disk') = i /\ disk'[disk'[i].table].fcbs = F
  BY <1>1, GoodHolds, SMTT(20)
<1> QED
  BY <1>2 DEF Active, Current

LEMMA FaultMarker ==
    ASSUME TypeInv, TypeInv', FileInv, FileInv', RequestInv, Fault
    PROVE  RequestInv'
<1>1. op' = NoOp /\ op'.kind # "format" /\ op'.then # "mark"
  <2>1. op' = NoOp
    BY DEF Fault, DiskError, Crash, PowerLoss
  <2> QED
    BY <2>1, SMTT(20) DEF NoOp
<1>2. CASE DiskError \/ Crash
  <2>1. /\ Interrupted /\ pc # "closed"
        /\ pc' # "closed" => state' = state /\ temp' = state
        /\ UNCHANGED <<stable, wrote, hardened, intact, exposed, requested>>
    BY <1>2 DEF DiskError, Crash, Close
  <2>2. CASE intact
    <3>1. Active' = Active /\ disk'[Active] = disk[Active]
      BY <2>1, <2>2, InterruptedDisk
    <3> QED
      BY <1>1, <2>1, <2>2, <3>1 DEF RequestInv
  <2>3. CASE ~intact
    BY <1>1, <2>1, <2>3 DEF RequestInv
  <2> QED
    BY <2>2, <2>3
<1>3. CASE PowerLoss
  <2>1. PICK lost \in SUBSET Dirty, torn \in SUBSET (Dirty \cap {0, 1}) :
            /\ disk' = AfterPowerLoss(lost, torn) /\ stable' = disk'
            /\ wrote' = IF Active \in lost \cup torn THEN hardened ELSE wrote
            /\ intact' = (intact /\ ~exposed) /\ pc' = "closed" /\ requested' = requested
    BY <1>3 DEF PowerLoss, Close, Active
  <2>2. ASSUME intact, ~exposed
        PROVE  requested => disk'[Active'].reprovisioned \/ NoFiles(wrote')
    <3> DEFINE i == Survivor(lost, torn)
               w == IF Active \in lost \cup torn THEN hardened ELSE wrote
    <3>1. /\ i \in {0, 1} /\ Good(disk', i, SurvivingTable(lost, torn), w)
          /\ disk'[i] = IF Active \in lost \cup torn THEN stable[i] ELSE disk[i]
      BY <2>1, <2>2, AfterLoss
    <3>2. Active' = i
      BY <3>1, GoodActive
    <3>3. CASE Active \in lost \cup torn
      <4>1. disk[Active] # stable[Active] /\ i = 1 - Active
        BY <3>3 DEF Dirty, Survivor
      <4> QED
        BY <2>1, <2>2, <3>1, <3>2, <3>3, <4>1 DEF RequestInv
    <3>4. CASE Active \notin lost \cup torn
      BY <2>1, <2>2, <3>1, <3>2, <3>4 DEF RequestInv, Survivor
    <3> QED
      BY <3>3, <3>4
  <2> QED
    BY <1>1, <2>1, <2>2 DEF RequestInv
<1> QED
  BY <1>2, <1>3 DEF Fault

LEMMA MarkerHolds == Spec => []RequestInv
<1>1. Init => RequestInv
  <2> SUFFICES ASSUME Init PROVE RequestInv
    OBVIOUS
  <2>1. ~intact /\ op.kind = "none" /\ op.then = "done"
    BY SMTT(20) DEF Init, NoOp
  <2> QED
    BY <2>1 DEF RequestInv
<1>2. TypeInv /\ TypeInv' /\ FileInv /\ FileInv' /\ RequestInv /\ [Next]_vars => RequestInv'
  <2> SUFFICES ASSUME TypeInv, TypeInv', FileInv, FileInv', RequestInv, [Next]_vars PROVE RequestInv'
    OBVIOUS
  <2>1. CASE UNCHANGED vars
    <3>1. Active' = Active
      BY <2>1 DEF vars, Active
    <3> QED
      BY <2>1, <3>1 DEF vars, RequestInv
  <2> QED
    BY <2>1, RequestMarker, DiskMarker, FaultMarker DEF Next
<1> QED
  BY <1>1, <1>2, FilesHold, PTL DEF Spec

\* A boot that asks for a format again, with no other boot since one that was told the
\* format is done, finds the marker or no file: whatever crashes and power losses came in
\* between, it never formats away what was written after the first format.
THEOREM FormattedOnce == Spec => []FormatsOncePerRequest
<1>1. RequestInv => FormatsOncePerRequest
  BY DEF RequestInv, FormatsOncePerRequest, NoFiles, Active
<1> QED
  BY <1>1, MarkerHolds, PTL

=============================================================================
