---------------------------- MODULE VmgsKeyProofs ----------------------------
(***************************************************************************)
(* Proofs about the guest state file: a client never loses the key that    *)
(* unlocks it.                                                             *)
(***************************************************************************)
EXTENDS VmgsProofs

(* The time a prover may take for one obligation. *)
USE ZenonT(20), SMTT(20)

-----------------------------------------------------------------------------
(* The keys *)

\* The two slots do not hold the same key.
Distinct(slots) == slots[0].key # slots[1].key \/ slots[0].key = NoKey

\* One of the keys of K unlocks the store of header h and table fcbs on disk d.
Opens(d, h, fcbs, K) ==
    h.encrypted => /\ Distinct(h.slots)
                   /\ fcbs[EXTENDED_FILE_TABLE].len = 1
                   /\ \E k \in K : Unlocks(d, h.slots, fcbs, k)

\* The key that s is unlocked with is one of K and has its slot filled.
Held(s, K) ==
    s.unlocked # NoIndex =>
        /\ s.slots[s.unlocked] = [key |-> s.keys[s.unlocked], meta |-> s.meta]
        /\ s.keys[s.unlocked] \in K
        /\ s.fcbs[EXTENDED_FILE_TABLE].len = 1

\* The extended table of s is on disk d under the metadata key of s.
Sealed(d, s) == s.unlocked # NoIndex => d[s.fcbs[EXTENDED_FILE_TABLE].at] = Extended(s.meta)

\* The current header can be unlocked, and so can the header that a power loss goes
\* back to.
HeadersOpen ==
    intact =>
        /\ Opens(disk, disk[Active], Current, known)
        /\ disk[Active] = stable[Active] => Opens(stable, stable[Active], Current, known)
        /\ disk[Active] # stable[Active] /\ ~exposed =>
             Opens(stable, stable[1 - Active], stable[stable[1 - Active].table].fcbs, known)

StateLock == intact /\ pc # "closed" => Held(state, known) /\ Sealed(disk, state)

\* What an operation in progress is about to commit: the key it is unlocked with, or the
\* slots and the extended table as they are.
TempLock ==
    /\ Distinct(temp.slots) /\ Held(temp, known)
    /\ pc \in {"flush", "header"} => Sealed(disk, temp)
    /\ pc \in {"table", "data", "extended"} => (op.ext <=> temp.unlocked # NoIndex)
    /\ temp.unlocked = NoIndex =>
         /\ temp.slots = state.slots /\ temp.encrypted = state.encrypted
         /\ temp.fcbs[EXTENDED_FILE_TABLE] = state.fcbs[EXTENDED_FILE_TABLE]
    /\ \A id \in Pending : \A b \in Extent(temp.fcbs[id]) :
         b \notin Extent(state.fcbs[EXTENDED_FILE_TABLE])

\* How far update_encryption_key is.
UpdateLock ==
    op.kind = "key" =>
        /\ temp.unlocked # NoIndex
        /\ op.then = "add" => temp.keys[op.index] # op.key
        /\ op.then = "remove" => temp.unlocked = 1 - op.index
        /\ op.then # "add" => temp.keys[temp.unlocked] = op.key
        /\ op.then = "done" /\ state.encrypted =>
             state.unlocked # NoIndex /\ state.keys[state.unlocked] = op.key
        /\ op.key \in known

\* What remains of an operation.
PlanInv ==
    /\ op.kind = "format" => ~temp.encrypted
    /\ op.then \in {"add", "remove"} => op.kind = "key"

LockInv ==
    /\ HeadersOpen /\ StateLock /\ PlanInv
    /\ intact /\ pc \notin {"closed", "idle"} => TempLock /\ UpdateLock

\* The blocks of the extended table.
LEMMA ExtendedBlock ==
    ASSUME NEW fcbs, Clean(fcbs), fcbs[EXTENDED_FILE_TABLE].len = 1
    PROVE  /\ fcbs[EXTENDED_FILE_TABLE].at \in Blocks
           /\ fcbs[EXTENDED_FILE_TABLE].at \in Extent(fcbs[EXTENDED_FILE_TABLE])
<1>1. fcbs[EXTENDED_FILE_TABLE] \in Fcb /\ Extent(fcbs[EXTENDED_FILE_TABLE]) \subseteq Blocks
  BY TableEntry DEF Clean
<1>2. fcbs[EXTENDED_FILE_TABLE].at \in Extent(fcbs[EXTENDED_FILE_TABLE])
  BY SMTT(20), <1>1 DEF Extent, Fcb
<1> QED
  BY <1>1, <1>2

\* What opens, opens with more keys too, on every disk that has the extended table.
LEMMA OpensFrame ==
    ASSUME NEW d, NEW e, NEW h, NEW g, NEW fcbs, NEW F, NEW K, NEW L, Opens(d, h, fcbs, K), K \subseteq L,
           g.encrypted = h.encrypted, g.slots = h.slots,
           F[EXTENDED_FILE_TABLE] = fcbs[EXTENDED_FILE_TABLE],
           h.encrypted /\ fcbs[EXTENDED_FILE_TABLE].len = 1 =>
               e[fcbs[EXTENDED_FILE_TABLE].at] = d[fcbs[EXTENDED_FILE_TABLE].at]
    PROVE  Opens(e, g, F, L)
<1> SUFFICES ASSUME h.encrypted PROVE Opens(e, g, F, L)
  BY DEF Opens
<1>1. PICK k \in K : Unlocks(d, h.slots, fcbs, k)
  BY DEF Opens
<1>2. Distinct(h.slots) /\ fcbs[EXTENDED_FILE_TABLE].len = 1
  BY DEF Opens
<1>3. Unlocks(e, g.slots, F, k)
  BY <1>1, <1>2 DEF Unlocks
<1> QED
  BY <1>1, <1>2, <1>3 DEF Opens

\* A store that is unlocked in memory can be unlocked with the same key.
LEMMA SealedOpens ==
    ASSUME NEW s \in VmgsState, Armed(s, NoIndex), Distinct(s.slots), s.unlocked # NoIndex,
           NEW d, NEW K, NEW L, Held(s, L), Sealed(d, s), s.keys[s.unlocked] \in K
    PROVE  Opens(d, s, s.fcbs, K)
<1> DEFINE u == s.unlocked
           k == s.keys[u]
<1>1. u \in {0, 1} /\ k # NoKey
  BY DEF VmgsState, NoIndex, Armed
<1>2. s.slots[u].key = k /\ s.slots[u].meta = s.meta
  <2>1. s.slots[u] = [key |-> k, meta |-> s.meta]
    BY DEF Held
  <2> HIDE DEF u, k
  <2> QED
    BY <2>1, SMTT(20)
<1> HIDE DEF k
<1>3. SlotOf(s.slots, k) = u /\ u # NoIndex
  BY <1>1, <1>2, SMTT(20) DEF SlotOf, Distinct, NoIndex
<1>4. Unlocks(d, s.slots, s.fcbs, k)
  BY <1>2, <1>3 DEF Unlocks, Sealed
<1> QED
  BY <1>4 DEF Opens, Held, k

LEMMA HeaderKeys ==
    ASSUME NEW s
    PROVE  make_header(s).encrypted = s.encrypted /\ make_header(s).slots = s.slots
BY DEF make_header

LEMMA PlainDistinct ==
    ASSUME NEW s, ~s.encrypted, Plain(s)
    PROVE  Distinct(s.slots)
BY SMTT(20) DEF Plain, Distinct, EmptySlot

\* The current header, as memory has it.
LEMMA StateOpens ==
    ASSUME TypeInv, FileInv, LockInv, intact, pc # "closed"
    PROVE  /\ Opens(disk, state, state.fcbs, known) /\ Distinct(state.slots)
           /\ Held(state, known) /\ Sealed(disk, state) /\ Clean(state.fcbs)
           /\ state \in VmgsState /\ Plain(state) /\ Armed(state, NoIndex)
           /\ disk[Active].encrypted = state.encrypted /\ disk[Active].slots = state.slots
           /\ Current = state.fcbs
<1>1. /\ state.fcbs = Current /\ disk[Active] = make_header(state) /\ Clean(state.fcbs)
  BY DEF FileInv, DiskInv, MemoryInv, Good, FilesAt
<1>2. disk[Active].encrypted = state.encrypted /\ disk[Active].slots = state.slots
  BY <1>1, HeaderKeys
<1>3. Opens(disk, disk[Active], Current, known) /\ Held(state, known) /\ Sealed(disk, state)
  BY DEF LockInv, HeadersOpen, StateLock
<1>4. Opens(disk, state, state.fcbs, known)
  BY <1>1, <1>2, <1>3 DEF Opens
<1>5. state \in VmgsState /\ Plain(state) /\ Armed(state, NoIndex)
  BY DEF TypeInv, TypeOK, KeyInv
<1>6. Distinct(state.slots)
  BY <1>4, <1>5, PlainDistinct DEF Opens
<1> QED
  BY <1>1, <1>2, <1>3, <1>4, <1>5, <1>6

\* Nothing is written, and no key is forgotten.
LEMMA HeadersStay ==
    ASSUME HeadersOpen, UNCHANGED <<disk, stable, intact, exposed>>, known \subseteq known'
    PROVE  HeadersOpen'
<1>1. Active' = Active /\ Current' = Current
  BY DEF Active, Current
<1> SUFFICES ASSUME intact PROVE HeadersOpen'
  BY DEF HeadersOpen
<1>2. Opens(disk, disk[Active], Current, known')
  BY OpensFrame DEF HeadersOpen
<1>3. disk[Active] = stable[Active] => Opens(stable, stable[Active], Current, known')
  BY OpensFrame DEF HeadersOpen
<1>4. ASSUME disk[Active] # stable[Active], ~exposed
      PROVE  Opens(stable, stable[1 - Active], stable[stable[1 - Active].table].fcbs, known')
  <2> DEFINE h == stable[1 - Active]
             F == stable[h.table].fcbs
  <2>1. Opens(stable, h, F, known)
    BY <1>4 DEF HeadersOpen
  <2> HIDE DEF h, F
  <2>2. Opens(stable, h, F, known')
    BY <2>1, OpensFrame
  <2> QED
    BY <2>2 DEF h, F
<1> QED
  BY <1>1, <1>2, <1>3, <1>4 DEF HeadersOpen

\* add_new_encryption_key on an unlocked state.
LEMMA AddedKey ==
    ASSUME NEW s \in VmgsState, Armed(s, NoIndex), s.unlocked # NoIndex, NEW k \in Keys,
           NEW L, Held(s, L), s.keys[s.unlocked] # k
    PROVE  LET t == encrypt_metadata_key(WithKey(s, k)) IN
           /\ t.unlocked = 1 - s.unlocked /\ t.unlocked # NoIndex /\ t.keys[t.unlocked] = k
           /\ t.slots[t.unlocked] = [key |-> t.keys[t.unlocked], meta |-> t.meta]
           /\ Distinct(t.slots) /\ t.meta = s.meta /\ t.fcbs = s.fcbs
<1> DEFINE w == WithKey(s, k)
           t == encrypt_metadata_key(w)
           u == s.unlocked
           v == 1 - u
<1>1. u \in {0, 1} /\ v \in {0, 1} /\ u # v /\ v # NoIndex
  <2>1. u \in {0, 1}
    BY DEF VmgsState, NoIndex
  <2> QED
    BY <2>1, SMTT(20) DEF NoIndex
<1>2. /\ w = [s EXCEPT !.encrypted = TRUE, !.keys[v] = k, !.unlocked = v, !.slots[v] = EmptySlot]
      /\ w \in VmgsState
  BY WithKeyType DEF WithKey
<1>3. /\ w.unlocked = v /\ w.keys[v] = k /\ w.slots[u] = s.slots[u] /\ w.meta = s.meta
      /\ w.fcbs = s.fcbs
  <2>1. /\ w.unlocked = v /\ w.keys = [s.keys EXCEPT ![v] = k]
        /\ w.slots = [s.slots EXCEPT ![v] = EmptySlot] /\ w.meta = s.meta /\ w.fcbs = s.fcbs
    BY <1>2 DEF VmgsState
  <2>2. s.keys \in [{0, 1} -> Keys \cup {NoKey}] /\ s.slots \in [{0, 1} -> Slot]
    BY DEF VmgsState, Slots
  <2> HIDE DEF w, u, v
  <2> QED
    BY <1>1, <2>1, <2>2
<1> HIDE DEF w, v
<1>4. t = [w EXCEPT !.slots[v] = [key |-> k, meta |-> w.meta]]
  BY <1>3 DEF encrypt_metadata_key
<1>5. /\ t.unlocked = v /\ t.keys[v] = k /\ t.slots[v] = [key |-> k, meta |-> w.meta]
      /\ t.slots[u] = s.slots[u] /\ t.meta = s.meta /\ t.fcbs = s.fcbs
  <2>1. /\ t.unlocked = w.unlocked /\ t.keys = w.keys /\ t.meta = w.meta /\ t.fcbs = w.fcbs
        /\ t.slots = [w.slots EXCEPT ![v] = [key |-> k, meta |-> w.meta]]
    BY <1>2, <1>4 DEF VmgsState
  <2>2. w.slots \in [{0, 1} -> Slot]
    BY <1>2 DEF VmgsState, Slots
  <2> HIDE DEF t, u
  <2> QED
    BY <1>1, <1>3, <2>1, <2>2
<1>6. s.slots[u] = [key |-> s.keys[u], meta |-> s.meta]
  BY DEF Held
<1> HIDE DEF t, u
<1>7. t.slots[u].key # t.slots[v].key
  <2>1. t.slots[u].key = s.keys[u] /\ t.slots[v].key = k
    BY <1>5, <1>6, SMTT(20)
  <2> QED
    BY <2>1 DEF u
<1>8. Distinct(t.slots)
  BY <1>1, <1>7 DEF Distinct
<1> QED
  BY <1>1, <1>3, <1>5, <1>8 DEF t, w, v, u

\* remove_encryption_key of the key that is not in use.
LEMMA RemovedKey ==
    ASSUME NEW s \in VmgsState, Armed(s, NoIndex), NEW i \in {0, 1}, s.unlocked = 1 - i,
           s.slots[0] # EmptySlot, s.slots[1] # EmptySlot, NEW L, Held(s, L)
    PROVE  LET t == WithoutKey(s, i) IN
           /\ t.unlocked = s.unlocked /\ t.keys[t.unlocked] = s.keys[s.unlocked]
           /\ t.slots[t.unlocked] = [key |-> t.keys[t.unlocked], meta |-> t.meta]
           /\ Distinct(t.slots) /\ t.meta = s.meta /\ t.fcbs = s.fcbs
<1> DEFINE t == WithoutKey(s, i)
           u == 1 - i
           c == [s EXCEPT !.keys[i] = NoKey, !.slots[i] = EmptySlot]
<1>1. u \in {0, 1} /\ u # i /\ u # NoIndex
  BY SMTT(20) DEF NoIndex
<1>2. s.keys[u] # NoKey
  BY <1>1 DEF Armed
<1>3. datastore_key_count(s) # 1
  BY SMTT(20) DEF datastore_key_count
<1>4. t = [c EXCEPT !.unlocked = u]
  BY <1>2, <1>3 DEF WithoutKey
<1> HIDE DEF u
<1>5. /\ c.keys[u] = s.keys[u] /\ c.slots[u] = s.slots[u] /\ c.slots[i] = EmptySlot
      /\ c.meta = s.meta /\ c.fcbs = s.fcbs /\ DOMAIN c = DOMAIN s
  BY <1>1 DEF VmgsState, Slots
<1>6. /\ t.unlocked = u /\ t.keys[u] = s.keys[u] /\ t.slots[u] = s.slots[u]
      /\ t.slots[i] = EmptySlot /\ t.meta = s.meta /\ t.fcbs = s.fcbs
  BY <1>4, <1>5 DEF VmgsState
<1>7. s.slots[u] = [key |-> s.keys[u], meta |-> s.meta]
  BY <1>1 DEF Held, u
<1> HIDE DEF t
<1>8. t.slots[u].key # t.slots[i].key
  BY <1>2, <1>6, <1>7, SMTT(20) DEF EmptySlot
<1>9. Distinct(t.slots)
  BY <1>1, <1>8 DEF Distinct
<1> QED
  BY <1>6, <1>7, <1>9 DEF t, u

\* A request of a client begins an operation, or none.
LEMMA BeginsLock ==
    ASSUME LockInv, UNCHANGED <<disk, stable, intact, exposed>>, known \subseteq known',
           op'.kind # "format", op'.then \in {"add", "remove"} => op'.kind = "key",
           intact => /\ Held(state', known') /\ Sealed(disk, state')
                     /\ pc' # "idle" => TempLock' /\ UpdateLock'
    PROVE  LockInv'
<1>1. HeadersOpen'
  BY HeadersStay DEF LockInv
<1>2. StateLock' /\ PlanInv'
  BY DEF StateLock, PlanInv
<1> QED
  BY <1>1, <1>2 DEF LockInv

\* What is allocated leaves the extended table alone.
LEMMA FreshApart ==
    ASSUME TypeInv, FileInv, LockInv, intact, pc = "idle", pc' = "table", NEW o \in Op,
           NEW s \in VmgsState, o.file \in Files => o.value \in Values,
           \A id \in Ids : s.fcbs[id] = NoFcb \/ \E j \in Ids : s.fcbs[id] = state.fcbs[j],
           s.fcbs[EXTENDED_FILE_TABLE] = state.fcbs[EXTENDED_FILE_TABLE],
           write_files_internal(o, s), state' = state
    PROVE  /\ \A id \in Pending' : \A b \in Extent(temp'.fcbs[id]) :
                  b \notin Extent(state'.fcbs[EXTENDED_FILE_TABLE])
           /\ o.ext => temp'.fcbs[EXTENDED_FILE_TABLE].len = 1
           /\ ~o.ext => temp'.fcbs[EXTENDED_FILE_TABLE] = state.fcbs[EXTENDED_FILE_TABLE]
<1>1. Clean(state.fcbs)
  BY StateOpens
<1>2. Extent(NoFcb) = {}
  BY SMTT(20) DEF Extent, NoFcb
<1>3. \A id \in Ids : Extent(s.fcbs[id]) \subseteq Blocks
  BY <1>1, <1>2 DEF Clean
<1>4. /\ \A id \in Ids : id \notin Fresh(o) => temp'.fcbs[id] = s.fcbs[id]
      /\ \A id \in Fresh(o) : Extent(temp'.fcbs[id]) \cap Used(s.fcbs) = {}
      /\ o.ext => temp'.fcbs[EXTENDED_FILE_TABLE].len = 1
      /\ op' = o
  BY <1>3, Allocated DEF write_files_internal
<1>5. Pending' \subseteq Fresh(o)
  BY <1>4 DEF Pending, Fresh
<1>6. Extent(state.fcbs[EXTENDED_FILE_TABLE]) \subseteq Used(s.fcbs)
  BY TableEntry DEF Used
<1>7. ~o.ext => EXTENDED_FILE_TABLE \notin Fresh(o)
  BY NamesDiffer DEF Fresh, Op
<1> QED
  BY <1>4, <1>5, <1>6, <1>7, TableEntry

\* write_file, move_file and delete_file: the key stays, the metadata key is new.
LEMMA FileLock ==
    ASSUME TypeInv, FileInv, LockInv, pc = "idle", pc' = "table", NEW o \in Op,
           NEW s \in VmgsState, o.file \in Files => o.value \in Values,
           \A id \in Ids : s.fcbs[id] = NoFcb \/ \E j \in Ids : s.fcbs[id] = state.fcbs[j],
           s.fcbs[EXTENDED_FILE_TABLE] = state.fcbs[EXTENDED_FILE_TABLE],
           s.unlocked = state.unlocked, s.encrypted = state.encrypted, s.keys = state.keys,
           s.slots = state.slots, write_files_internal(o, s),
           o.kind \in {"write", "move", "delete"}, o.then = "done",
           o.ext = encrypted_and_unlocked(state),
           UNCHANGED <<disk, stable, state, intact, exposed, known>>
    PROVE  LockInv'
<1> DEFINE u == state.unlocked
<1>1. /\ op' = o /\ temp'.unlocked = u /\ temp'.encrypted = state.encrypted /\ temp'.keys = state.keys
      /\ temp'.slots = IF encrypted_and_unlocked(s)
                       THEN [state.slots EXCEPT ![u] = [key |-> state.keys[u], meta |-> temp'.meta]]
                       ELSE state.slots
  BY FilledKeys
<1>2. encrypted_and_unlocked(s) <=> u # NoIndex
  BY DEF TypeInv, KeyInv, Armed, encrypted_and_unlocked
<1>3. encrypted_and_unlocked(state) <=> u # NoIndex
  BY DEF TypeInv, KeyInv, Armed, encrypted_and_unlocked
<1>4. ASSUME intact
      PROVE  TempLock' /\ UpdateLock' /\ Held(state, known) /\ Sealed(disk, state)
  <2>1. /\ Distinct(state.slots) /\ Held(state, known) /\ Sealed(disk, state)
        /\ state \in VmgsState
    BY <1>4, StateOpens
  <2>2. /\ \A id \in Pending' : \A b \in Extent(temp'.fcbs[id]) :
               b \notin Extent(state'.fcbs[EXTENDED_FILE_TABLE])
        /\ o.ext => temp'.fcbs[EXTENDED_FILE_TABLE].len = 1
        /\ ~o.ext => temp'.fcbs[EXTENDED_FILE_TABLE] = state.fcbs[EXTENDED_FILE_TABLE]
    BY <1>4, FreshApart
  <2>3. ASSUME u # NoIndex
        PROVE  /\ temp'.slots[u] = [key |-> state.keys[u], meta |-> temp'.meta]
               /\ Distinct(temp'.slots)
    <3>1. u \in {0, 1} /\ state.slots \in [{0, 1} -> Slot]
      BY <2>1, <2>3 DEF VmgsState, Slots
    <3>2. temp'.slots = [state.slots EXCEPT ![u] = [key |-> state.keys[u], meta |-> temp'.meta]]
      BY <1>1, <1>2, <2>3
    <3>3. /\ temp'.slots[u] = [key |-> state.keys[u], meta |-> temp'.meta]
          /\ \A j \in {0, 1} : j # u => temp'.slots[j] = state.slots[j]
      BY <3>1, <3>2
    <3>4. state.slots[u].key = state.keys[u] /\ temp'.slots[u].key = state.keys[u]
      BY <2>1, <2>3, <3>3, SMTT(20) DEF Held
    <3>5. \A j \in {0, 1} : temp'.slots[j].key = state.slots[j].key
      BY <3>3, <3>4
    <3>6. Distinct(temp'.slots)
      BY <2>1, <3>5 DEF Distinct
    <3> QED
      BY <3>3, <3>6
  <2>4. Held(temp', known')
    BY <1>1, <1>3, <2>1, <2>2, <2>3 DEF Held
  <2>5. Distinct(temp'.slots)
    BY <1>1, <1>2, <2>1, <2>3
  <2>6. TempLock'
    BY <1>1, <1>2, <1>3, <2>2, <2>4, <2>5 DEF TempLock
  <2>7. UpdateLock'
    BY <1>1 DEF UpdateLock
  <2> QED
    BY <2>1, <2>6, <2>7
<1> QED
  BY <1>1, <1>4, BeginsLock

LEMMA OperationExt ==
    ASSUME TypeInv, NEW kind \in {"write", "move", "delete"}
    PROVE  /\ Operation(kind) \in Op /\ Operation(kind).file = NoFile
           /\ Operation(kind).then = "done" /\ Operation(kind).kind = kind
           /\ Operation(kind).ext = encrypted_and_unlocked(state)
BY OperationType DEF Operation, NoOp

LEMMA ClientLock ==
    ASSUME TypeInv, FileInv, LockInv,
           \/ \E f \in Files, v \in Values : write_file(f, v)
           \/ \E src, dst \in Files, allow \in BOOLEAN : move_file(src, dst, allow)
           \/ \E f \in Files : delete_file(f)
    PROVE  LockInv'
<1>1. state \in VmgsState /\ state.fcbs \in [Ids -> Fcb]
  BY DEF TypeInv, TypeOK, VmgsState
<1>2. ASSUME NEW F \in [Ids -> Fcb]
      PROVE  LET s == [state EXCEPT !.fcbs = F] IN
             /\ s \in VmgsState /\ s.fcbs = F /\ s.unlocked = state.unlocked
             /\ s.encrypted = state.encrypted /\ s.keys = state.keys /\ s.slots = state.slots
  BY <1>1 DEF VmgsState
<1>3. ASSUME NEW f \in Files, NEW v \in Values, write_file(f, v)
      PROVE  LockInv'
  <2> DEFINE o == [Operation("write") EXCEPT !.file = f, !.value = v]
  <2>1. /\ o \in Op /\ o.file = f /\ o.value = v /\ o.then = "done" /\ o.kind = "write"
        /\ o.ext = encrypted_and_unlocked(state)
    <3>1. /\ Operation("write") \in Op /\ Operation("write").then = "done"
          /\ Operation("write").kind = "write"
          /\ Operation("write").ext = encrypted_and_unlocked(state)
      BY OperationExt
    <3> QED
      BY <3>1 DEF Op
  <2>2. /\ write_files_internal(o, state) /\ pc = "idle" /\ pc' = "table"
        /\ UNCHANGED <<disk, stable, state, intact, exposed, known>>
    BY <1>3 DEF write_file
  <2> HIDE DEF o
  <2> QED
    BY <1>1, <2>1, <2>2, FileLock
<1>4. ASSUME NEW src \in Files, NEW dst \in Files, NEW a \in BOOLEAN, move_file(src, dst, a)
      PROVE  LockInv'
  <2> DEFINE F == [[state.fcbs EXCEPT ![src] = NoFcb] EXCEPT ![dst] = state.fcbs[src]]
             s == [state EXCEPT !.fcbs = F]
  <2>1. /\ F \in [Ids -> Fcb]
        /\ \A id \in Ids : F[id] = NoFcb \/ \E j \in Ids : F[id] = state.fcbs[j]
        /\ F[EXTENDED_FILE_TABLE] = state.fcbs[EXTENDED_FILE_TABLE]
    BY <1>1, TableEntry, NamesDiffer DEF NoFcb, Fcb
  <2>2. /\ write_files_internal(Operation("move"), s) /\ pc = "idle" /\ pc' = "table"
        /\ UNCHANGED <<disk, stable, state, intact, exposed, known>>
    BY <1>4 DEF move_file
  <2> HIDE DEF F
  <2>3. /\ s \in VmgsState /\ s.fcbs = F /\ s.unlocked = state.unlocked
        /\ s.encrypted = state.encrypted /\ s.keys = state.keys /\ s.slots = state.slots
    BY <1>2, <2>1
  <2> HIDE DEF s
  <2> QED
    BY <2>1, <2>2, <2>3, OperationExt, FileLock, NamesDiffer
<1>5. ASSUME NEW f \in Files, delete_file(f)
      PROVE  LockInv'
  <2> DEFINE F == [state.fcbs EXCEPT ![f] = NoFcb]
             s == [state EXCEPT !.fcbs = F]
  <2>1. /\ F \in [Ids -> Fcb]
        /\ \A id \in Ids : F[id] = NoFcb \/ \E j \in Ids : F[id] = state.fcbs[j]
        /\ F[EXTENDED_FILE_TABLE] = state.fcbs[EXTENDED_FILE_TABLE]
    BY <1>1, TableEntry, NamesDiffer DEF NoFcb, Fcb
  <2>2. /\ write_files_internal(Operation("delete"), s) /\ pc = "idle" /\ pc' = "table"
        /\ UNCHANGED <<disk, stable, state, intact, exposed, known>>
    BY <1>5 DEF delete_file
  <2> HIDE DEF F
  <2>3. /\ s \in VmgsState /\ s.fcbs = F /\ s.unlocked = state.unlocked
        /\ s.encrypted = state.encrypted /\ s.keys = state.keys /\ s.slots = state.slots
    BY <1>2, <2>1
  <2> HIDE DEF s
  <2> QED
    BY <2>1, <2>2, <2>3, OperationExt, FileLock, NamesDiffer
<1> QED
  BY <1>3, <1>4, <1>5

\* update_encryption_key, with no key, one key or two keys in the slots.
LEMMA UpdateKeyLock ==
    ASSUME TypeInv, TypeInv', FileInv, LockInv, NEW k \in Keys, update_encryption_key(k)
    PROVE  LockInv'
<1> DEFINE old == state.unlocked
           o == [Operation("key") EXCEPT !.ext = TRUE, !.key = k, !.index = old]
           after == [o EXCEPT !.then = IF old = NoIndex THEN "done" ELSE "remove"]
           before == [o EXCEPT !.then = "add"]
           added == WithKey(state, k)
           n == datastore_key_count(state)
<1>1. /\ after \in Op /\ after.file = NoFile /\ after.kind = "key" /\ after.key = k /\ after.ext
      /\ after.index = old /\ after.then = IF old = NoIndex THEN "done" ELSE "remove"
      /\ before.kind = "key" /\ before.key = k /\ before.index = old /\ before.then = "add"
  <2>1. Operation("key") \in Op /\ Operation("key").file = NoFile /\ Operation("key").kind = "key"
    BY OperationType
  <2> QED
    BY <2>1, ZenonT(40) DEF TypeInv, TypeOK, VmgsState, Op
<1>2. /\ state.encrypted => old # NoIndex /\ state.keys[old] # k
      /\ old # NoIndex => state.encrypted /\ state.keys[old] # NoKey
      /\ old \in {0, 1} => state.slots[old] # EmptySlot
      /\ state \in VmgsState /\ Plain(state) /\ Armed(state, NoIndex) /\ old \in {0, 1, NoIndex}
  <2>1. /\ state.encrypted => old # NoIndex /\ state.keys[old] # k
        /\ state \in VmgsState /\ Plain(state) /\ Armed(state, NoIndex)
    BY DEF update_encryption_key, TypeInv, TypeOK, KeyInv
  <2> QED
    BY <2>1, SMTT(20) DEF Armed, VmgsState, NoIndex
<1>3. /\ pc = "idle" /\ known' = known \cup {k}
      /\ UNCHANGED <<disk, stable, state, intact, exposed>>
  BY DEF update_encryption_key
<1> HIDE DEF after, before, added, o
<1>4. ASSUME intact
      PROVE  /\ Held(state, known) /\ Held(state, known') /\ Sealed(disk, state)
             /\ Distinct(state.slots)
  BY <1>3, <1>4, StateOpens DEF Held
<1>5. CASE n = 0
  <2>1. old = NoIndex /\ ~state.encrypted
    BY SMTT(20), <1>2, <1>5 DEF datastore_key_count, NoIndex
  <2>2. write_files_internal(after, added) /\ pc' = "table"
    BY SMTT(20), <1>5 DEF update_encryption_key, after, added, o
  <2>3. /\ added \in VmgsState /\ added.unlocked = 0 /\ added.keys[0] = k /\ added.encrypted
        /\ added.slots[1] = EmptySlot /\ added.fcbs = state.fcbs
    <3>1. added = [state EXCEPT !.encrypted = TRUE, !.keys[0] = k, !.unlocked = 0,
                                !.slots[0] = EmptySlot]
      BY <2>1 DEF added, WithKey
    <3>2. /\ added.unlocked = 0 /\ added.keys = [state.keys EXCEPT ![0] = k] /\ added.encrypted
          /\ added.slots = [state.slots EXCEPT ![0] = EmptySlot] /\ added.fcbs = state.fcbs
      BY <1>2, <3>1 DEF VmgsState
    <3>3. /\ state.keys \in [{0, 1} -> Keys \cup {NoKey}] /\ state.slots \in [{0, 1} -> Slot]
          /\ state.slots[1] = EmptySlot
      BY <1>2, <2>1 DEF VmgsState, Slots, Plain
    <3>4. added \in VmgsState
      BY <1>2, WithKeyType DEF added
    <3> QED
      BY <3>2, <3>3, <3>4
  <2>4. encrypted_and_unlocked(added) /\ 0 # NoIndex
    BY <2>3, SMTT(20) DEF encrypted_and_unlocked, NoIndex
  <2>5. /\ op' = after /\ temp'.unlocked = 0 /\ temp'.keys = added.keys
        /\ temp'.slots = [added.slots EXCEPT ![0] = [key |-> k, meta |-> temp'.meta]]
    BY <2>2, <2>3, <2>4, FilledKeys
  <2>6. temp'.slots[0] = [key |-> k, meta |-> temp'.meta] /\ temp'.slots[1] = EmptySlot
    <3>1. added.slots \in [{0, 1} -> Slot]
      BY <2>3 DEF VmgsState, Slots
    <3> QED
      BY <2>3, <2>5, <3>1, SMTT(20)
  <2>7. Distinct(temp'.slots)
    BY <2>6, NamesAssumption, SMTT(20) DEF Distinct, EmptySlot
  <2>8. ASSUME intact
        PROVE  TempLock' /\ UpdateLock'
    <3>1. /\ \A id \in Pending' : \A b \in Extent(temp'.fcbs[id]) :
                 b \notin Extent(state'.fcbs[EXTENDED_FILE_TABLE])
          /\ temp'.fcbs[EXTENDED_FILE_TABLE].len = 1
      <4>1. after.file \in Files => after.value \in Values
        BY <1>1, NamesDiffer
      <4> QED
        BY <1>1, <1>3, <2>2, <2>3, <2>8, <4>1, FreshApart
    <3>2. temp'.keys[0] = k /\ k \in known'
      BY <1>3, <2>3, <2>5
    <3>3. Held(temp', known')
      BY <2>5, <2>6, <3>1, <3>2 DEF Held
    <3>4. TempLock'
      BY <1>1, <2>2, <2>4, <2>5, <2>7, <3>1, <3>3 DEF TempLock
    <3>5. UpdateLock'
      BY <1>1, <1>3, <2>1, <2>4, <2>5, <3>2 DEF UpdateLock
    <3> QED
      BY <3>4, <3>5
  <2> QED
    BY <1>1, <1>3, <1>4, <2>5, <2>8, BeginsLock
<1>6. CASE n = 1
  <2>1. old \in {0, 1} /\ old # NoIndex /\ after.then = "remove" /\ state.keys[old] # k
    BY SMTT(20), <1>1, <1>2, <1>6 DEF Plain, datastore_key_count, NoIndex
  <2>2. op' = after /\ temp' = encrypt_metadata_key(added) /\ pc' = "flush"
    BY SMTT(20), <1>6 DEF update_encryption_key, after, added, o
  <2>3. ASSUME intact
        PROVE  TempLock' /\ UpdateLock'
    <3>1. /\ temp'.unlocked = 1 - old /\ temp'.unlocked # NoIndex /\ temp'.keys[temp'.unlocked] = k
          /\ temp'.slots[temp'.unlocked] = [key |-> temp'.keys[temp'.unlocked], meta |-> temp'.meta]
          /\ Distinct(temp'.slots) /\ temp'.meta = state.meta /\ temp'.fcbs = state.fcbs
      BY <1>2, <1>4, <2>1, <2>2, <2>3, AddedKey DEF added
    <3>2. state.fcbs[EXTENDED_FILE_TABLE].len = 1 /\ k \in known'
      BY <1>3, <1>4, <2>1, <2>3 DEF Held
    <3>3. Held(temp', known') /\ Sealed(disk', temp')
      BY <1>3, <1>4, <2>1, <2>3, <3>1, <3>2 DEF Held, Sealed
    <3>4. Pending' = {}
      BY <2>2 DEF Pending
    <3>5. TempLock'
      BY <2>2, <3>1, <3>3, <3>4 DEF TempLock
    <3>6. UpdateLock'
      BY <1>1, <2>1, <2>2, <3>1, <3>2 DEF UpdateLock
    <3> QED
      BY <3>5, <3>6
  <2> QED
    BY <1>1, <1>3, <1>4, <2>2, <2>3, BeginsLock
<1>7. CASE n # 0 /\ n # 1
  <2>1. op' = before /\ temp' = WithoutKey(state, 1 - old) /\ pc' = "flush"
    BY <1>7 DEF update_encryption_key, before, o
  <2>2. /\ state.slots[0] # EmptySlot /\ state.slots[1] # EmptySlot /\ old \in {0, 1}
        /\ old # NoIndex /\ state.keys[old] # k
    BY SMTT(20), <1>2, <1>7 DEF Plain, datastore_key_count, NoIndex
  <2>3. ASSUME intact
        PROVE  TempLock' /\ UpdateLock'
    <3>1. 1 - old \in {0, 1} /\ old = 1 - (1 - old)
      BY SMTT(20), <2>2
    <3>2. /\ temp'.unlocked = old /\ temp'.keys[temp'.unlocked] = state.keys[old]
          /\ temp'.slots[temp'.unlocked] = [key |-> temp'.keys[temp'.unlocked], meta |-> temp'.meta]
          /\ Distinct(temp'.slots) /\ temp'.meta = state.meta /\ temp'.fcbs = state.fcbs
      BY <1>2, <1>4, <2>1, <2>2, <2>3, <3>1, RemovedKey
    <3>3. /\ state.fcbs[EXTENDED_FILE_TABLE].len = 1 /\ state.keys[old] \in known'
          /\ k \in known'
      BY <1>3, <1>4, <2>2, <2>3 DEF Held
    <3>4. Held(temp', known') /\ Sealed(disk', temp')
      BY <1>3, <1>4, <2>2, <2>3, <3>2, <3>3 DEF Held, Sealed
    <3>5. Pending' = {}
      BY <2>1 DEF Pending
    <3>6. TempLock'
      BY <2>1, <2>2, <3>2, <3>4, <3>5 DEF TempLock
    <3>7. UpdateLock'
      BY <1>1, <2>1, <2>2, <3>2, <3>3 DEF UpdateLock
    <3> QED
      BY <3>6, <3>7
  <2> QED
    BY <1>1, <1>3, <1>4, <2>1, <2>3, BeginsLock
<1> QED
  BY <1>5, <1>6, <1>7

LEMMA UnlockLock ==
    ASSUME TypeInv, FileInv, LockInv, NEW k \in Keys, unlock_with_encryption_key(k)
    PROVE  LockInv'
<1> DEFINE i == SlotOf(state.slots, k)
<1>1. /\ i \in {0, 1} /\ state.slots[i].key = k /\ state.encrypted
      /\ disk[state.fcbs[EXTENDED_FILE_TABLE].at] = Extended(state.slots[i].meta)
  BY DEF unlock_with_encryption_key, Unlocks, SlotOf, NoIndex
<1>2. /\ state' = [state EXCEPT !.keys[i] = k, !.unlocked = i, !.meta = state.slots[i].meta]
      /\ known' = known \cup {k} /\ pc = "idle" /\ op' = op /\ pc' = pc
      /\ UNCHANGED <<disk, stable, intact, exposed>>
  BY DEF unlock_with_encryption_key
<1> HIDE DEF i
<1>3. state \in VmgsState /\ state.slots[i] \in Slot /\ op = NoOp
  BY <1>1, <1>2 DEF TypeInv, TypeOK, VmgsState, Slots, OpInv
<1>4. /\ state'.unlocked = i /\ state'.slots = state.slots /\ state'.meta = state.slots[i].meta
      /\ state'.fcbs = state.fcbs /\ state'.keys[i] = k
  <2>1. state.keys \in [{0, 1} -> Keys \cup {NoKey}]
    BY <1>3 DEF VmgsState
  <2> QED
    BY <1>1, <1>2, <1>3, <2>1 DEF VmgsState
<1>5. state.slots[i] = [key |-> k, meta |-> state.slots[i].meta]
  BY <1>1, <1>3, SMTT(20) DEF Slot
<1>6. ASSUME intact
      PROVE  Held(state', known') /\ Sealed(disk, state')
  <2>1. state.fcbs[EXTENDED_FILE_TABLE].len = 1
    BY <1>1, <1>2, <1>6, StateOpens DEF Opens
  <2>2. k \in known'
    BY <1>2
  <2> QED
    BY <1>1, <1>4, <1>5, <2>1, <2>2 DEF Held, Sealed
<1>7. op'.kind # "format" /\ op'.then = "done"
  BY <1>2, <1>3, SMTT(20) DEF NoOp
<1> QED
  BY <1>2, <1>6, <1>7, BeginsLock

LEMMA FormatLock ==
    ASSUME NEW then \in {"done", "mark"}, StartFormat(then)
    PROVE  LockInv'
<1> DEFINE o == [NoOp EXCEPT !.kind = "format", !.ext = TRUE, !.then = then]
<1>1. write_files_internal(o, NewState) /\ ~intact'
  BY DEF StartFormat
<1>2. o.then = then /\ ~NewState.encrypted
  BY SMTT(20) DEF NoOp, NewState
<1> HIDE DEF o
<1>3. op' = o /\ temp'.encrypted = NewState.encrypted
  BY <1>1, NewStateType, FilledKeys
<1> QED
  BY <1>1, <1>2, <1>3 DEF LockInv, HeadersOpen, StateLock, PlanInv

\* open, and a format that was already done: nothing is unlocked yet.
LEMMA OpenLock ==
    ASSUME TypeInv, TypeInv', FileInv, LockInv, open \/ request_format
    PROVE  LockInv'
<1> DEFINE s == FromDisk(disk, Active)
<1>1. CASE /\ Active # NoIndex /\ TableIsValid(disk, Active) /\ state' = s
           /\ temp' = [s EXCEPT !.reprovisioned = FALSE] \/ temp' = s
           /\ op' = [NoOp EXCEPT !.kind = "open"] \/ op' = NoOp
           /\ pc' \in {"flush", "idle"}
           /\ UNCHANGED <<disk, stable, intact, exposed, known>>
  <2>1. /\ s \in VmgsState /\ Plain(s) /\ s.unlocked = NoIndex
    BY <1>1, FromDiskKeys DEF Active, TypeInv, TypeOK, KeyInv
  <2>2. s.encrypted = disk[Active].encrypted /\ s.slots = disk[Active].slots
    BY DEF FromDisk, NewState
  <2> HIDE DEF s
  <2>3. /\ temp'.slots = s.slots /\ temp'.encrypted = s.encrypted /\ temp'.fcbs = s.fcbs
        /\ temp'.unlocked = NoIndex
    BY <1>1, <2>1 DEF VmgsState
  <2>4. op'.kind \in {"open", "none"} /\ op'.then = "done"
    BY <1>1, SMTT(20) DEF NoOp
  <2>5. ASSUME intact
        PROVE  /\ Held(state', known') /\ Sealed(disk, state')
               /\ pc' # "idle" => TempLock' /\ UpdateLock'
    <3>1. Distinct(s.slots)
      BY <2>1, <2>2, <2>5, PlainDistinct DEF LockInv, HeadersOpen, Opens
    <3>2. pc' # "idle" => pc' = "flush" /\ Pending' = {}
      BY <1>1 DEF Pending
    <3>3. pc' # "idle" => TempLock'
      BY <1>1, <2>3, <3>1, <3>2 DEF TempLock, Held, Sealed
    <3>4. UpdateLock'
      BY <2>4 DEF UpdateLock
    <3> QED
      BY <1>1, <2>1, <3>3, <3>4 DEF Held, Sealed
  <2> QED
    BY <1>1, <2>4, <2>5, BeginsLock
<1>2. CASE StartFormat("mark")
  BY <1>2, FormatLock
<1> QED
  BY <1>1, <1>2 DEF open, request_format, Active

LEMMA RequestLock ==
    ASSUME TypeInv, TypeInv', FileInv, LockInv, Request \/ Access
    PROVE  LockInv'
BY ClientLock, UpdateKeyLock, UnlockLock, OpenLock, FormatLock DEF Request, Access, format_new

\* Writing a block that is not the extended table in use.
LEMMA BlockApart ==
    ASSUME TypeInv, FileInv, LockInv, intact, WriteFileTable \/ WriteData \/ WriteExtendedTable
    PROVE  \E b \in Blocks : /\ b \notin Extent(state.fcbs[EXTENDED_FILE_TABLE])
                             /\ \A l \in Locations : l # b => disk'[l] = disk[l]
<1> DEFINE F == temp.fcbs
<1>1. /\ disk \in [Locations -> Content] /\ op \in Op
      /\ pc \in {"table", "data", "extended"} => Clean(F) /\ TempLock
  <2>1. disk \in [Locations -> Content] /\ op \in Op
    BY DEF TypeInv, TypeOK
  <2>2. ASSUME pc \in {"table", "data", "extended"}
        PROVE  Clean(F) /\ TempLock
    BY <2>2 DEF FileInv, StepInv, LockInv
  <2> QED
    BY <2>1, <2>2
<1>2. ASSUME NEW id \in Pending, NEW b \in Extent(F[id]), NEW c, disk' = [disk EXCEPT ![b] = c],
             pc \in {"table", "data", "extended"}
      PROVE  \E x \in Blocks : /\ x \notin Extent(state.fcbs[EXTENDED_FILE_TABLE])
                               /\ \A l \in Locations : l # x => disk'[l] = disk[l]
  <2>1. b \notin Extent(state.fcbs[EXTENDED_FILE_TABLE])
    BY <1>1, <1>2 DEF TempLock
  <2>2. b \in Blocks
    BY <1>1, <1>2 DEF Clean, Pending
  <2>3. \A l \in Locations : l # b => disk'[l] = disk[l]
    BY <1>1, <1>2
  <2> QED
    BY <2>1, <2>2, <2>3
<1>3. CASE WriteFileTable
  <2>1. pc = "table" /\ disk' = [disk EXCEPT ![F[FILE_TABLE].at] = Table(F)]
    BY <1>3 DEF WriteFileTable, WriteBlock
  <2>2. F[FILE_TABLE].at \in Extent(F[FILE_TABLE]) /\ FILE_TABLE \in Pending
    BY <1>1, <2>1, TableBlock, TableEntry DEF Pending
  <2> QED
    BY <1>2, <2>1, <2>2
<1>4. CASE WriteData
  <2> DEFINE b == F[op.file].at + op.part
  <2>1. pc = "data" /\ disk' = [disk EXCEPT ![b] = Data(op.value, op.part)]
    BY <1>4 DEF WriteData, WriteBlock
  <2>2. /\ op.file \in Files /\ op.value \in Values /\ Size[op.value] \in Nat /\ F[op.file] \in Fcb
        /\ op.part < Size[op.value] /\ F[op.file].len = Size[op.value] /\ op.part \in Nat
    BY <1>1, <2>1, SizeAssumption, TableEntry DEF FileInv, StepInv, TypeInv, OpInv, Clean, Op
  <2>3. b \in Extent(F[op.file])
    BY SMTT(20), <2>2 DEF Extent, Fcb
  <2>4. op.file \in Pending
    BY <2>1, <2>2, TableEntry DEF Pending
  <2> QED
    BY <1>2, <2>1, <2>3, <2>4
<1>5. CASE WriteExtendedTable
  <2>1. /\ pc = "extended"
        /\ disk' = [disk EXCEPT ![F[EXTENDED_FILE_TABLE].at] = Extended(temp.meta)]
    BY <1>5 DEF WriteExtendedTable, WriteBlock
  <2>2. op.ext /\ F[EXTENDED_FILE_TABLE].len = 1
    BY <2>1 DEF FileInv
  <2>3. /\ F[EXTENDED_FILE_TABLE].at \in Extent(F[EXTENDED_FILE_TABLE])
        /\ EXTENDED_FILE_TABLE \in Pending
    BY <1>1, <2>1, <2>2, ExtendedBlock, TableEntry DEF Pending
  <2> QED
    BY <1>2, <2>1, <2>3
<1> QED
  BY <1>3, <1>4, <1>5

LEMMA BlockLock ==
    ASSUME TypeInv, FileInv, FileInv', LockInv, WriteFileTable \/ WriteData \/ WriteExtendedTable
    PROVE  LockInv'
<1>1. /\ pc \in {"table", "data", "extended"} /\ pc' \notin {"closed", "idle", "header"}
      /\ exposed' = (exposed \/ ~HeaderIsFlushed)
      /\ op' = op \/ op' = [op EXCEPT !.part = op.part + 1]
      /\ UNCHANGED <<stable, state, temp, intact, known>>
  <2>1. CASE WriteFileTable
    BY <2>1 DEF WriteFileTable, WriteBlock, AfterData, AfterFiles
  <2>2. CASE WriteData
    BY <2>2 DEF WriteData, WriteBlock, AfterData, AfterFiles
  <2>3. CASE WriteExtendedTable
    BY <2>3 DEF WriteExtendedTable, WriteBlock, AfterFiles
  <2> QED
    BY <2>1, <2>2, <2>3
<1>2. /\ op'.kind = op.kind /\ op'.then = op.then /\ op'.ext = op.ext /\ op'.file = op.file
      /\ op'.key = op.key /\ op'.index = op.index
  BY <1>1 DEF TypeInv, TypeOK, Op
<1>3. PlanInv'
  BY <1>1, <1>2 DEF LockInv, PlanInv
<1>4. CASE ~intact
  BY <1>1, <1>3, <1>4 DEF LockInv, HeadersOpen, StateLock
<1>5. CASE intact
  <2>1. TempLock /\ UpdateLock /\ HeadersOpen /\ StateLock
    BY <1>1, <1>5 DEF LockInv
  <2>2. PICK b \in Blocks : /\ b \notin Extent(state.fcbs[EXTENDED_FILE_TABLE])
                            /\ \A l \in Locations : l # b => disk'[l] = disk[l]
    BY <1>5, BlockApart
  <2>3. /\ Active' = Active /\ Current' = Current /\ disk'[Active] = disk[Active]
        /\ Current = state.fcbs /\ Active = state.active
    BY <1>1, <1>5, SameHeader DEF FileInv, MemoryInv
  <2>4. Clean(state.fcbs)
    BY <1>1, <1>5, StateOpens
  <2>5. ASSUME state.fcbs[EXTENDED_FILE_TABLE].len = 1
        PROVE  disk'[state.fcbs[EXTENDED_FILE_TABLE].at] = disk[state.fcbs[EXTENDED_FILE_TABLE].at]
    BY <2>2, <2>4, <2>5, ExtendedBlock, BlocksAreLocations
  <2>6. Opens(disk', disk'[Active], Current, known)
    <3>1. Opens(disk, disk[Active], Current, known)
      BY <1>5, <2>1 DEF HeadersOpen
    <3> QED
      BY <2>3, <2>5, <3>1, OpensFrame
  <2>7. disk'[Active] # stable[Active] => exposed'
    BY <1>1, <2>3 DEF HeaderIsFlushed
  <2>8. HeadersOpen'
    BY <1>1, <1>5, <2>1, <2>3, <2>6, <2>7 DEF HeadersOpen
  <2>9. StateLock'
    <3>1. Held(state, known) /\ Sealed(disk, state)
      BY <1>1, <1>5, <2>1 DEF StateLock
    <3>2. Sealed(disk', state)
      BY <2>5, <3>1 DEF Held, Sealed
    <3> QED
      BY <1>1, <3>1, <3>2 DEF StateLock
  <2>10. op.ext <=> temp.unlocked # NoIndex
    BY <1>1, <2>1 DEF TempLock
  <2>11. pc' = "flush" => Sealed(disk', temp)
    <3>1. CASE WriteExtendedTable
      <4>1. disk' = [disk EXCEPT ![temp.fcbs[EXTENDED_FILE_TABLE].at] = Extended(temp.meta)]
        BY <3>1 DEF WriteExtendedTable, WriteBlock
      <4>2. temp.fcbs[EXTENDED_FILE_TABLE].len = 1 /\ Clean(temp.fcbs)
        BY <1>1, <1>5, <3>1 DEF WriteExtendedTable, FileInv, StepInv
      <4>3. temp.fcbs[EXTENDED_FILE_TABLE].at \in Locations /\ disk \in [Locations -> Content]
        BY <4>2, ExtendedBlock, BlocksAreLocations DEF TypeInv, TypeOK
      <4> QED
        BY <4>1, <4>3 DEF Sealed
    <3>2. CASE WriteFileTable \/ WriteData
      <4>1. pc' = "flush" => ~op.ext
        BY <3>2 DEF WriteFileTable, WriteData, AfterData
      <4> QED
        BY <2>10, <4>1 DEF Sealed
    <3> QED
      BY <3>1, <3>2
  <2>12. Pending' \subseteq Pending
    <3>1. /\ pc' = "table" => pc = "table"
          /\ pc' = "data" => pc \in {"table", "data"}
      BY DEF WriteFileTable, WriteData, WriteExtendedTable, AfterData, AfterFiles
    <3> QED
      BY <1>1, <1>2, <3>1 DEF Pending
  <2>13. TempLock'
    BY <1>1, <1>2, <2>1, <2>10, <2>11, <2>12 DEF TempLock
  <2>14. UpdateLock'
    BY <1>1, <1>2, <2>1 DEF UpdateLock
  <2> QED
    BY <1>3, <2>8, <2>9, <2>13, <2>14 DEF LockInv
<1> QED
  BY <1>4, <1>5

LEMMA FlushLock ==
    ASSUME LockInv, Flush
    PROVE  LockInv'
<1>1. /\ pc = "flush" /\ pc' = "header" /\ stable' = disk /\ exposed' = FALSE
      /\ UNCHANGED <<disk, op, state, temp, intact, known>>
  BY DEF Flush
<1>2. Active' = Active /\ Current' = Current /\ Pending' = {}
  BY <1>1 DEF Active, Current, Pending
<1>3. HeadersOpen'
  BY <1>1, <1>2 DEF LockInv, HeadersOpen
<1>4. StateLock' /\ PlanInv'
  BY <1>1 DEF LockInv, StateLock, PlanInv
<1>5. ASSUME intact
      PROVE  TempLock' /\ UpdateLock'
  <2>1. TempLock /\ UpdateLock
    BY <1>1, <1>5 DEF LockInv
  <2>2. TempLock'
    BY <1>1, <1>2, <2>1 DEF TempLock
  <2> QED
    BY <1>1, <2>1, <2>2 DEF UpdateLock
<1> QED
  BY <1>1, <1>3, <1>4, <1>5 DEF LockInv

\* The same blocks open the same headers.
LEMMA OpensBlocks ==
    ASSUME NEW d, NEW e, NEW h, NEW g, NEW fcbs, NEW F, NEW K, Opens(d, h, fcbs, K), Clean(fcbs),
           \A b \in Blocks : e[b] = d[b], g.encrypted = h.encrypted, g.slots = h.slots,
           F[EXTENDED_FILE_TABLE] = fcbs[EXTENDED_FILE_TABLE]
    PROVE  Opens(e, g, F, K)
<1>1. fcbs[EXTENDED_FILE_TABLE].len = 1 =>
          e[fcbs[EXTENDED_FILE_TABLE].at] = d[fcbs[EXTENDED_FILE_TABLE].at]
  BY ExtendedBlock
<1> QED
  BY <1>1, OpensFrame

\* The next header of update_encryption_key.
LEMMA KeyStep ==
    ASSUME pc' = "flush", temp'.unlocked # NoIndex, Distinct(temp'.slots), Held(temp', known'),
           Sealed(disk', temp')
    PROVE  TempLock'
<1>1. Pending' = {}
  BY DEF Pending
<1> QED
  BY <1>1 DEF TempLock

\* The commit: what the new header and the one before it can be unlocked with.
LEMMA CommitOpens ==
    ASSUME TypeInv, FileInv, FileInv', LockInv, intact, WriteHeader
    PROVE  /\ HeadersOpen' /\ state' = Turned(temp)
           /\ Held(Turned(temp), known') /\ Sealed(disk', Turned(temp))
<1> DEFINE s == Turned(temp)
<1>1. /\ pc = "header" /\ stable' = stable /\ intact' = intact
      /\ known' = IF op.kind = "key" /\ op.then = "done" THEN {op.key} ELSE known
  BY DEF WriteHeader
<1>2. TempLock /\ UpdateLock /\ HeadersOpen
  BY <1>1 DEF LockInv
<1>3. /\ temp \in VmgsState /\ Plain(temp) /\ Armed(temp, NoIndex)
      /\ op.then = "done" \/ op.then # "done"
  BY DEF TypeInv, TypeOK, KeyInv
<1>4. /\ s \in VmgsState /\ Armed(s, NoIndex) /\ s.keys = temp.keys /\ s.slots = temp.slots
      /\ s.unlocked = temp.unlocked /\ s.encrypted = temp.encrypted
      /\ s.fcbs = temp.fcbs /\ s.meta = temp.meta
  <2>1. s.fcbs = temp.fcbs /\ s.meta = temp.meta
    BY <1>3 DEF Turned, VmgsState
  <2> QED
    BY <1>3, <2>1, TurnedKeys
<1>5. /\ Active' = 1 - Active /\ 1 - Active' = Active /\ Current' = temp.fcbs
      /\ disk'[Active'] = make_header(s) /\ state' = s /\ stable' = disk
      /\ disk'[Active'] # stable'[Active'] /\ \A b \in Blocks : disk'[b] = disk[b]
  BY <1>1, Committed
<1> HIDE DEF s
<1>6. Clean(temp.fcbs) /\ Distinct(temp.slots) /\ Held(temp, known) /\ Sealed(disk, temp)
  BY <1>1, <1>2 DEF FileInv, StepInv, TempLock
<1>7. Held(s, known')
  <2>1. Held(s, known)
    BY <1>4, <1>6 DEF Held
  <2>2. CASE op.kind = "key" /\ op.then = "done"
    <3>1. temp.keys[temp.unlocked] = op.key
      BY <1>2, <2>2 DEF UpdateLock
    <3> QED
      BY <1>1, <1>4, <2>1, <2>2, <3>1 DEF Held
  <2>3. CASE ~(op.kind = "key" /\ op.then = "done")
    BY <1>1, <2>1, <2>3
  <2> QED
    BY <2>2, <2>3
<1>8. Sealed(disk', s)
  <2>1. temp.unlocked # NoIndex => temp.fcbs[EXTENDED_FILE_TABLE].at \in Blocks
    BY <1>6, ExtendedBlock DEF Held
  <2> QED
    BY <1>4, <1>5, <1>6, <2>1 DEF Sealed
<1>9. /\ Opens(disk, state, state.fcbs, known) /\ Clean(state.fcbs) /\ state \in VmgsState
      /\ Distinct(state.slots) /\ Held(state, known) /\ Sealed(disk, state) /\ Armed(state, NoIndex)
      /\ disk[Active].encrypted = state.encrypted /\ disk[Active].slots = state.slots
      /\ Current = state.fcbs
  BY <1>1, StateOpens
<1>10. Opens(disk', s, s.fcbs, known')
  <2>1. CASE temp.unlocked # NoIndex
    <3>1. s.keys[s.unlocked] \in known'
      BY <1>4, <1>7, <2>1 DEF Held
    <3> QED
      BY <1>4, <1>6, <1>7, <1>8, <2>1, <3>1, SealedOpens
  <2>2. CASE temp.unlocked = NoIndex
    <3>1. known' = known
      BY <1>1, <1>2, <2>2 DEF UpdateLock
    <3>2. /\ temp.slots = state.slots /\ temp.encrypted = state.encrypted
          /\ temp.fcbs[EXTENDED_FILE_TABLE] = state.fcbs[EXTENDED_FILE_TABLE]
      BY <1>2, <2>2 DEF TempLock
    <3>3. /\ s.slots = state.slots /\ s.encrypted = state.encrypted
          /\ s.fcbs[EXTENDED_FILE_TABLE] = state.fcbs[EXTENDED_FILE_TABLE]
      BY <1>4, <3>2
    <3>4. Opens(disk', s, s.fcbs, known)
      BY <1>5, <1>9, <3>3, OpensBlocks
    <3> QED
      BY <3>1, <3>4
  <2> QED
    BY <2>1, <2>2
<1>11. Opens(disk', disk'[Active'], Current', known')
  BY <1>4, <1>5, <1>10, HeaderKeys DEF Opens
<1>12. Opens(disk, disk[Active], Current, known')
  <2>1. CASE op.kind = "key" /\ op.then = "done" /\ state.encrypted
    <3>1. known' = {op.key} /\ state.unlocked # NoIndex /\ state.keys[state.unlocked] = op.key
      BY <1>1, <1>2, <2>1 DEF UpdateLock
    <3>2. Opens(disk, state, state.fcbs, known')
      BY <1>9, <3>1, SealedOpens
    <3> QED
      BY <1>9, <3>2 DEF Opens
  <2>2. CASE op.kind = "key" /\ op.then = "done" /\ ~state.encrypted
    BY <1>9, <2>2 DEF Opens
  <2>3. CASE ~(op.kind = "key" /\ op.then = "done")
    BY <1>1, <1>2, <2>3 DEF HeadersOpen
  <2> QED
    BY <2>1, <2>2, <2>3
<1>13. HeadersOpen'
  <2>1. stable'[1 - Active'] = disk[Active] /\ stable'[stable'[1 - Active'].table].fcbs = Current
    BY <1>5 DEF Current
  <2> QED
    BY <1>5, <1>11, <1>12, <2>1 DEF HeadersOpen
<1> QED
  BY <1>5, <1>7, <1>8, <1>13 DEF s

\* The commit, and how the operation goes on.
LEMMA HeaderLock ==
    ASSUME TypeInv, FileInv, FileInv', RequestInv, LockInv, WriteHeader
    PROVE  LockInv'
<1> DEFINE s == Turned(temp)
<1>1. /\ pc = "header" /\ Continue(s) /\ intact' = intact
      /\ known' = IF op.kind = "key" /\ op.then = "done" THEN {op.key} ELSE known
  BY DEF WriteHeader
<1>2. /\ op \in Op /\ s \in VmgsState /\ Armed(s, NoIndex) /\ s.keys = temp.keys
      /\ s.slots = temp.slots /\ s.unlocked = temp.unlocked
  BY TurnedKeys DEF TypeInv, TypeOK, KeyInv
<1>3. /\ op.then = "add" =>
           /\ temp' = encrypt_metadata_key(WithKey(s, op.key)) /\ pc' = "flush"
           /\ op' = [op EXCEPT !.then = "remove"]
      /\ op.then = "remove" =>
           /\ temp' = WithoutKey(s, op.index) /\ pc' = "flush" /\ op' = [op EXCEPT !.then = "done"]
      /\ op.then = "done" => op' = NoOp /\ pc' = "idle"
  BY <1>1 DEF Continue
<1> HIDE DEF s
<1>4. op.then # "done" => op'.kind = op.kind /\ op'.key = op.key /\ op'.index = op.index
  <2>1. op.then # "done" => \E t : op' = [op EXCEPT !.then = t]
    BY <1>1, <1>2 DEF Continue, Op
  <2> QED
    BY <1>2, <2>1 DEF Op
<1>5. op.then = "mark" => op.kind = "format"
  BY DEF RequestInv
<1>6. CASE ~intact
  <2>1. op.kind # "format"
    BY <1>1, <1>6 DEF FileInv, FormatInv
  <2>2. CASE op.then = "done"
    <3>1. op'.kind # "format" /\ op'.then = "done"
      BY <1>3, <2>2, SMTT(20) DEF NoOp
    <3> QED
      BY <1>1, <1>6, <3>1 DEF LockInv, PlanInv, HeadersOpen, StateLock
  <2>3. CASE op.then # "done"
    <3>1. op.kind = "key"
      BY <1>2, <1>5, <2>1, <2>3 DEF Op, LockInv, PlanInv
    <3> QED
      BY <1>1, <1>4, <1>6, <2>3, <3>1 DEF LockInv, PlanInv, HeadersOpen, StateLock
  <2> QED
    BY <2>2, <2>3
<1>7. CASE intact
  <2>1. HeadersOpen' /\ state' = s /\ Held(s, known') /\ Sealed(disk', s)
    BY <1>7, CommitOpens DEF s
  <2>2. StateLock'
    BY <2>1 DEF StateLock
  <2>3. UpdateLock
    BY <1>1, <1>7 DEF LockInv
  <2>4. CASE op.then = "add"
    <3>1. /\ op.kind = "key" /\ op.key \in Keys /\ op.index \in {0, 1} /\ temp.unlocked = op.index
      BY <2>4 DEF LockInv, PlanInv, TypeInv, OpInv
    <3>2. /\ s.unlocked = op.index /\ s.keys[s.unlocked] # op.key /\ op.key \in known
          /\ s.unlocked # NoIndex
      BY <1>2, <2>3, <2>4, <3>1 DEF UpdateLock
    <3>3. known' = known
      BY <1>1, <2>4
    <3>4. /\ temp'.unlocked = 1 - s.unlocked /\ temp'.unlocked # NoIndex
          /\ temp'.keys[temp'.unlocked] = op.key
          /\ temp'.slots[temp'.unlocked] = [key |-> temp'.keys[temp'.unlocked], meta |-> temp'.meta]
          /\ Distinct(temp'.slots) /\ temp'.meta = s.meta /\ temp'.fcbs = s.fcbs
      <4> DEFINE t == encrypt_metadata_key(WithKey(s, op.key))
      <4>1. /\ t.unlocked = 1 - s.unlocked /\ t.unlocked # NoIndex /\ t.keys[t.unlocked] = op.key
            /\ t.slots[t.unlocked] = [key |-> t.keys[t.unlocked], meta |-> t.meta]
            /\ Distinct(t.slots) /\ t.meta = s.meta /\ t.fcbs = s.fcbs
        BY <1>2, <2>1, <3>1, <3>2, AddedKey
      <4>2. temp' = t
        BY <1>3, <2>4
      <4> HIDE DEF t
      <4> QED
        BY <4>1, <4>2
    <3>5. Held(temp', known') /\ Sealed(disk', temp')
      BY <2>1, <3>2, <3>3, <3>4 DEF Held, Sealed
    <3>6. op'.kind = "key" /\ op'.key = op.key /\ op'.index = op.index /\ op'.then = "remove"
      BY <1>2, <1>3, <1>4, <2>4, <3>1 DEF Op
    <3>7. TempLock'
      BY <1>3, <2>4, <3>4, <3>5, KeyStep
    <3>8. UpdateLock' /\ PlanInv'
      BY <3>2, <3>3, <3>4, <3>6 DEF UpdateLock, PlanInv
    <3> QED
      BY <2>1, <2>2, <3>7, <3>8 DEF LockInv
  <2>5. CASE op.then = "remove"
    <3>1. /\ op.kind = "key" /\ op.index \in {0, 1}
          /\ temp.slots[0] # EmptySlot /\ temp.slots[1] # EmptySlot
      BY <2>5 DEF LockInv, PlanInv, TypeInv, OpInv
    <3>2. /\ s.unlocked = 1 - op.index /\ s.keys[s.unlocked] = op.key /\ op.key \in known
          /\ s.unlocked # NoIndex
      BY <1>2, <2>3, <2>5, <3>1 DEF UpdateLock
    <3>3. known' = known
      BY <1>1, <2>5
    <3>4. /\ temp'.unlocked = s.unlocked /\ temp'.keys[temp'.unlocked] = s.keys[s.unlocked]
          /\ temp'.slots[temp'.unlocked] = [key |-> temp'.keys[temp'.unlocked], meta |-> temp'.meta]
          /\ Distinct(temp'.slots) /\ temp'.meta = s.meta /\ temp'.fcbs = s.fcbs
      <4> DEFINE t == WithoutKey(s, op.index)
      <4>1. s.slots[0] # EmptySlot /\ s.slots[1] # EmptySlot
        BY <1>2, <3>1
      <4>2. /\ t.unlocked = s.unlocked /\ t.keys[t.unlocked] = s.keys[s.unlocked]
            /\ t.slots[t.unlocked] = [key |-> t.keys[t.unlocked], meta |-> t.meta]
            /\ Distinct(t.slots) /\ t.meta = s.meta /\ t.fcbs = s.fcbs
        BY <1>2, <2>1, <3>1, <3>2, <4>1, RemovedKey
      <4>3. temp' = t
        BY <1>3, <2>5
      <4> HIDE DEF t
      <4> QED
        BY <4>2, <4>3
    <3>5. Held(temp', known') /\ Sealed(disk', temp')
      BY <2>1, <3>2, <3>3, <3>4 DEF Held, Sealed
    <3>6. op'.kind = "key" /\ op'.key = op.key /\ op'.index = op.index /\ op'.then = "done"
      BY <1>2, <1>3, <1>4, <2>5, <3>1 DEF Op
    <3>7. TempLock'
      BY <1>3, <2>5, <3>2, <3>4, <3>5, KeyStep
    <3>8. UpdateLock' /\ PlanInv'
      BY <2>1, <3>2, <3>3, <3>4, <3>6 DEF UpdateLock, PlanInv
    <3> QED
      BY <2>1, <2>2, <3>7, <3>8 DEF LockInv
  <2>6. CASE op.then = "done"
    <3>1. op'.kind # "format" /\ op'.then = "done"
      BY <1>3, <2>6, SMTT(20) DEF NoOp
    <3> QED
      BY <1>3, <2>1, <2>2, <2>6, <3>1 DEF LockInv, PlanInv
  <2>7. op.then # "mark"
    BY <1>5, <1>7 DEF RequestInv
  <2> QED
    BY <1>2, <2>4, <2>5, <2>6, <2>7 DEF Op
<1> QED
  BY <1>6, <1>7

\* A format.
LEMMA FormatStepLock ==
    ASSUME TypeInv, FileInv, FileInv', RequestInv, LockInv,
           ZeroHeader \/ WriteFormatHeader \/ FlushFormat
    PROVE  LockInv'
<1>1. CASE ZeroHeader
  <2>1. pc = "zero" /\ UNCHANGED <<op, temp, intact>>
    BY <1>1 DEF ZeroHeader
  <2>2. ~intact'
    BY <2>1 DEF FileInv, FormatInv
  <2> QED
    BY <2>1, <2>2 DEF LockInv, PlanInv, HeadersOpen, StateLock
<1>2. CASE WriteFormatHeader
  <2>1. pc = "format header" /\ temp' = Turned(temp) /\ UNCHANGED <<op, intact>>
    BY <1>2 DEF WriteFormatHeader
  <2>2. ~intact'
    BY <2>1 DEF FileInv, FormatInv
  <2>3. temp'.encrypted = temp.encrypted
    BY <2>1, TurnedKeys DEF TypeInv, TypeOK, KeyInv
  <2> QED
    BY <2>1, <2>2, <2>3 DEF LockInv, PlanInv, HeadersOpen, StateLock
<1>3. CASE FlushFormat
  <2>1. /\ pc = "format flush" /\ stable' = disk' /\ state' = temp /\ Continue(temp) /\ intact'
    BY <1>3 DEF FlushFormat
  <2>2. op.kind = "format" /\ op.then \in {"mark", "done"} /\ ~temp.encrypted /\ op \in Op
    BY <2>1 DEF FileInv, FormatInv, RequestInv, LockInv, PlanInv, TypeInv, TypeOK
  <2>3. /\ temp \in VmgsState /\ Plain(temp) /\ temp.unlocked = NoIndex
    BY <2>2 DEF TypeInv, TypeOK, KeyInv, Armed
  <2>4. pc' # "closed"
    BY <2>1, <2>3, ContinueLayout
  <2>5. ~disk'[Active'].encrypted
    <3>1. disk'[Active'] = make_header(temp)
      BY <2>1, <2>4 DEF FileInv, MemoryInv
    <3> QED
      BY <2>2, <3>1, HeaderKeys
  <2>6. HeadersOpen' /\ StateLock'
    BY <2>1, <2>3, <2>5 DEF HeadersOpen, StateLock, Opens, Held, Sealed
  <2>7. CASE op.then = "mark"
    <3>1. /\ temp' = [temp EXCEPT !.reprovisioned = TRUE] /\ op' = [op EXCEPT !.then = "done"]
          /\ pc' = "flush"
      BY <2>1, <2>7 DEF Continue
    <3>2. /\ temp'.slots = temp.slots /\ temp'.encrypted = temp.encrypted
          /\ temp'.unlocked = temp.unlocked /\ temp'.fcbs = temp.fcbs
      BY <2>3, <3>1 DEF VmgsState
    <3>3. op'.kind = "format" /\ op'.then = "done"
      BY <2>2, <3>1 DEF Op
    <3>4. Distinct(temp.slots)
      BY <2>2, <2>3, PlainDistinct
    <3>5. Pending' = {}
      BY <3>1 DEF Pending
    <3>6. TempLock'
      BY <2>1, <2>3, <3>1, <3>2, <3>4, <3>5 DEF TempLock, Held, Sealed
    <3>7. UpdateLock' /\ PlanInv'
      BY <2>2, <3>2, <3>3 DEF UpdateLock, PlanInv
    <3> QED
      BY <2>6, <3>6, <3>7 DEF LockInv
  <2>8. CASE op.then = "done"
    <3>1. op' = NoOp /\ pc' = "idle"
      BY <2>1, <2>8 DEF Continue
    <3>2. op'.kind # "format" /\ op'.then = "done"
      BY <3>1, SMTT(20) DEF NoOp
    <3> QED
      BY <2>6, <3>1, <3>2 DEF LockInv, PlanInv
  <2> QED
    BY <2>2, <2>7, <2>8
<1> QED
  BY <1>1, <1>2, <1>3

\* After a power loss one of the headers is there, with its extended table.
LEMMA LossLock ==
    ASSUME TypeInv, TypeInv', FileInv, LockInv, intact, ~exposed, NEW lost \in SUBSET Dirty,
           NEW torn \in SUBSET (Dirty \cap {0, 1}), disk' = AfterPowerLoss(lost, torn)
    PROVE  Opens(disk', disk'[Active'], Current', known)
<1> DEFINE i == Survivor(lost, torn)
           F == SurvivingTable(lost, torn)
           w == IF Active \in lost \cup torn THEN hardened ELSE wrote
           x == F[EXTENDED_FILE_TABLE].at
<1>1. /\ i \in {0, 1} /\ Good(disk', i, F, w)
      /\ disk'[i] = IF Active \in lost \cup torn THEN stable[i] ELSE disk[i]
  BY AfterLoss
<1> HIDE DEF w
<1>2. Active' = i /\ Current' = F
  BY <1>1, GoodActive
<1>3. Clean(F)
  BY <1>1 DEF Good, FilesAt
<1>4. /\ \A b \in Blocks : disk'[b] = disk[b] \/ disk'[b] = stable[b]
      /\ disk[Active] # stable[Active] => \A b \in Blocks : disk[b] = stable[b]
  <2>1. ASSUME NEW b \in Blocks
        PROVE  b \in Locations /\ b \notin {0, 1}
    BY <2>1, BlocksAreLocations
  <2>2. \A b \in Blocks : disk'[b] = disk[b] \/ disk'[b] = stable[b]
    BY <2>1 DEF AfterPowerLoss
  <2>3. disk[Active] # stable[Active] => \A b \in Blocks : disk[b] = stable[b]
    BY <2>1 DEF FileInv, DiskInv
  <2> QED
    BY <2>2, <2>3
<1>5. F[EXTENDED_FILE_TABLE].len = 1 => x \in Blocks
  BY <1>3, ExtendedBlock
<1>6. HeadersOpen
  BY DEF LockInv
<1>7. CASE Active \in lost \cup torn
  <2>1. /\ i = 1 - Active /\ F = stable[stable[1 - Active].table].fcbs
        /\ disk[Active] # stable[Active]
    BY <1>7 DEF Survivor, SurvivingTable, Dirty
  <2>2. Opens(stable, stable[i], F, known)
    BY <1>6, <2>1 DEF HeadersOpen
  <2> HIDE DEF i, F
  <2>3. F[EXTENDED_FILE_TABLE].len = 1 => disk'[x] = stable[x]
    BY <1>4, <1>5, <2>1
  <2>4. disk'[i] = stable[i]
    BY <1>1, <1>7
  <2>5. Opens(disk', disk'[i], F, known)
    BY <2>2, <2>3, <2>4, OpensFrame
  <2> QED
    BY <1>2, <2>5
<1>8. CASE Active \notin lost \cup torn
  <2>1. i = Active /\ F = Current
    BY <1>8 DEF Survivor, SurvivingTable
  <2>2. /\ Opens(disk, disk[i], F, known)
        /\ disk[i] = stable[i] => Opens(stable, stable[i], F, known)
    BY <1>6, <2>1 DEF HeadersOpen
  <2>3. disk'[i] = disk[i]
    BY <1>1, <1>8
  <2>4. \/ F[EXTENDED_FILE_TABLE].len = 1 => disk'[x] = disk[x]
        \/ disk[i] = stable[i] /\ (F[EXTENDED_FILE_TABLE].len = 1 => disk'[x] = stable[x])
    BY <1>4, <1>5, <2>1
  <2> HIDE DEF i, F
  <2>5. CASE F[EXTENDED_FILE_TABLE].len = 1 => disk'[x] = disk[x]
    <3>1. Opens(disk', disk'[i], F, known)
      BY <2>2, <2>3, <2>5, OpensFrame
    <3> QED
      BY <1>2, <3>1
  <2>6. CASE disk[i] = stable[i] /\ (F[EXTENDED_FILE_TABLE].len = 1 => disk'[x] = stable[x])
    <3>1. Opens(disk', disk'[i], F, known)
      BY <2>2, <2>3, <2>6, OpensFrame
    <3> QED
      BY <1>2, <3>1
  <2> QED
    BY <2>4, <2>5, <2>6
<1> QED
  BY <1>7, <1>8

LEMMA FaultLock ==
    ASSUME TypeInv, TypeInv', FileInv, LockInv, Fault
    PROVE  LockInv'
<1>1. op'.kind # "format" /\ op'.then = "done"
  <2>1. op' = NoOp
    BY DEF Fault, DiskError, Crash, PowerLoss
  <2> QED
    BY <2>1, SMTT(20) DEF NoOp
<1>2. CASE DiskError \/ Crash
  <2>1. /\ Interrupted /\ pc # "closed" /\ pc' \in {"closed", "idle"}
        /\ pc' # "closed" => state' = state
        /\ UNCHANGED <<stable, intact, exposed, known>>
    BY <1>2 DEF DiskError, Crash, Close
  <2>2. CASE intact
    <3>1. /\ disk'[Active] = disk[Active] /\ (\A b \in Blocks : disk'[b] = disk[b])
          /\ Active' = Active /\ Current' = Current
      BY <2>1, <2>2, InterruptedDisk
    <3>2. /\ Clean(Current) /\ Current = state.fcbs /\ Held(state, known) /\ Sealed(disk, state)
      BY <2>1, <2>2, StateOpens
    <3>3. Opens(disk', disk'[Active], Current, known)
      <4>1. Opens(disk, disk[Active], Current, known)
        BY <2>2 DEF LockInv, HeadersOpen
      <4> QED
        BY <3>1, <3>2, <4>1, OpensBlocks
    <3>4. HeadersOpen'
      BY <2>1, <2>2, <3>1, <3>3 DEF LockInv, HeadersOpen
    <3>5. Sealed(disk', state)
      <4>1. state.unlocked # NoIndex => state.fcbs[EXTENDED_FILE_TABLE].at \in Blocks
        BY <3>2, ExtendedBlock DEF Held
      <4> QED
        BY <3>1, <3>2, <4>1 DEF Sealed
    <3>6. StateLock'
      BY <2>1, <3>2, <3>5 DEF StateLock
    <3> QED
      BY <1>1, <2>1, <3>4, <3>6 DEF LockInv, PlanInv
  <2>3. CASE ~intact
    BY <1>1, <2>1, <2>3 DEF LockInv, PlanInv, HeadersOpen, StateLock
  <2> QED
    BY <2>2, <2>3
<1>3. CASE PowerLoss
  <2>1. PICK lost \in SUBSET Dirty, torn \in SUBSET (Dirty \cap {0, 1}) :
            /\ disk' = AfterPowerLoss(lost, torn) /\ stable' = disk'
            /\ intact' = (intact /\ ~exposed) /\ pc' = "closed" /\ known' = known
    BY <1>3 DEF PowerLoss, Close
  <2>2. intact' => Opens(disk', disk'[Active'], Current', known')
    BY <2>1, LossLock
  <2>3. HeadersOpen' /\ StateLock'
    BY <2>1, <2>2 DEF HeadersOpen, StateLock
  <2> QED
    BY <1>1, <2>1, <2>3 DEF LockInv, PlanInv
<1> QED
  BY <1>2, <1>3 DEF Fault

LEMMA LocksHold == Spec => []LockInv
<1>1. Init => LockInv
  <2> SUFFICES ASSUME Init PROVE LockInv
    OBVIOUS
  <2>1. ~intact /\ op.kind = "none" /\ op.then = "done"
    BY SMTT(20) DEF Init, NoOp
  <2> QED
    BY <2>1 DEF LockInv, PlanInv, HeadersOpen, StateLock
<1>2. TypeInv /\ TypeInv' /\ FileInv /\ FileInv' /\ RequestInv /\ LockInv /\ [Next]_vars => LockInv'
  <2> SUFFICES ASSUME TypeInv, TypeInv', FileInv, FileInv', RequestInv, LockInv, [Next]_vars
               PROVE  LockInv'
    OBVIOUS
  <2>1. CASE UNCHANGED vars
    <3>1. Active' = Active /\ Current' = Current /\ Pending' = Pending
      BY <2>1 DEF vars, Active, Current, Pending
    <3>2. HeadersOpen' /\ StateLock' /\ PlanInv'
      BY <2>1, <3>1 DEF vars, LockInv, HeadersOpen, StateLock, PlanInv
    <3>3. TempLock => TempLock'
      BY <2>1, <3>1 DEF vars, TempLock
    <3>4. UpdateLock => UpdateLock'
      BY <2>1 DEF vars, UpdateLock
    <3> QED
      BY <2>1, <3>2, <3>3, <3>4 DEF vars, LockInv
  <2> QED
    BY <2>1, RequestLock, BlockLock, FlushLock, HeaderLock, FormatStepLock, FaultLock
    DEF Next, DiskRequest
<1> QED
  BY <1>1, <1>2, FilesHold, MarkerHolds, PTL DEF Spec

\* At every moment of a key update, and after every crash and power loss in it, one of the
\* keys the client holds decrypts the store, for any keys and any sequence of updates.
THEOREM KeyKept == Spec => []KeyNeverLost
<1>1. LockInv => KeyNeverLost
  BY DEF LockInv, HeadersOpen, Opens, Active, Current, KeyNeverLost
<1> QED
  BY <1>1, LocksHold, PTL

=============================================================================
