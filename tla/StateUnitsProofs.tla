-------------------------- MODULE StateUnitsProofs --------------------------
(***************************************************************************)
(* The safety properties of StateUnits hold for any number of units, any   *)
(* dependency graph and any choice of the units that fail, die, stay       *)
(* silent or are removed, and StateUnits implements Lifecycle.             *)
(***************************************************************************)
EXTENDS StateUnits, TLAPS

(* The time a prover may take for one obligation. *)
USE ZenonT(20), SMTT(20)

(* Tasks exist only while an operation that moves units is in flight. *)
TasksBelongToOperation == op \in {"idle", "rollback"} => \A u \in Ids : task[u] = "none"

TypeInv == TypeOK /\ TasksBelongToOperation

-----------------------------------------------------------------------------
(* Type correctness. *)

LEMMA IdsAreNumbers == Ids \subseteq Nat \ {0}
  BY SMTT(20), UnitsAssumption DEF Ids

LEMMA RegisteredAreIds == TypeOK => registered \subseteq Ids
  BY SMTT(20), UnitsAssumption DEF TypeOK, Ids

LEMMA InitType == Init => TypeInv
<1> SUFFICES ASSUME Init PROVE TypeInv
  OBVIOUS
<1> USE DEF Init
<1>1. nextId \in 1 .. MaxUnits + 1 /\ registered \subseteq 1 .. nextId - 1
  BY SMTT(20), UnitsAssumption
<1>2. state \in [Ids -> State] /\ task \in [Ids -> Task]
  BY DEF State, Task
<1>3. pending \in [Ids -> Requests \cup {"none"}] /\ panic \in Panics
  BY DEF Panics
<1> QED
  BY <1>1, <1>2, <1>3 DEF TypeInv, TypeOK, TasksBelongToOperation

(* Entering an operation keeps the types, whatever units it moves. *)
LEMMA EnterType ==
  ASSUME NEW kind \in Ops \ {"rollback"}, NEW movers, NEW settled,
         TypeInv, Enter(kind, movers, settled)
  PROVE  TypeInv'
<1>1. Interim(kind) \in State
  BY DEF Ops, RunOps, StartOps, StatefulOps, Interim, State
<1> QED
  BY <1>1 DEF TypeInv, TypeOK, TasksBelongToOperation, Enter, Ops, RunOps, StartOps,
     StatefulOps, Task, registry, unitVars

LEMMA PanicType ==
  ASSUME NEW why \in Panics, TypeInv, Panic(why)
  PROVE  TypeInv'
  BY DEF TypeInv, TypeOK, TasksBelongToOperation, Panic, registry, unitVars

LEMMA BuildType ==
  ASSUME TypeInv, NEW on \in SUBSET registered, NEW of \in SUBSET registered, Build(on, of)
  PROVE  TypeInv'
<1> USE DEF TypeInv, TypeOK, Build, callVars
<1>1. nextId' \in 1 .. MaxUnits + 1 /\ registered' \subseteq 1 .. nextId' - 1
  BY SMTT(20), UnitsAssumption DEF Ids
<1>2. on \subseteq Ids /\ of \subseteq Ids
  BY RegisteredAreIds
<1>3. dependencies' \in [Ids -> SUBSET Ids] /\ dependents' \in [Ids -> SUBSET Ids]
  BY <1>2 DEF Link
<1>4. state' \in [Ids -> State]
  BY DEF State
<1> QED
  BY <1>1, <1>3, <1>4 DEF TasksBelongToOperation

(* The outcome of a task, or of a unit's answer, is a task value, and only *)
(* a running operation has tasks to set.                                   *)
LEMMA SetTaskType ==
  ASSUME TypeInv, NEW u \in Ids, NEW outcome \in Task, task[u] # "none",
         SetTask(u, outcome), pending' \in [Ids -> Requests \cup {"none"}]
  PROVE  TypeInv'
  BY DEF TypeInv, TypeOK, TasksBelongToOperation, SetTask, registry, callVars

LEMMA AnswerType ==
  ASSUME TypeInv, NEW u \in Ids, NEW answer \in Task, Answer(u, answer),
         device' \in [Ids -> {"stopped", "running", "failed"}]
  PROVE  TypeInv'
  BY DEF TypeInv, TypeOK, TasksBelongToOperation, Answer, registry, callVars

LEMMA OperationType ==
  ASSUME TypeInv, NEW u \in Ids, Skip(u) \/ Send(u) \/ DependencyFailed(u) \/ TimeOut(u)
  PROVE  TypeInv'
<1>1. CASE Skip(u)
  BY <1>1, SetTaskType DEF Skip, Task, Outcome, TypeInv, TypeOK
<1>2. CASE Send(u)
  <2>1. Request \in Requests
    BY <1>2 DEF Send, TypeInv, TypeOK, TasksBelongToOperation, Request, Requests, Ops,
       RunOps, StartOps, StatefulOps
  <2>2. CASE ~alive[u] /\ SetTask(u, "lost") /\ UNCHANGED pending
    BY <1>2, <2>2, SetTaskType DEF Send, Task, Outcome, TypeInv, TypeOK
  <2>3. CASE SetTask(u, "sent") /\ pending' = [pending EXCEPT ![u] = Request]
    BY <1>2, <2>1, <2>3, SetTaskType DEF Send, Task, TypeInv, TypeOK
  <2>4. CASE Panic("overlap")
    BY <2>4, PanicType DEF Panics
  <2> QED
    BY <1>2, <2>2, <2>3, <2>4 DEF Send
<1>3. CASE DependencyFailed(u)
  BY <1>3, SetTaskType DEF DependencyFailed, Task, Outcome, TypeInv, TypeOK
<1>4. CASE TimeOut(u)
  BY <1>4, SetTaskType DEF TimeOut, Task, Outcome, TypeInv, TypeOK
<1> QED
  BY <1>1, <1>2, <1>3, <1>4

LEMMA UnitType ==
  ASSUME TypeInv, NEW u \in Ids, Handle(u) \/ Die(u) \/ Remove(u)
  PROVE  TypeInv'
<1>1. CASE HandleStart(u)
  <2>1. PICK answer \in {"ok", "err"} : Answer(u, answer)
    BY <1>1 DEF HandleStart
  <2>2. device' \in [Ids -> {"stopped", "running", "failed"}]
    BY <1>1 DEF HandleStart, TypeInv, TypeOK
  <2> QED
    BY <2>1, <2>2, AnswerType DEF Task, Outcome
<1>2. CASE HandleStop(u)
  BY <1>2, AnswerType DEF HandleStop, Task, Outcome, TypeInv, TypeOK
<1>3. CASE HandleStateful(u)
  BY <1>3, AnswerType DEF HandleStateful, Task, Outcome, TypeInv, TypeOK
<1>4. CASE Die(u)
  BY <1>4 DEF Die, TypeInv, TypeOK, TasksBelongToOperation, registry, callVars, Task, Outcome
<1>5. CASE Remove(u)
  BY <1>5 DEF Remove, TypeInv, TypeOK, TasksBelongToOperation, unitVars, callVars
<1> QED
  BY <1>1, <1>2, <1>3, <1>4, <1>5 DEF Handle

LEMMA CallerType ==
  ASSUME TypeInv, Caller
  PROVE  TypeInv'
<1>1. ASSUME NEW on \in SUBSET registered, NEW of \in SUBSET registered, Build(on, of)
      PROVE  TypeInv'
  BY <1>1, BuildType
<1>2. CASE StartBegin
  BY <1>2, EnterType DEF StartBegin, Ops, StartOps
<1>3. CASE StopBegin
  BY <1>3, EnterType, PanicType DEF StopBegin, RunOpBegin, Ops, RunOps, Panics
<1>4. CASE QuiesceBegin
  BY <1>4, EnterType, PanicType DEF QuiesceBegin, Ops, Panics
<1>5. CASE ResumeBegin
  BY <1>5, EnterType DEF ResumeBegin, Ops, StartOps
<1>6. CASE Refused
  BY <1>6 DEF Refused, vars, registry, unitVars, callVars, TypeInv, TypeOK, TasksBelongToOperation
<1>7. ASSUME NEW kind \in StatefulOps, StatefulBegin(kind)
      PROVE  TypeInv'
  BY <1>7, EnterType, PanicType DEF StatefulBegin, RunOpBegin, Ops, RunOps, StatefulOps, Panics
<1> QED
  BY <1>1, <1>2, <1>3, <1>4, <1>5, <1>6, <1>7 DEF Caller

(* Every operation ends with no task left. *)
LEMMA FinishType ==
  ASSUME TypeInv, StartFinish \/ RunOpFinish \/ QuiesceFinish \/ ResumeFinish
  PROVE  TypeInv'
<1> USE DEF TypeInv, TypeOK, TasksBelongToOperation, Leave, registry, unitVars
<1>1. ASSUME NEW u \in Ids, NEW done \in State, NEW undone \in State
      PROVE  Settle(u, done, undone) \in State
  BY <1>1 DEF Settle, State
<1>2. "Running" \in State /\ "Stopped" \in State /\ "none" \in Task
  BY DEF State, Task
<1>3. CASE StartFinish
  <2>1. state' \in [Ids -> State]
    BY <1>1, <1>2, <1>3 DEF StartFinish
  <2>2. Members \subseteq Ids
    BY RegisteredAreIds DEF Members
  <2>3. rollback' \subseteq Ids
    BY <1>3, <2>2 DEF StartFinish
  <2>4. running' \in BOOLEAN
    BY <1>3 DEF StartFinish
  <2>5. op' \in {"idle", "rollback"}
    BY <1>3 DEF StartFinish
  <2> QED
    BY <1>2, <1>3, <2>1, <2>3, <2>4, <2>5 DEF StartFinish, Ops
<1>4. CASE RunOpFinish
  BY <1>2, <1>4, PanicType DEF RunOpFinish, Panics
<1>5. CASE QuiesceFinish
  BY <1>1, <1>2, <1>5 DEF QuiesceFinish
<1>6. CASE ResumeFinish
  BY <1>1, <1>2, <1>6 DEF ResumeFinish
<1> QED
  BY <1>3, <1>4, <1>5, <1>6

LEMMA NextType == TypeInv /\ [Next]_vars => TypeInv'
<1> SUFFICES ASSUME TypeInv, [Next]_vars PROVE TypeInv'
  OBVIOUS
<1>1. CASE Caller
  BY <1>1, CallerType
<1>2. CASE Operation
  <2>1. CASE RollbackBegin
    BY <2>1, EnterType, PanicType DEF RollbackBegin, RunOpBegin, Ops, RunOps, Panics
  <2> QED
    BY <1>2, <2>1, OperationType, FinishType DEF Operation
<1>3. CASE Environment
  <2>1. CASE Expire
    BY <2>1 DEF Expire, TypeInv, TypeOK, TasksBelongToOperation, registry, unitVars
  <2> QED
    BY <1>3, <2>1, UnitType DEF Environment
<1>4. CASE Terminated \/ UNCHANGED vars
  BY <1>4 DEF Terminated, vars, registry, unitVars, callVars, TypeInv, TypeOK, TasksBelongToOperation
<1> QED
  BY <1>1, <1>2, <1>3, <1>4 DEF Next

(* The registry, its tasks and its channels only ever hold values of their *)
(* types, and ids are handed out once (Inner::next_id).                    *)
THEOREM TypeCorrect == Spec => []TypeOK
<1>1. TypeInv => TypeOK
  BY DEF TypeInv
<1> QED
  BY <1>1, InitType, NextType, PTL DEF Spec

-----------------------------------------------------------------------------
(* The inductive invariant behind the safety properties.  None of them is  *)
(* inductive: what an operation may assume of a unit depends on how far    *)
(* the unit's task got, and on what earlier operations left behind.        *)

StopOps == {"stop", "rollback_stop", "quiesce"}

(* A unit with no request in its channel that does not run, that is        *)
(* stopped, that runs unless its task died.                                *)
Still(u) == pending[u] = "none" /\ device[u] # "running"
Off(u) == pending[u] = "none" /\ device[u] = "stopped"
On(u) ==
    /\ pending[u] = "none"
    /\ alive[u] => device[u] = "running"
    /\ ~alive[u] => device[u] = "stopped"

(* A unit that no task moves: its recorded state is real, and an uncertain *)
(* one that does not condemn the VM is at least not running.               *)
AtRest(u) ==
    /\ state[u] \in {"Stopped", "Running", "QuiesceUncertain"}
    /\ state[u] = "Stopped" => Off(u)
    /\ state[u] = "Running" => On(u)
    /\ state[u] = "QuiesceUncertain" /\ ~mustTerminate => Still(u)

Settled(u) ==
    \/ op = "start" /\ state[u] = "Running"
    \/ op \in {"stop", "rollback_stop"} /\ state[u] = "Stopped"

(* What the progress of a unit's task says about the unit. *)
Rests(u) ==
    /\ task[u] \in {"none", "ready"} => AtRest(u)
    /\ task[u] = "ready" => Settled(u)
Moves(u) == task[u] \in {"waiting", "sent"} \cup Outcome => state[u] = Interim(op)
Unmoved(u) ==
    task[u] \in {"waiting", "skip", "depfail"} =>
        (op \in StopOps => On(u)) /\ (op \notin StopOps => Off(u))
Sent(u) ==
    task[u] = "sent" =>
        /\ alive[u] /\ pending[u] = Request
        /\ op \in StopOps => device[u] = "running"
        /\ op \notin StopOps => device[u] = "stopped"
Done(u) == task[u] = "ok" => (op \in StartOps => On(u)) /\ (op \notin StartOps => Off(u))
Failed(u) ==
    /\ task[u] = "err" => (op \in StartOps /\ Still(u)) \/ (op \in StatefulOps /\ Off(u))
    /\ task[u] = "lost" /\ op \notin {"quiesce", "resume"} => Still(u)
StatefulSent(u) == pending[u] \in StatefulOps => task[u] = "sent"

UnitInv(u) ==
    /\ Rests(u) /\ Moves(u) /\ Unmoved(u) /\ Sent(u) /\ Done(u) /\ Failed(u)
    /\ StatefulSent(u)

(* What an operation says about the tasks, removed units included. *)
TaskOf(u) ==
    /\ task[u] = "waiting" => pending[u] = "none"
    /\ task[u] = "skip" => op \in {"restore", "advance_time"}
    /\ task[u] = "depfail" => op \notin RunOps
    /\ u >= nextId => task[u] = "none" /\ pending[u] = "none" /\ device[u] = "stopped"

TaskInv ==
    /\ expired => op \in {"idle", "quiesce", "resume"}
    /\ op \in StartOps \cup {"stop", "quiesce"} => \A u \in registered : task[u] # "none"
    /\ \A u \in Ids : TaskOf(u)

(* A task that sent its request has seen the units it follows succeed. *)
StartsAfter(u) == \A d \in dependencies[u] \cap registered : task[d] \in {"ready", "ok"}
StopsAfter(d) ==
    \A u \in dependents[d] \cap registered :
        \/ task[u] \in {"ready", "ok"}
        \/ task[u] = "lost" /\ op # "quiesce"
        \/ task[u] = "none" /\ op = "rollback_stop"

OrderInv ==
    \A u \in registered : task[u] = "sent" =>
        /\ op \in StartOps => StartsAfter(u)
        /\ op \in StopOps => StopsAfter(u)

(* A stop request abandoned by a quiesce stays in its unit's channel, and  *)
(* no operation is entered while that unit is registered.                  *)
LateStop ==
    \A d \in registered : pending[d] = "stop" /\ task[d] # "sent" =>
        /\ \/ op = "quiesce" /\ task[d] = "lost"
           \/ op = "idle" /\ state[d] = "QuiesceUncertain"
        /\ \A u \in dependents[d] \cap registered : Off(u)

(* The flags the callers see. *)
FlagInv ==
    /\ op \in {"stop", "quiesce"} => running
    /\ op = "rollback" => \A u \in rollback \cap registered : state[u] = "Running"
    /\ op = "rollback_stop" => \A u \in registered : task[u] # "none" => u \in rollback
    /\ ~running /\ ~mustTerminate =>
          \A u \in registered : state[u] = "Running" => op = "rollback" /\ u \in rollback
    /\ AssertsOnlyOnBrokenUnits

Safe ==
    /\ TypeInv
    /\ TaskInv
    /\ OrderInv
    /\ LateStop
    /\ FlagInv
    /\ \A u \in registered : UnitInv(u)
    /\ NoOverlappingTransitions

-----------------------------------------------------------------------------
LEMMA InitSafe == Init => Safe
<1> SUFFICES ASSUME Init PROVE Safe
  OBVIOUS
<1>1. TypeInv
  BY InitType
<1> QED
  BY <1>1 DEF Init, Safe, TaskInv, TaskOf, OrderInv, LateStop, FlagInv, NoOverlappingTransitions,
     AssertsOnlyOnBrokenUnits, StartOps

(* A panic freezes everything but the reason recorded for it. *)
LEMMA PanicSafe ==
  ASSUME Safe, NEW why \in Panics \ {"overlap"}, Panic(why),
         why = "assert" => AssertsOnlyOnBrokenUnits',
         TypeInv'
  PROVE  Safe'
<1> USE DEF Safe, Panic, registry, unitVars
<1>1. TaskInv' /\ LateStop'
  BY SMTT(20) DEF TaskInv, TaskOf, LateStop, Off
<1>2. OrderInv'
  BY DEF OrderInv, StartsAfter, StopsAfter
<1>3. FlagInv'
  BY DEF FlagInv, AssertsOnlyOnBrokenUnits
<1>4. \A u \in registered' : UnitInv(u)'
  BY SMTT(20) DEF UnitInv, Rests, Moves, Unmoved, Sent, Done, Failed, StatefulSent, AtRest, Settled, On,
     Off, Still, Request
<1> QED
  BY <1>1, <1>2, <1>3, <1>4 DEF NoOverlappingTransitions

(* A step of one unit or its task keeps the invariant if it keeps what the *)
(* invariant says of that unit, moves no task that is already done, sends  *)
(* only in order, and starts nothing that a late stop has to follow.       *)
LEMMA UnitStepSafe ==
  ASSUME Safe, TypeInv', NEW v \in Ids, UNCHANGED <<registry, state, callVars>>,
         \A u \in Ids \ {v} : /\ task'[u] = task[u] /\ pending'[u] = pending[u]
                              /\ device'[u] = device[u] /\ alive'[u] = alive[u],
         task'[v] # task[v] => task[v] \in {"waiting", "sent"} /\ task'[v] # "none",
         TaskOf(v)',
         v \in registered => UnitInv(v)',
         v \in registered /\ task'[v] = "sent" /\ task[v] # "sent" =>
            (op \in StartOps => StartsAfter(v)) /\ (op \in StopOps => StopsAfter(v)),
         v \in registered /\ op \in {"idle", "quiesce"} /\ Off(v) => Off(v)',
         v \in registered /\ pending'[v] = "stop" /\ task'[v] # "sent" =>
            \/ pending[v] = "stop" /\ task[v] # "sent" /\ task'[v] = task[v]
            \/ /\ op = "quiesce" /\ task'[v] = "lost"
               /\ \A u \in dependents[v] \cap registered : Off(u)
  PROVE  Safe'
<1> USE DEF Safe, registry, callVars
<1> registered \subseteq Ids
  BY RegisteredAreIds DEF TypeInv
<1>1. TaskInv'
  <2>1. \A u \in Ids \ {v} : TaskOf(u)'
    BY DEF TaskInv, TaskOf
  <2> QED
    BY <2>1 DEF TaskInv
<1>2. OrderInv'
  <2> SUFFICES ASSUME NEW u \in registered, task'[u] = "sent"
               PROVE  /\ op \in StartOps => StartsAfter(u)'
                      /\ op \in StopOps => StopsAfter(u)'
    BY DEF OrderInv
  <2>1. (op \in StartOps => StartsAfter(u)) /\ (op \in StopOps => StopsAfter(u))
    BY DEF OrderInv
  <2>2. \A w \in registered : task[w] \notin {"waiting", "sent"} => task'[w] = task[w]
    OBVIOUS
  <2>3. StartsAfter(u) => StartsAfter(u)'
    BY <2>2 DEF StartsAfter
  <2>4. StopsAfter(u) => StopsAfter(u)'
    BY <2>2 DEF StopsAfter
  <2> QED
    BY <2>1, <2>3, <2>4
<1>3. LateStop'
  <2> SUFFICES ASSUME NEW d \in registered, pending'[d] = "stop", task'[d] # "sent"
               PROVE  /\ \/ op = "quiesce" /\ task'[d] = "lost"
                         \/ op = "idle" /\ state[d] = "QuiesceUncertain"
                      /\ \A u \in dependents[d] \cap registered : Off(u)'
    BY DEF LateStop
  <2>1. \A u \in registered : op \in {"idle", "quiesce"} /\ Off(u) => Off(u)'
    BY DEF Off
  <2>2. CASE pending[d] = "stop" /\ task[d] # "sent" /\ task'[d] = task[d]
    BY <2>1, <2>2 DEF LateStop
  <2>3. CASE d = v
    BY <2>1, <2>2, <2>3
  <2>4. CASE d # v
    BY <2>2, <2>4
  <2> QED
    BY <2>3, <2>4
<1>4. FlagInv'
  BY DEF FlagInv, AssertsOnlyOnBrokenUnits
<1>5. \A u \in registered' : UnitInv(u)'
  <2> SUFFICES ASSUME NEW u \in registered, u # v PROVE UnitInv(u)'
    OBVIOUS
  <2> QED
    BY SMTT(20) DEF UnitInv, Rests, Moves, Unmoved, Sent, Done, Failed, StatefulSent, AtRest, Settled, On,
       Off, Still, Request
<1> QED
  BY <1>1, <1>2, <1>3, <1>4, <1>5 DEF NoOverlappingTransitions

(* The operation a task belongs to. *)
LEMMA TaskHasOperation ==
  ASSUME TypeInv, NEW v \in Ids, task[v] # "none"
  PROVE  op \in RunOps \cup StartOps \cup {"quiesce"}
  BY DEF TypeInv, TypeOK, TasksBelongToOperation, Ops

(* A task that saw the units it follows succeed may send its request. *)
LEMMA WaitIsOrder ==
  ASSUME Safe, NEW v \in registered, task[v] = "waiting", WaitSucceeds(v)
  PROVE  (op \in StartOps => StartsAfter(v)) /\ (op \in StopOps => StopsAfter(v))
<1> registered \subseteq Ids
  BY RegisteredAreIds DEF Safe, TypeInv
<1>1. ASSUME op \in StartOps PROVE StartsAfter(v)
  <2> SUFFICES ASSUME NEW d \in dependencies[v] \cap registered
               PROVE  task[d] \in {"ready", "ok"}
    BY DEF StartsAfter
  <2>1. task[d] # "none" /\ TaskOf(d)
    BY <1>1 DEF Safe, TaskInv
  <2>0. Follows(v) = dependencies[v]
    BY <1>1 DEF Follows, StartOps
  <2>2. Signalled(d, TRUE)
    BY <2>0, <2>1 DEF WaitSucceeds, Awaited
  <2>3. op \notin RunOps
    BY <1>1 DEF RunOps, StartOps, StatefulOps
  <2>4. task[d] \in {"ready", "ok", "skip"}
    BY <2>2, <2>3 DEF Signalled
  <2> QED
    BY <1>1, <2>1, <2>4 DEF TaskOf, StartOps
<1>2. ASSUME op \in StopOps PROVE StopsAfter(v)
  <2> SUFFICES ASSUME NEW u \in dependents[v] \cap registered
               PROVE  \/ task[u] \in {"ready", "ok"}
                      \/ task[u] = "lost" /\ op # "quiesce"
                      \/ task[u] = "none" /\ op = "rollback_stop"
    BY DEF StopsAfter
  <2>1. TaskOf(u) /\ UnitInv(u)
    BY DEF Safe, TaskInv
  <2>2. CASE task[u] = "none"
    BY <1>2, <2>2 DEF Safe, TaskInv, StopOps
  <2>3. CASE task[u] # "none"
    <3>1. Follows(v) = dependents[v]
      BY <1>2 DEF Follows, StopOps, StartOps
    <3>2. Signalled(u, TRUE)
      BY <2>3, <3>1 DEF WaitSucceeds, Awaited
    <3>3. task[u] # "err" /\ task[u] # "skip"
      BY <1>2, <2>1 DEF UnitInv, Failed, TaskOf, StopOps, StartOps, StatefulOps
    <3> QED
      BY <1>2, <3>2, <3>3 DEF Signalled, RunOps, StopOps, StatefulOps
  <2> QED
    BY <2>2, <2>3
<1> QED
  BY <1>1, <1>2

LEMMA SkipSafe ==
  ASSUME Safe, NEW v \in Ids, Skip(v), TypeInv'
  PROVE  Safe'
<1> USE DEF Safe, TypeInv, TypeOK, Skip, SetTask
<1>1. op \in {"restore", "advance_time"}
  BY DEF MaySkip
<1>2. TaskOf(v)'
  BY <1>1 DEF TaskInv, TaskOf, registry, callVars
<1>3. v \in registered => UnitInv(v)'
  BY <1>1 DEF UnitInv, Rests, Moves, Unmoved, Sent, Done, Failed, StatefulSent, On, Off, StopOps,
     callVars, Outcome, StatefulOps
<1>4. pending[v] = "none"
  BY DEF TaskInv, TaskOf
<1> QED
  BY <1>2, <1>3, <1>4, UnitStepSafe DEF Off, registry

LEMMA SendSafe ==
  ASSUME Safe, NEW v \in Ids, Send(v), TypeInv'
  PROVE  Safe'
<1> USE DEF Safe, TypeInv, TypeOK, Send
<1>0. op \in RunOps \cup StartOps \cup {"quiesce"} /\ pending[v] = "none"
  BY TaskHasOperation DEF TaskInv, TaskOf
<1>1. CASE ~alive[v] /\ SetTask(v, "lost") /\ UNCHANGED pending
  <2> USE <1>1 DEF SetTask
  <2>1. TaskOf(v)'
    BY DEF TaskInv, TaskOf, registry
  <2>2. v \in registered => UnitInv(v)'
    BY DEF UnitInv, Rests, Moves, Unmoved, Sent, Done, Failed, StatefulSent, On, Off, Still,
       callVars, Outcome
  <2>3. v \in registered => op # "quiesce" \/ ~(pending'[v] = "stop")
    BY <1>0
  <2> QED
    BY <1>0, <2>1, <2>2, UnitStepSafe DEF Off
<1>2. CASE alive[v] /\ SetTask(v, "sent") /\ pending' = [pending EXCEPT ![v] = Request]
  <2> USE <1>2 DEF SetTask
  <2>1. TaskOf(v)'
    <3>1. v < nextId
      BY SMTT(20), IdsAreNumbers DEF TaskInv, TaskOf
    <3> QED
      BY SMTT(20), <3>1, IdsAreNumbers DEF TaskOf, registry
  <2>2. v \in registered => UnitInv(v)'
    BY SMTT(20) DEF UnitInv, Rests, Moves, Unmoved, Sent, Done, Failed, StatefulSent, On, Off, Still,
       callVars, Outcome, Request
  <2>3. v \in registered /\ op \in {"idle", "quiesce"} => ~Off(v)
    BY <1>0 DEF UnitInv, Unmoved, On, Off, StopOps, RunOps, StartOps, StatefulOps
  <2> QED
    BY <2>1, <2>2, <2>3, WaitIsOrder, UnitStepSafe
<1> QED
  BY <1>0, <1>1, <1>2

LEMMA DependencyFailedSafe ==
  ASSUME Safe, NEW v \in Ids, DependencyFailed(v), TypeInv'
  PROVE  Safe'
<1> USE DEF Safe, TypeInv, TypeOK, DependencyFailed, SetTask
<1>1. op \notin RunOps
  <2>1. PICK d \in Awaited(v) : Signalled(d, FALSE)
    BY DEF WaitFails
  <2>2. op \in RunOps \cup StartOps \cup {"quiesce"}
    BY TaskHasOperation
  <2>3. d \in Ids
    BY <2>1 DEF Awaited, Follows
  <2>4. TaskOf(d)
    BY <2>3 DEF TaskInv
  <2> QED
    BY <2>1, <2>4 DEF Signalled, TaskOf
<1>2. TaskOf(v)'
  BY <1>1 DEF TaskInv, TaskOf, registry, callVars
<1>3. v \in registered => UnitInv(v)'
  BY DEF UnitInv, Rests, Moves, Unmoved, Sent, Done, Failed, StatefulSent, On, Off, callVars,
     Outcome
<1>4. pending[v] = "none"
  BY DEF TaskInv, TaskOf
<1> QED
  BY <1>2, <1>3, <1>4, UnitStepSafe DEF Off, registry

LEMMA TimeOutSafe ==
  ASSUME Safe, NEW v \in Ids, TimeOut(v), TypeInv'
  PROVE  Safe'
<1> USE DEF Safe, TypeInv, TypeOK, TimeOut, SetTask
<1>1. op \in {"quiesce", "resume"}
  BY TaskHasOperation DEF TaskInv, RunOps, StartOps, StatefulOps
<1>2. TaskOf(v)'
  BY DEF TaskInv, TaskOf, registry, callVars
<1>3. v \in registered => UnitInv(v)'
  BY <1>1 DEF UnitInv, Rests, Moves, Unmoved, Sent, Done, Failed, StatefulSent, callVars,
     Outcome, Request, StopOps, StartOps, StatefulOps
<1>4. v \in registered /\ pending[v] = "stop" =>
        op = "quiesce" /\ \A u \in dependents[v] \cap registered : Off(u)
  <2> SUFFICES ASSUME v \in registered, pending[v] = "stop"
               PROVE  op = "quiesce" /\ \A u \in dependents[v] \cap registered : Off(u)
    OBVIOUS
  <2>1. op = "quiesce"
    BY <1>1 DEF UnitInv, Sent, Request, StartOps
  <2>2. StopsAfter(v)
    BY <2>1 DEF OrderInv, StopOps
  <2>3. \A u \in dependents[v] \cap registered : task[u] = "ok"
    BY <2>1, <2>2, SMTT(30) DEF StopsAfter, UnitInv, Rests, Settled
  <2> QED
    BY <2>1, <2>3 DEF UnitInv, Done, StartOps
<1> QED
  BY <1>2, <1>3, <1>4, UnitStepSafe DEF Off

(* A request nobody waits for was given up at a deadline. *)
LEMMA LateRequest ==
  ASSUME NEW v, UnitInv(v), TaskOf(v), pending[v] # "none", task[v] # "sent", task[v] \in Task
  PROVE  \/ task[v] = "lost" /\ op \in {"quiesce", "resume"}
         \/ task[v] = "none" /\ state[v] = "QuiesceUncertain" /\ mustTerminate
<1>1. ~On(v) /\ ~Off(v) /\ ~Still(v)
  BY DEF On, Off, Still
<1>2. task[v] \notin {"ready", "waiting", "skip", "depfail", "ok", "err"}
  BY <1>1 DEF UnitInv, Rests, AtRest, Settled, Unmoved, Done, Failed
<1>3. CASE task[v] = "lost"
  BY <1>1, <1>3 DEF UnitInv, Failed
<1>4. CASE task[v] = "none"
  BY <1>1, <1>4 DEF UnitInv, Rests, AtRest
<1> QED
  BY <1>2, <1>3, <1>4 DEF Task, Outcome

(* A unit whose task waits has done what it was asked for, or failed. *)
LEMMA AnsweredUnit ==
  ASSUME TypeOK, NEW v \in Ids, Handle(v), UnitInv(v), task[v] = "sent",
         op \in RunOps \cup StartOps \cup {"quiesce"}
  PROVE  UnitInv(v)'
<1>1. PICK answer \in {"ok", "err"} : Answer(v, answer)
  BY DEF Handle, HandleStart, HandleStop, HandleStateful
<1>2. /\ task'[v] \in {"ok", "err"} /\ pending'[v] = "none"
      /\ UNCHANGED <<op, state, alive, mustTerminate>>
  BY <1>1 DEF Answer, callVars, TypeOK
<1>3. /\ state[v] = Interim(op) /\ alive[v] /\ pending[v] = Request
      /\ op \in StopOps => device[v] = "running"
      /\ op \notin StopOps => device[v] = "stopped"
  BY DEF UnitInv, Moves, Sent
<1>4. (op \in StartOps /\ op \notin StopOps /\ op \notin StatefulOps /\ Request = "start")
      \/ (op \notin StartOps /\ op \in StopOps /\ op \notin StatefulOps /\ Request = "stop")
      \/ (op \notin StartOps /\ op \notin StopOps /\ op \in StatefulOps /\ Request = op)
  BY DEF RunOps, StartOps, StopOps, StatefulOps, Request
<1>5. /\ op \in StartOps => \/ device'[v] = "running" /\ task'[v] = "ok"
                            \/ device'[v] = "failed" /\ task'[v] = "err"
      /\ op \in StopOps => device'[v] = "stopped" /\ task'[v] = "ok"
      /\ op \in StatefulOps => device'[v] = "stopped"
  <2>1. CASE op \in StartOps
    BY SMTT(20), <1>3, <1>4, <2>1 DEF Handle, HandleStart, HandleStop, HandleStateful, Answer, StatefulOps, TypeOK
  <2>2. CASE op \in StopOps
    BY SMTT(20), <1>3, <1>4, <2>2 DEF Handle, HandleStart, HandleStop, HandleStateful, Answer, StatefulOps, TypeOK
  <2>3. CASE op \in StatefulOps
    BY <1>3, <1>4, <2>3 DEF Handle, HandleStart, HandleStop, HandleStateful, StatefulOps
  <2> QED
    BY <1>4, <2>1, <2>2, <2>3
<1>6. Rests(v)' /\ Moves(v)' /\ Unmoved(v)' /\ Sent(v)' /\ StatefulSent(v)'
  BY <1>2, <1>3 DEF Rests, Moves, Unmoved, Sent, StatefulSent, StatefulOps
<1>7. Done(v)' /\ Failed(v)'
  BY <1>2, <1>3, <1>4, <1>5 DEF Done, Failed, On, Off, Still
<1> QED
  BY <1>6, <1>7 DEF UnitInv

(* A unit acts on the request in its channel, whether or not its task      *)
(* still waits for the answer.                                             *)
LEMMA HandleSafe ==
  ASSUME Safe, NEW v \in Ids, Handle(v), TypeInv'
  PROVE  Safe'
<1> USE DEF Safe, TypeInv, TypeOK
<1>0. TaskOf(v) /\ pending[v] # "none"
  BY DEF Handle, HandleStart, HandleStop, HandleStateful, TaskInv, StatefulOps
<1>1. PICK answer \in {"ok", "err"} : Answer(v, answer)
  BY DEF Handle, HandleStart, HandleStop, HandleStateful
<1>2. \A u \in Ids \ {v} : device'[u] = device[u]
  BY DEF Handle, HandleStart, HandleStop, HandleStateful
<1>3. TaskOf(v)'
  BY <1>0, <1>1, IdsAreNumbers DEF TaskOf, Answer, registry, callVars
<1>4. v \in registered => UnitInv(v)'
  <2> SUFFICES ASSUME v \in registered PROVE UnitInv(v)'
    OBVIOUS
  <2>0. UnitInv(v)
    OBVIOUS
  <2>1. CASE task[v] = "sent"
    <3>1. op \in RunOps \cup StartOps \cup {"quiesce"}
      BY <2>1, TaskHasOperation
    <3> QED
      BY <2>0, <2>1, <3>1, AnsweredUnit
  <2>2. CASE task[v] # "sent"
    <3>1. task' = task /\ pending'[v] = "none" /\ alive' = alive
      BY <1>1, <2>2 DEF Answer
    <3>2. \/ task[v] = "lost" /\ op \in {"quiesce", "resume"}
          \/ task[v] = "none" /\ state[v] = "QuiesceUncertain" /\ mustTerminate
      BY <1>0, <2>0, <2>2, LateRequest
    <3> QED
      BY <1>1, <2>0, <3>1, <3>2 DEF UnitInv, Rests, Moves, Unmoved, Sent, Done, Failed,
         StatefulSent, AtRest, Answer, callVars, StatefulOps
  <2> QED
    BY <2>1, <2>2
<1> QED
  BY <1>0, <1>1, <1>2, <1>3, <1>4, UnitStepSafe DEF Answer, Off

(* A unit whose task died is stopped, and nobody waits for it. *)
LEMMA DeadUnit ==
  ASSUME NEW v, UnitInv(v), pending'[v] = "none", device'[v] = "stopped", ~alive'[v],
         state' = state, op' = op, mustTerminate' = mustTerminate,
         task'[v] = IF task[v] = "sent" THEN "lost" ELSE task[v]
  PROVE  UnitInv(v)'
<1>1. On(v)' /\ Off(v)' /\ Still(v)'
  BY DEF On, Off, Still
<1>2. CASE task[v] = "sent"
  BY <1>1, <1>2 DEF UnitInv, Rests, Moves, Unmoved, Sent, Done, Failed, StatefulSent, Outcome,
     StatefulOps
<1>3. CASE task[v] # "sent"
  <2>1. Rests(v)' /\ Moves(v)'
    BY <1>1, <1>3 DEF UnitInv, Rests, AtRest, Settled, Moves
  <2> QED
    BY <1>1, <1>3, <2>1 DEF UnitInv, Unmoved, Sent, Done, Failed, StatefulSent, StatefulOps
<1> QED
  BY <1>2, <1>3

LEMMA DieSafe ==
  ASSUME Safe, NEW v \in Ids, Die(v), TypeInv'
  PROVE  Safe'
<1>2. v \in registered => UnitInv(v)'
  <2>1. /\ pending'[v] = "none" /\ device'[v] = "stopped" /\ ~alive'[v] /\ state' = state
        /\ op' = op /\ mustTerminate' = mustTerminate
        /\ task'[v] = IF task[v] = "sent" THEN "lost" ELSE task[v]
    BY DEF Die, callVars, Safe, TypeInv, TypeOK
  <2> QED
    BY <2>1, DeadUnit DEF Safe
<1> USE DEF Safe, TypeInv, TypeOK, Die
<1>1. TaskOf(v)'
  BY SMTT(20), IdsAreNumbers DEF TaskInv, TaskOf, registry, callVars
<1>3. /\ task'[v] # task[v] => task[v] = "sent" /\ task'[v] = "lost"
      /\ \A u \in Ids \ {v} : task'[u] = task[u]
  BY SMTT(20)
<1>4. pending'[v] = "none" /\ device'[v] = "stopped"
  OBVIOUS
<1>5. task'[v] = "sent" => task[v] = "sent"
  OBVIOUS
<1> QED
  BY <1>1, <1>2, <1>3, <1>4, <1>5, UnitStepSafe DEF Off

LEMMA RemoveSafe ==
  ASSUME Safe, NEW v \in Ids, Remove(v), TypeInv'
  PROVE  Safe'
<1> USE DEF Safe, TypeInv, TypeOK, Remove, unitVars, callVars
<1>1. TaskInv' /\ LateStop'
  BY DEF TaskInv, TaskOf, LateStop, Off
<1>2. OrderInv'
  BY DEF OrderInv, StartsAfter, StopsAfter
<1>3. FlagInv'
  BY DEF FlagInv, AssertsOnlyOnBrokenUnits
<1>4. \A u \in registered' : UnitInv(u)'
  BY SMTT(20) DEF UnitInv, Rests, Moves, Unmoved, Sent, Done, Failed, StatefulSent, AtRest, Settled, On,
     Off, Still, Request
<1> QED
  BY <1>1, <1>2, <1>3, <1>4 DEF NoOverlappingTransitions

(* A new unit's id was never used, so its channel is empty; it may depend  *)
(* on, or serve, a unit that still has a late stop to act on.              *)
LEMMA BuildSafe ==
  ASSUME Safe, NEW on \in SUBSET registered, NEW of \in SUBSET registered, Build(on, of), TypeInv'
  PROVE  Safe'
<1> USE DEF Safe, TypeInv, TypeOK, Build, Idle, callVars
<1>1. nextId \in Ids /\ nextId \notin registered /\ registered \subseteq Ids
  BY SMTT(20), RegisteredAreIds, UnitsAssumption
<1>2. TaskOf(nextId) /\ Off(nextId) /\ task[nextId] = "none"
  BY SMTT(20), <1>1, IdsAreNumbers DEF TaskInv, TaskOf, Off
<1>3. TaskInv'
  <2>1. \A u \in Ids : TaskOf(u)'
    BY SMTT(20), IdsAreNumbers DEF TaskInv, TaskOf
  <2> QED
    BY <2>1 DEF TaskInv, StartOps
<1>4. \A u \in Ids : task[u] = "none"
  BY DEF TasksBelongToOperation
<1>5. OrderInv'
  BY <1>1, <1>4 DEF OrderInv
<1>6. LateStop'
  <2> SUFFICES ASSUME NEW d \in registered', pending[d] = "stop"
               PROVE  /\ state'[d] = "QuiesceUncertain"
                      /\ \A u \in dependents'[d] \cap registered' : Off(u)'
    BY <1>4 DEF LateStop
  <2>1. d \in registered /\ d # nextId
    BY <1>1, <1>2 DEF Off
  <2>2. state[d] = "QuiesceUncertain" /\ \A u \in dependents[d] \cap registered : Off(u)
    BY <1>1, <1>4, <2>1 DEF LateStop
  <2>3. dependents'[d] \subseteq dependents[d] \cup {nextId}
    BY <1>1, <2>1 DEF Link
  <2> QED
    BY SMTT(20), <1>1, <1>2, <2>1, <2>2, <2>3 DEF Off
<1>7. FlagInv'
  BY SMTT(20), <1>1 DEF FlagInv, AssertsOnlyOnBrokenUnits
<1>8. ASSUME NEW u \in registered' PROVE UnitInv(u)'
  <2>1. CASE u = nextId
    <3>1. /\ task'[u] = "none" /\ state'[u] = "Stopped"
          /\ pending'[u] = "none" /\ device'[u] = "stopped"
      BY <1>1, <1>2, <2>1 DEF Off
    <3>2. AtRest(u)'
      BY <3>1 DEF AtRest, Off
    <3> QED
      BY <3>1, <3>2 DEF UnitInv, Rests, Moves, Unmoved, Sent, Done, Failed, StatefulSent,
         Outcome, StatefulOps
  <2>2. CASE u # nextId
    <3>1. u \in registered /\ u \in Ids
      BY <1>1, <1>8, <2>2
    <3>2. AtRest(u) /\ pending[u] \notin StatefulOps
      BY <1>4, <3>1 DEF UnitInv, Rests, StatefulSent
    <3>3. /\ task'[u] = "none" /\ state'[u] = state[u] /\ alive'[u] = alive[u]
          /\ pending' = pending /\ device' = device /\ mustTerminate' = mustTerminate
      BY <1>1, <1>4, <2>2, <3>1
    <3>4. (Off(u) => Off(u)') /\ (On(u) => On(u)') /\ (Still(u) => Still(u)')
      BY <3>3 DEF On, Off, Still
    <3>5. AtRest(u)'
      <4> HIDE DEF Safe, TypeInv, TypeOK, Build, Idle, callVars
      <4> QED
        BY <3>2, <3>3, <3>4 DEF AtRest
    <3> QED
      BY <3>2, <3>3, <3>5 DEF UnitInv, Rests, Moves, Unmoved, Sent, Done, Failed,
         StatefulSent, Outcome
  <2> QED
    BY <2>1, <2>2
<1> QED
  BY <1>3, <1>5, <1>6, <1>7, <1>8 DEF NoOverlappingTransitions

(* Entering an operation: its movers are stopped (or running) units that   *)
(* no earlier request can still move.                                      *)
LEMMA EnterSafe ==
  ASSUME Safe, TypeInv', NEW kind \in RunOps \cup StartOps \cup {"quiesce"},
         NEW movers \in SUBSET registered, NEW settled \in SUBSET registered,
         Enter(kind, movers, settled), panic = "none",
         op = IF kind = "rollback_stop" THEN "rollback" ELSE "idle",
         \A u \in movers : state[u] = IF kind \in StopOps THEN "Running" ELSE "Stopped",
         \A u \in settled : \/ kind = "start" /\ state[u] = "Running"
                            \/ kind \in {"stop", "rollback_stop"} /\ state[u] = "Stopped",
         kind \in StartOps \cup {"stop", "quiesce"} => registered = movers \cup settled,
         kind # "rollback_stop" => \A u \in registered : state[u] # "QuiesceUncertain",
         kind \in {"stop", "quiesce"} => running,
         kind = "rollback_stop" => movers \cup settled \subseteq rollback
                                   /\ rollback \cap registered \subseteq movers
  PROVE  Safe'
<1> USE DEF Safe, TypeInv, TypeOK, Enter, registry, unitVars
<1>1. registered \subseteq Ids /\ \A u \in Ids : task[u] = "none"
  BY RegisteredAreIds DEF TasksBelongToOperation
<1>2. \A u \in registered : AtRest(u) /\ pending[u] \notin StatefulOps
  BY <1>1 DEF UnitInv, Rests, StatefulSent
<1>3. TaskInv'
  <2>1. ASSUME NEW u \in Ids PROVE TaskOf(u)'
    <3>1. u >= nextId => u \notin registered
      BY SMTT(20), IdsAreNumbers
    <3>2. u \in movers => pending[u] = "none"
      BY <1>2 DEF AtRest, On, Off
    <3> QED
      BY <3>1, <3>2, <2>1 DEF TaskInv, TaskOf
  <2> QED
    BY <1>1, <2>1 DEF TaskInv
<1>4. \A u \in registered : task'[u] # "sent"
  BY <1>1
<1>5. OrderInv'
  BY <1>4 DEF OrderInv
<1>6. LateStop'
  <2> SUFFICES ASSUME NEW d \in registered, pending[d] = "stop" PROVE FALSE
    BY DEF LateStop
  <2> QED
    BY <1>1 DEF LateStop
<1>7. FlagInv'
  BY <1>1 DEF FlagInv, AssertsOnlyOnBrokenUnits, Interim, StopOps, RunOps, StartOps, StatefulOps
<1>8. ASSUME NEW u \in registered PROVE UnitInv(u)'
  <2>1. CASE u \in movers
    <3>1. task'[u] = "waiting" /\ state'[u] = Interim(kind)
      BY <1>1, <2>1
    <3>2. (kind \in StopOps => On(u)) /\ (kind \notin StopOps => Off(u))
      BY <1>2, <2>1 DEF AtRest
    <3> QED
      BY <1>2, <3>1, <3>2 DEF UnitInv, Rests, Moves, Unmoved, Sent, Done, Failed, StatefulSent,
         On, Off, Outcome, StatefulOps
  <2>2. CASE u \in settled \ movers
    <3>1. task'[u] = "ready" /\ state'[u] = state[u]
      BY <1>1, <2>2
    <3>2. AtRest(u)'
      BY <1>2, <3>1 DEF AtRest, On, Off, Still
    <3>3. Settled(u)' /\ pending'[u] \notin StatefulOps
      BY <1>2, <2>2, <3>1 DEF Settled
    <3> QED
      BY <3>1, <3>2, <3>3 DEF UnitInv, Rests, Moves, Unmoved, Sent, Done, Failed,
         StatefulSent, Outcome
  <2>3. CASE u \notin movers /\ u \notin settled
    <3>1. task'[u] = "none" /\ state'[u] = state[u]
      BY <1>1, <2>3
    <3>2. AtRest(u)'
      BY <1>2, <3>1 DEF AtRest, On, Off, Still
    <3>3. pending'[u] \notin StatefulOps
      BY <1>2
    <3> QED
      BY <3>1, <3>2, <3>3 DEF UnitInv, Rests, Moves, Unmoved, Sent, Done, Failed,
         StatefulSent, Outcome
  <2> QED
    BY <2>1, <2>2, <2>3, SMTT(30)
<1> QED
  BY <1>3, <1>5, <1>6, <1>7, <1>8 DEF NoOverlappingTransitions

(* Between operations a registered unit is stopped, running or uncertain. *)
LEMMA RestingStates ==
  ASSUME Safe, op \in {"idle", "rollback"}, NEW u \in registered
  PROVE  state[u] \in {"Stopped", "Running", "QuiesceUncertain"}
<1>1. task[u] = "none"
  BY RegisteredAreIds DEF Safe, TypeInv, TasksBelongToOperation
<1> QED
  BY <1>1 DEF Safe, UnitInv, Rests, AtRest

LEMMA CallerSafe ==
  ASSUME Safe, Caller, TypeInv'
  PROVE  Safe'
<1>1. ASSUME NEW on \in SUBSET registered, NEW of \in SUBSET registered, Build(on, of)
      PROVE  Safe'
  BY <1>1, BuildSafe
<1>2. CASE StartBegin
  <2>1. "start" \in StartOps /\ "start" \notin StopOps
    BY DEF StartOps, StopOps
  <2> QED
    BY SMTT(20), <1>2, <2>1, EnterSafe DEF StartBegin, Idle, In
<1>3. CASE StopBegin
  <2> USE DEF StopBegin, Idle
  <2>1. CASE In({"Running", "Stopped"}) \cap registered = registered
    <3>1. "stop" \in RunOps /\ "stop" \in StopOps
      BY DEF RunOps, StopOps
    <3>2. Enter("stop", In({"Running"}) \cap registered, In({"Stopped"} \ {"Running"}) \cap registered)
      BY <1>3, <2>1 DEF RunOpBegin
    <3> QED
      BY SMTT(20), <1>3, <2>1, <3>1, <3>2, EnterSafe DEF In
  <2>2. CASE In({"Running", "Stopped"}) \cap registered # registered
    <3>1. Panic("assert")
      BY <1>3, <2>2 DEF RunOpBegin
    <3>2. \E u \in registered : state[u] = "QuiesceUncertain"
      BY <1>3, <2>2, RestingStates DEF In
    <3> QED
      BY SMTT(20), <3>1, <3>2, PanicSafe DEF Panics, AssertsOnlyOnBrokenUnits, Panic, registry
  <2> QED
    BY <2>1, <2>2
<1>4. CASE QuiesceBegin
  <2> USE DEF QuiesceBegin, Idle
  <2>1. CASE registered = In({"Running"})
    BY SMTT(20), <1>4, <2>1, EnterSafe DEF In, StopOps
  <2>2. CASE registered # In({"Running"})
    <3>1. \E u \in registered : state[u] \in {"QuiesceUncertain", "Stopped"}
      BY <1>4, <2>2, RestingStates DEF In
    <3> QED
      BY <1>4, <2>2, <3>1, PanicSafe DEF Panics, AssertsOnlyOnBrokenUnits, Panic, registry
  <2> QED
    BY <2>1, <2>2
<1>5. CASE ResumeBegin
  <2>1. "resume" \in StartOps /\ "resume" \notin StopOps
    BY DEF StartOps, StopOps
  <2> QED
    BY SMTT(20), <1>5, <2>1, EnterSafe DEF ResumeBegin, Idle, In
<1>6. CASE Refused
  BY SMTT(20), <1>6 DEF Refused, vars, registry, unitVars, callVars, Safe, TaskInv, TaskOf, OrderInv, StartsAfter,
     StopsAfter, LateStop, FlagInv, UnitInv, Rests, Moves, Unmoved, Sent, Done, Failed,
        StatefulSent, AtRest, Settled, On, Off, Still, Request,
     AssertsOnlyOnBrokenUnits, NoOverlappingTransitions
<1>7. ASSUME NEW kind \in StatefulOps, StatefulBegin(kind)
      PROVE  Safe'
  <2> USE DEF StatefulBegin, Idle
  <2>1. CASE In({"Stopped"}) \cap registered = registered
    <3>1. kind \in RunOps /\ kind \notin StopOps /\ kind \notin StartOps
      BY <1>7 DEF RunOps, StopOps, StatefulOps, StartOps
    <3>2. Enter(kind, In({"Stopped"}) \cap registered, In({"Stopped"} \ {"Stopped"}) \cap registered)
      BY <1>7, <2>1 DEF RunOpBegin
    <3>3. In({"Stopped"} \ {"Stopped"}) \cap registered = {}
      BY DEF In
    <3> QED
      BY SMTT(20), <1>7, <2>1, <3>1, <3>2, <3>3, EnterSafe DEF In, StopOps
  <2>2. CASE In({"Stopped"}) \cap registered # registered
    <3>1. Panic("assert")
      BY <1>7, <2>2 DEF RunOpBegin
    <3>2. PICK u \in registered : state[u] \in {"Running", "QuiesceUncertain"}
      BY <1>7, <2>2, RestingStates DEF In
    <3>3. mustTerminate \/ state[u] = "QuiesceUncertain"
      BY <1>7, <3>2 DEF Safe, FlagInv
    <3> QED
      BY SMTT(20), <3>1, <3>2, <3>3, PanicSafe DEF Panics, AssertsOnlyOnBrokenUnits, Panic, registry
  <2> QED
    BY <2>1, <2>2
<1> QED
  BY <1>1, <1>2, <1>3, <1>4, <1>5, <1>6, <1>7 DEF Caller

LEMMA RollbackSafe ==
  ASSUME Safe, RollbackBegin, TypeInv'
  PROVE  Safe'
<1> USE DEF RollbackBegin
<1>1. CASE rollback \subseteq registered
  <2>1. In({"Running", "Stopped"}) \cap rollback = rollback
    BY <1>1 DEF Safe, FlagInv, In
  <2>2. Enter("rollback_stop", In({"Running"}) \cap rollback, In({"Stopped"} \ {"Running"}) \cap rollback)
    BY <1>1, <2>1 DEF RunOpBegin
  <2>3. rollback \subseteq In({"Running"}) \cap rollback
    BY <1>1 DEF Safe, FlagInv, In
  <2>4. "rollback_stop" \in RunOps /\ "rollback_stop" \in StopOps /\ "rollback_stop" \notin StartOps
    BY DEF RunOps, StopOps, StartOps
  <2> QED
    BY SMTT(20), <2>2, <2>3, <2>4, EnterSafe DEF In
<1>2. CASE ~(rollback \subseteq registered)
  BY <1>2, PanicSafe DEF Panics
<1> QED
  BY <1>1, <1>2

-----------------------------------------------------------------------------
(* Leaving an operation: no request of a unit waits for an answer, except  *)
(* the ones a deadline gave up on.                                         *)
LEMMA LeaveSafe ==
  ASSUME Safe, TypeInv', Joined, NEW kind \in {"idle", "rollback"}, Leave(kind),
         op \in RunOps \cup StartOps \cup {"quiesce"},
         kind = "rollback" => op = "start",
         \A u \in registered : AtRest(u)',
         op = "quiesce" => \A u \in registered : task[u] = "lost" => state'[u] = "QuiesceUncertain",
         op = "quiesce" => kind = "idle",
         FlagInv'
  PROVE  Safe'
<1> USE DEF Safe, TypeInv, TypeOK, Leave, registry, unitVars
<1>1. registered \subseteq Ids /\ \A u \in registered : task[u] \notin {"waiting", "sent"}
  BY RegisteredAreIds DEF Joined
<1>2. TaskInv'
  BY DEF TaskInv, TaskOf, StartOps
<1>3. OrderInv'
  BY <1>1 DEF OrderInv
<1>4. LateStop'
  <2> SUFFICES ASSUME NEW d \in registered, pending[d] = "stop"
               PROVE  /\ kind = "idle" /\ state'[d] = "QuiesceUncertain"
                      /\ \A u \in dependents[d] \cap registered : Off(u)
    BY SMTT(30) DEF LateStop, Off
  <2> QED
    BY <1>1 DEF LateStop, RunOps, StartOps, StatefulOps
<1>5. \A u \in registered' : UnitInv(u)'
  BY <1>1 DEF UnitInv, Rests, Moves, Unmoved, Sent, Done, Failed, StatefulSent, Outcome
<1> QED
  BY <1>2, <1>3, <1>4, <1>5 DEF NoOverlappingTransitions

(* What a finished task of each operation leaves its unit in. *)
LEMMA JoinedTask ==
  ASSUME Safe, Joined, NEW u \in registered
  PROVE  /\ UnitInv(u) /\ TaskOf(u) /\ u \in Ids
         /\ task[u] \in {"none", "ready"} \cup Outcome
  BY RegisteredAreIds DEF Safe, TypeInv, TypeOK, TaskInv, Joined, Task

LEMMA StartFinishSafe ==
  ASSUME Safe, StartFinish, TypeInv'
  PROVE  Safe'
<1> USE DEF StartFinish
<1>0. registered \subseteq Ids /\ registered' = registered /\ mustTerminate' = mustTerminate
      /\ op = "start" /\ op \in StartOps /\ op \notin StopOps /\ op \notin StatefulOps /\ op \notin RunOps
      /\ panic' = "none"
  BY RegisteredAreIds DEF Safe, TypeInv, Leave, registry, StartOps, StopOps, StatefulOps, RunOps
<1> DEFINE started == {u \in Members : task[u] = "ok"}
<1>1. \A u \in registered : state'[u] = Settle(u, "Running", "Stopped")
  BY <1>0
<1>2. ASSUME NEW u \in registered PROVE AtRest(u)'
  <2>1. UnitInv(u) /\ TaskOf(u) /\ task[u] \in {"none", "ready"} \cup Outcome
    BY JoinedTask
  <2>2. task[u] # "none"
    BY <1>0 DEF Safe, TaskInv
  <2>3. u \in Members
    BY <2>2 DEF Members
  <2>4. pending' = pending /\ device' = device /\ alive' = alive
    BY DEF Leave, unitVars
  <2>5. CASE task[u] \in {"ready", "ok"}
    <3>1. state'[u] = "Running" /\ On(u)
      BY <1>0, <1>1, <2>1, <2>3, <2>5 DEF Settle, UnitInv, Rests, Done, AtRest, Settled
    <3> QED
      BY <2>4, <3>1 DEF AtRest, On
  <2>6. CASE task[u] = "depfail"
    <3>1. state'[u] = "Stopped" /\ Off(u)
      BY <1>0, <1>1, <2>1, <2>3, <2>6 DEF Settle, UnitInv, Unmoved
    <3> QED
      BY <2>4, <3>1 DEF AtRest, Off
  <2>7. CASE task[u] \in {"err", "lost"}
    <3>1. state'[u] = "QuiesceUncertain" /\ Still(u)
      BY <1>0, <1>1, <2>1, <2>3, <2>7 DEF Settle, UnitInv, Failed
    <3> QED
      BY <2>4, <3>1 DEF AtRest, Still
  <2>8. task[u] # "skip"
    BY <1>0, <2>1 DEF TaskOf
  <2> QED
    BY <2>1, <2>2, <2>5, <2>6, <2>7, <2>8 DEF Outcome
<1>3. \A u \in registered : state'[u] = "Running" => task[u] \in {"ready", "ok"}
  <2> SUFFICES ASSUME NEW u \in registered, state'[u] = "Running" PROVE task[u] \in {"ready", "ok"}
    OBVIOUS
  <2>1. task[u] # "none"
    BY <1>0, SMTT(30) DEF Safe, TaskInv
  <2> QED
    BY SMTT(20), <1>1, <2>1 DEF Settle, Members
<1>4. ~running /\ ~mustTerminate => \A u \in registered : task[u] # "ready"
  BY <1>0 DEF Safe, FlagInv, UnitInv, Rests, Settled
<1>5. \A u \in started : state'[u] = "Running"
  BY <1>1 DEF Settle, Members
<1>6. PICK kind \in {"idle", "rollback"} :
        /\ Leave(kind)
        /\ \/ running' = TRUE /\ kind = "idle"
           \/ /\ rollback' = started /\ running' = running
              /\ kind = IF started = {} THEN "idle" ELSE "rollback"
  <2>1. CASE Failures = {}
    BY <2>1
  <2>2. CASE Failures # {}
    BY <2>2
  <2> QED
    BY <2>1, <2>2
<1>7. FlagInv'
  <2>1. op' = kind /\ panic' = "none"
    BY <1>0, <1>6 DEF Leave
  <2>2. op' = "rollback" => \A u \in rollback' \cap registered' : state'[u] = "Running"
    BY <1>5, <1>6, <2>1
  <2>3. ~running' /\ ~mustTerminate' =>
          \A u \in registered' : state'[u] = "Running" => op' = "rollback" /\ u \in rollback'
    <3> SUFFICES ASSUME ~running', ~mustTerminate', NEW u \in registered, state'[u] = "Running"
                 PROVE  kind = "rollback" /\ u \in rollback'
      BY <1>0, <2>1
    <3>1. running' = running /\ rollback' = started
          /\ kind = IF started = {} THEN "idle" ELSE "rollback"
      BY <1>6
    <3>2. u \in started
      BY SMTT(20), <1>0, <1>3, <1>4, <3>1 DEF Members
    <3> QED
      BY <3>1, <3>2
  <2> QED
    BY <2>1, <2>2, <2>3 DEF FlagInv, AssertsOnlyOnBrokenUnits
<1> QED
  BY <1>0, <1>2, <1>6, <1>7, LeaveSafe

LEMMA RunOpFinishSafe ==
  ASSUME Safe, RunOpFinish, TypeInv'
  PROVE  Safe'
<1> USE DEF RunOpFinish
<1>1. CASE \E u \in Members : task[u] = "lost"
  BY <1>1, PanicSafe DEF Panics
<1>2. CASE ~\E u \in Members : task[u] = "lost"
  <2> USE <1>2
  <2>0. registered \subseteq Ids /\ registered' = registered /\ mustTerminate' = mustTerminate
        /\ op \notin StartOps /\ op # "quiesce" /\ op' = "idle" /\ panic' = "none"
    BY RegisteredAreIds DEF Safe, TypeInv, Leave, registry, StartOps, StatefulOps, RunOps
  <2>1. \A u \in registered : state'[u] = IF u \in Members THEN "Stopped" ELSE state[u]
    BY <2>0
  <2>2. ASSUME NEW u \in registered PROVE AtRest(u)'
    <3>1. UnitInv(u) /\ TaskOf(u) /\ task[u] \in {"none", "ready"} \cup Outcome
      BY JoinedTask
    <3>2. pending' = pending /\ device' = device /\ alive' = alive
      BY DEF Leave, unitVars
    <3>3. CASE task[u] = "none"
      <4>1. state'[u] = state[u]
        BY <2>1, <3>3 DEF Members
      <4>2. AtRest(u)
        BY <3>1, <3>3 DEF UnitInv, Rests
      <4> QED
        BY <2>0, <3>2, <4>1, <4>2 DEF AtRest, On, Off, Still
    <3>4. CASE task[u] # "none"
      <4>1. u \in Members /\ state'[u] = "Stopped"
        BY <2>1, <3>4 DEF Members
      <4>2. task[u] \in {"ready", "ok", "err", "skip"}
        BY <3>1, <3>4, <4>1, SMTT(30) DEF Outcome, TaskOf
      <4>3. task[u] \in {"ok", "err"} => Off(u)
        BY <2>0, <3>1 DEF UnitInv, Done, Failed
      <4>4. task[u] = "skip" => Off(u)
        BY <3>1 DEF UnitInv, Unmoved, TaskOf, StopOps
      <4>5. task[u] = "ready" => Off(u)
        BY <2>0, <3>1 DEF UnitInv, Rests, Settled, AtRest, StartOps
      <4>6. Off(u)
        BY <4>2, <4>3, <4>4, <4>5
      <4> QED
        BY <3>2, <4>1, <4>6 DEF AtRest, Off
    <3> QED
      BY <3>3, <3>4
  <2>3. FlagInv'
    <3>1. ASSUME ~running', ~mustTerminate, NEW u \in registered
          PROVE  state'[u] # "Running"
      <4>1. CASE op = "stop"
        BY <2>1, <4>1 DEF Safe, TaskInv, Members
      <4>2. CASE op # "stop"
        BY <2>1, <3>1, <4>2 DEF Safe, FlagInv, RunOps, StatefulOps
      <4> QED
        BY <4>1, <4>2
    <3> QED
      BY <2>0, <3>1 DEF FlagInv, AssertsOnlyOnBrokenUnits
  <2> QED
    BY <2>0, <2>2, <2>3, LeaveSafe
<1> QED
  BY <1>1, <1>2

LEMMA QuiesceFinishSafe ==
  ASSUME Safe, QuiesceFinish, TypeInv'
  PROVE  Safe'
<1> USE DEF QuiesceFinish
<1>0. registered \subseteq Ids /\ registered' = registered
      /\ op \notin StartOps /\ op \notin StatefulOps /\ op \notin RunOps /\ op \in StopOps
      /\ op' = "idle" /\ panic' = "none"
  BY RegisteredAreIds DEF Safe, TypeInv, Leave, registry, StartOps, StatefulOps, StopOps, RunOps
<1>1. ASSUME NEW u \in registered
      PROVE  /\ state'[u] = Settle(u, "Stopped", "Running") /\ u \in Members
             /\ UnitInv(u) /\ task[u] \in {"ok", "lost", "depfail"}
  <2>1. UnitInv(u) /\ TaskOf(u) /\ task[u] \in {"none", "ready"} \cup Outcome
    BY JoinedTask
  <2>2. task[u] # "none"
    BY DEF Safe, TaskInv
  <2>3. task[u] # "ready" /\ task[u] # "skip" /\ task[u] # "err"
    BY <1>0, <2>1 DEF UnitInv, Rests, Failed, Settled, TaskOf
  <2> QED
    BY <1>0, <2>1, <2>2, <2>3 DEF Members, Outcome
<1>2. ASSUME NEW u \in registered
      PROVE  AtRest(u)' /\ (task[u] = "lost" => state'[u] = "QuiesceUncertain")
  <2>1. pending' = pending /\ device' = device /\ alive' = alive
    BY DEF Leave, unitVars
  <2>2. CASE task[u] = "ok"
    <3>1. state'[u] = "Stopped" /\ Off(u)
      BY <1>0, <1>1, <2>2 DEF Settle, UnitInv, Done
    <3> QED
      BY <2>1, <2>2, <3>1 DEF AtRest, Off
  <2>3. CASE task[u] = "depfail"
    <3>1. state'[u] = "Running" /\ On(u)
      BY <1>0, <1>1, <2>3 DEF Settle, UnitInv, Unmoved
    <3> QED
      BY <2>1, <2>3, <3>1 DEF AtRest, On
  <2>4. CASE task[u] = "lost"
    <3>1. state'[u] = "QuiesceUncertain" /\ u \in Failures
      BY <1>1, <2>4 DEF Settle, Failures
    <3>2. mustTerminate'
      BY <2>4, <3>1
    <3> QED
      BY <3>1, <3>2 DEF AtRest
  <2> QED
    BY <1>1, <2>2, <2>3, <2>4
<1>3. FlagInv'
  <2>1. ASSUME ~running', NEW u \in registered PROVE state'[u] # "Running"
    <3>1. task[u] = "ok"
      BY <1>1, <2>1 DEF Failures
    <3> QED
      BY SMTT(20), <1>1, <3>1 DEF Settle
  <2> QED
    BY <1>0, <2>1 DEF FlagInv, AssertsOnlyOnBrokenUnits
<1> QED
  BY <1>0, <1>2, <1>3, LeaveSafe

LEMMA ResumeFinishSafe ==
  ASSUME Safe, ResumeFinish, TypeInv'
  PROVE  Safe'
<1> USE DEF ResumeFinish
<1>0. registered \subseteq Ids /\ registered' = registered
      /\ op \in StartOps /\ op \notin StopOps /\ op \notin StatefulOps /\ op \notin RunOps
      /\ op' = "idle" /\ panic' = "none"
  BY RegisteredAreIds DEF Safe, TypeInv, Leave, registry, StartOps, StatefulOps, StopOps, RunOps
<1>1. ASSUME NEW u \in registered PROVE AtRest(u)'
  <2>0. UnitInv(u) /\ TaskOf(u) /\ task[u] \in {"none", "ready"} \cup Outcome
    BY JoinedTask
  <2>1. task[u] # "none" /\ task[u] # "skip" /\ task[u] # "ready"
    BY <1>0, <2>0 DEF Safe, TaskInv, TaskOf, UnitInv, Rests, Settled
  <2>2. u \in Members /\ state'[u] = Settle(u, "Running", "Stopped")
    BY <1>0, <2>1 DEF Members
  <2>3. pending' = pending /\ device' = device /\ alive' = alive
    BY SMTT(30) DEF Leave, unitVars
  <2>4. CASE task[u] = "ok"
    <3>1. state'[u] = "Running" /\ On(u)
      BY <1>0, <2>0, <2>2, <2>4 DEF Settle, UnitInv, Done
    <3> QED
      BY <2>3, <3>1 DEF AtRest, On
  <2>5. CASE task[u] = "depfail"
    <3>1. state'[u] = "Stopped" /\ Off(u)
      BY <1>0, <2>0, <2>2, <2>5 DEF Settle, UnitInv, Unmoved
    <3> QED
      BY <2>3, <3>1 DEF AtRest, Off
  <2>6. CASE task[u] \in {"err", "lost"}
    <3>1. state'[u] = "QuiesceUncertain" /\ u \in Failures
      BY <2>2, <2>6 DEF Settle, Failures
    <3>2. mustTerminate'
      BY <3>1
    <3> QED
      BY <3>1, <3>2 DEF AtRest
  <2> QED
    BY <2>0, <2>1, <2>4, <2>5, <2>6 DEF Outcome
<1>2. FlagInv'
  BY <1>0 DEF FlagInv, AssertsOnlyOnBrokenUnits
<1> QED
  BY <1>0, <1>1, <1>2, LeaveSafe

LEMMA ExpireSafe ==
  ASSUME Safe, Expire, TypeInv'
  PROVE  Safe'
<1> USE DEF Safe, Expire, registry, unitVars
<1>1. TaskInv' /\ LateStop'
  BY SMTT(30) DEF TaskInv, TaskOf, LateStop, Off
<1>2. OrderInv'
  BY DEF OrderInv, StartsAfter, StopsAfter
<1>3. FlagInv'
  BY DEF FlagInv, AssertsOnlyOnBrokenUnits
<1>4. \A u \in registered' : UnitInv(u)'
  BY SMTT(20) DEF UnitInv, Rests, Moves, Unmoved, Sent, Done, Failed, StatefulSent, AtRest, Settled, On,
     Off, Still, Request
<1> QED
  BY <1>1, <1>2, <1>3, <1>4 DEF NoOverlappingTransitions

LEMMA NextSafe == Safe /\ [Next]_vars => Safe'
<1> SUFFICES ASSUME Safe, [Next]_vars PROVE Safe'
  OBVIOUS
<1>0. TypeInv'
  BY NextType DEF Safe
<1>1. CASE Caller
  BY <1>0, <1>1, CallerSafe
<1>2. CASE Operation
  BY <1>0, <1>2, SkipSafe, SendSafe, DependencyFailedSafe, TimeOutSafe, StartFinishSafe,
     RollbackSafe, RunOpFinishSafe, QuiesceFinishSafe, ResumeFinishSafe DEF Operation
<1>3. CASE Environment
  BY <1>0, <1>3, ExpireSafe, HandleSafe, DieSafe, RemoveSafe DEF Environment
<1>4. CASE Terminated \/ UNCHANGED vars
  BY SMTT(20), <1>0, <1>4 DEF Terminated, vars, registry, unitVars, callVars, Safe, TaskInv, TaskOf, OrderInv,
     StartsAfter, StopsAfter, LateStop, FlagInv, UnitInv, Rests, Moves, Unmoved, Sent, Done,
        Failed, StatefulSent, AtRest, Settled, On, Off, Still, Request,
     AssertsOnlyOnBrokenUnits, NoOverlappingTransitions
<1> QED
  BY <1>1, <1>2, <1>3, <1>4 DEF Next

(* The inductive invariant holds: each task of run_op, start_with_rollback *)
(* and quiesce_for_save tells what its unit is doing.                      *)
THEOREM SafeHolds == Spec => []Safe
  BY InitSafe, NextSafe, PTL DEF Spec

-----------------------------------------------------------------------------
(* The properties. *)

(* Whatever is asked to start runs after everything it depends on. *)
THEOREM StartsInOrder == Spec => []StartAfterDependencies
<1>1. Safe => StartAfterDependencies
  <2> SUFFICES ASSUME Safe, NEW u \in registered, op \in StartOps, task[u] = "sent",
                      NEW d \in dependencies[u] \cap registered, alive[d]
               PROVE  device[d] = "running"
    BY DEF StartAfterDependencies
  <2>1. task[d] \in {"ready", "ok"} /\ UnitInv(d)
    BY DEF Safe, OrderInv, StartsAfter
  <2> QED
    BY <2>1 DEF UnitInv, Rests, Done, Settled, AtRest, On, StartOps
<1> QED
  BY <1>1, SafeHolds, PTL

(* Nothing is asked to stop while a dependent still runs, and a stop that  *)
(* a quiesce abandoned is never overtaken by a start of a dependent.       *)
THEOREM StopsInOrder == Spec => []StopAfterDependents
<1>1. Safe => StopAfterDependents
  <2> SUFFICES ASSUME Safe, NEW d \in registered, pending[d] = "stop",
                      NEW u \in dependents[d] \cap registered, device[u] = "running"
               PROVE  op = "rollback_stop" /\ task[u] = "none"
    BY SMTT(30) DEF StopAfterDependents
  <2>1. task[d] = "sent"
    BY DEF Safe, LateStop, Off
  <2>2. d \in Ids /\ op \in RunOps \cup StartOps \cup {"quiesce"}
    BY <2>1, TaskHasOperation, RegisteredAreIds DEF Safe, TypeInv
  <2>3. UnitInv(d) /\ UnitInv(u)
    BY DEF Safe
  <2>4. op \in StopOps
    BY <2>1, <2>2, <2>3 DEF UnitInv, Sent, Request, RunOps, StartOps, StatefulOps, StopOps
  <2>5. StopsAfter(d)
    BY <2>1, <2>4 DEF Safe, OrderInv
  <2>6. op \notin StartOps
    BY <2>4, SMTT(30) DEF StopOps, StartOps
  <2>7. task[u] # "ready" /\ task[u] # "ok"
    BY <2>3, <2>6 DEF UnitInv, Rests, Done, Settled, AtRest, Off, StartOps
  <2>8. ~(task[u] = "lost" /\ op # "quiesce")
    BY <2>3, <2>6 DEF UnitInv, Failed, Still, StartOps
  <2> QED
    BY <2>5, <2>7, <2>8 DEF StopsAfter
<1> QED
  BY <1>1, SafeHolds, PTL

(* Between operations Unit.state is what the unit does, unless it says     *)
(* that it does not know.                                                  *)
THEOREM RecordIsReal == Spec => []RecordedStateIsReal
<1>1. Safe => RecordedStateIsReal
  <2> SUFFICES ASSUME Safe, op = "idle", NEW u \in registered, state[u] # "QuiesceUncertain"
               PROVE  /\ state[u] \in {"Running", "Stopped"}
                      /\ pending[u] = "none"
                      /\ alive[u] => (state[u] = "Running") = (device[u] = "running")
    BY DEF RecordedStateIsReal
  <2>1. task[u] = "none"
    BY RegisteredAreIds, SMTT(30) DEF Safe, TypeInv, TasksBelongToOperation
  <2>2. AtRest(u)
    BY <2>1 DEF Safe, UnitInv, Rests
  <2> QED
    BY <2>2 DEF AtRest, On, Off
<1> QED
  BY <1>1, SafeHolds, PTL

(* A VM that is not running, and that nobody was told to terminate, has no *)
(* unit that runs: a failed start is undone completely.                    *)
THEOREM StoppedIsQuiet == Spec => []NotRunningMeansQuiet
<1>1. Safe => NotRunningMeansQuiet
  <2> SUFFICES ASSUME Safe, op = "idle", ~running, ~mustTerminate, NEW u \in registered
               PROVE  device[u] # "running"
    BY DEF NotRunningMeansQuiet
  <2>1. task[u] = "none"
    BY RegisteredAreIds, SMTT(30) DEF Safe, TypeInv, TasksBelongToOperation
  <2>2. AtRest(u) /\ state[u] # "Running"
    BY <2>1 DEF Safe, UnitInv, Rests, FlagInv
  <2> QED
    BY <2>2 DEF AtRest, Off, Still
<1> QED
  BY <1>1, SafeHolds, PTL

(* reset, save and restore reach stopped units only. *)
THEOREM StatefulWhenStopped == Spec => []StatefulOnlyWhenStopped
<1>1. Safe => StatefulOnlyWhenStopped
  <2> SUFFICES ASSUME Safe, NEW u \in registered, pending[u] \in StatefulOps
               PROVE  device[u] = "stopped"
    BY DEF StatefulOnlyWhenStopped
  <2>1. UnitInv(u) /\ task[u] = "sent"
    BY DEF Safe, UnitInv, StatefulSent
  <2>2. pending[u] = Request /\ (op \notin StopOps => device[u] = "stopped")
    BY <2>1 DEF UnitInv, Sent
  <2>3. op \notin StopOps
    BY <2>2 DEF Request, StopOps, StatefulOps, StartOps
  <2> QED
    BY <2>2, <2>3
<1> QED
  BY <1>1, SafeHolds, PTL

(* apply_with_concurrent_inspects never finds a second transition behind   *)
(* an unanswered one.                                                      *)
THEOREM TransitionsDoNotOverlap == Spec => []NoOverlappingTransitions
<1>1. Safe => NoOverlappingTransitions
  BY DEF Safe
<1> QED
  BY <1>1, SafeHolds, PTL

(* For any dependency graph, starts and stops keep its order. *)
THEOREM TransitionsOrdered == Spec => []TransitionsInOrder
  BY StartsInOrder, StopsInOrder, PTL DEF TransitionsInOrder

(* After every operation the registry is right about the units. *)
THEOREM RecordsReal == Spec => []RecordsAreReal
  BY RecordIsReal, StoppedIsQuiet, PTL DEF RecordsAreReal

(* No unit is sent a lifecycle transition it cannot take. *)
THEOREM RequestsTaken == Spec => []RequestsFit
  BY TransitionsDoNotOverlap, StatefulWhenStopped, PTL DEF RequestsFit

(* The assertions of run_op and quiesce_for_save hold in a healthy VM. *)
THEOREM AssertsHold == Spec => []AssertsOnlyOnBrokenUnits
<1>1. Safe => AssertsOnlyOnBrokenUnits
  BY DEF Safe, FlagInv
<1> QED
  BY <1>1, SafeHolds, PTL

(* QuiesceUncertain is terminal: no operation moves such a unit. *)
THEOREM UncertainIsTerminal == Spec => TerminalStateIsFinal
<1> DEFINE Final == \A u \in registered \cap registered' :
                       state[u] = "QuiesceUncertain" => state'[u] = "QuiesceUncertain"
<1>1. Safe /\ [Next]_vars => [Final]_vars
  <2> SUFFICES ASSUME Safe, Next, NEW u \in registered, u \in registered', state[u] = "QuiesceUncertain"
               PROVE  state'[u] = "QuiesceUncertain"
    OBVIOUS
  <2> u \in Ids
    BY RegisteredAreIds DEF Safe, TypeInv
  <2> USE DEF Safe, TypeInv, TypeOK
  <2>1. task[u] # "none" => FALSE
    <3> SUFFICES ASSUME task[u] # "none" PROVE FALSE
      OBVIOUS
    <3>1. op \in RunOps \cup StartOps \cup {"quiesce"} /\ UnitInv(u)
      BY TaskHasOperation
    <3>2. Interim(op) # "QuiesceUncertain"
      BY <3>1 DEF Interim, RunOps, StartOps, StatefulOps
    <3> QED
      BY <3>1, <3>2 DEF UnitInv, Rests, Moves, Settled, Task
  <2>2. ASSUME NEW kind, NEW movers, NEW settled, Enter(kind, movers, settled),
               \A w \in movers : state[w] \in {"Stopped", "Running"}
        PROVE  state'[u] = "QuiesceUncertain"
    BY <2>2 DEF Enter
  <2>3. ASSUME NEW why, Panic(why) PROVE state'[u] = "QuiesceUncertain"
    BY <2>3 DEF Panic
  <2>4. CASE Caller
    <3>1. ASSUME NEW on, NEW of, Build(on, of) PROVE state'[u] = "QuiesceUncertain"
      BY SMTT(20), <3>1, UnitsAssumption DEF Build, Ids
    <3>2. CASE StartBegin \/ StopBegin \/ QuiesceBegin \/ ResumeBegin
      BY <2>2, <2>3, <3>2 DEF StartBegin, StopBegin, QuiesceBegin, ResumeBegin, RunOpBegin, In
    <3>3. ASSUME NEW kind \in StatefulOps, StatefulBegin(kind) PROVE state'[u] = "QuiesceUncertain"
      BY <2>2, <2>3, <3>3 DEF StatefulBegin, RunOpBegin, In
    <3>4. CASE Refused
      BY <3>4 DEF Refused, vars
    <3> QED
      BY <2>4, <3>1, <3>2, <3>3, <3>4 DEF Caller
  <2>5. CASE Operation
    <3>1. ASSUME NEW v \in Ids, Skip(v) \/ Send(v) \/ DependencyFailed(v) \/ TimeOut(v)
          PROVE  state'[u] = "QuiesceUncertain"
      BY <3>1 DEF Skip, Send, DependencyFailed, TimeOut, SetTask, Panic
    <3>2. CASE RollbackBegin
      BY SMTT(20), <2>2, <2>3, <3>2 DEF RollbackBegin, RunOpBegin, In
    <3>3. CASE StartFinish \/ QuiesceFinish \/ ResumeFinish
      BY <2>1, <3>3 DEF StartFinish, QuiesceFinish, ResumeFinish, Settle, Members
    <3>4. CASE RunOpFinish
      BY <2>1, <2>3, <3>4, SMTT(30) DEF RunOpFinish, Members
    <3> QED
      BY <2>5, <3>1, <3>2, <3>3, <3>4, SMTT(30) DEF Operation
  <2>6. CASE Environment \/ Terminated
    BY <2>6 DEF Environment, Expire, Handle, HandleStart, HandleStop, HandleStateful, Answer, Die,
       Remove, Terminated, vars
  <2> QED
    BY <2>4, <2>5, <2>6 DEF Next
<1>2. TerminalStateIsFinal <=> [][Final]_vars
  BY DEF TerminalStateIsFinal
<1> QED
  BY <1>1, <1>2, SafeHolds, PTL DEF Spec

-----------------------------------------------------------------------------
(* StateUnits implements Lifecycle: every step of the registry, its tasks  *)
(* and its units is a step of the specification the VM worker relies on,   *)
(* or changes nothing that the worker can see.                             *)

(* What StateUnits shows for the variables `present` and `op`. *)
Seen == {Before(u) : u \in registered}
Kind == IF op \in {"rollback", "rollback_stop"} THEN "start" ELSE op

(* A rollback has a task for every unit that it has to stop. *)
RollbackInv == op = "rollback_stop" => \A u \in rollback \cap registered : task[u] # "none"

LEMMA InitPromise == Init => Promise!LifecycleInit
BY DEF Init, Promise!LifecycleInit

LEMMA EnterRollback ==
  ASSUME NEW kind, NEW movers, NEW settled, Enter(kind, movers, settled), kind # "rollback_stop"
  PROVE  RollbackInv'
BY DEF Enter, RollbackInv

(* A step that only moves tasks forward, or drops a unit. *)
LEMMA TasksRollback ==
  ASSUME RollbackInv, op' = op, rollback' = rollback, registered' \subseteq registered,
         registered \subseteq Ids, \A u \in Ids : task[u] # "none" => task'[u] # "none"
  PROVE  RollbackInv'
BY DEF RollbackInv

LEMMA RollbackKept == Safe /\ RollbackInv /\ [Next]_vars => RollbackInv'
<1> SUFFICES ASSUME Safe, RollbackInv, [Next]_vars PROVE RollbackInv'
  OBVIOUS
<1> registered \subseteq Ids
  BY RegisteredAreIds DEF Safe, TypeInv
<1> USE DEF Safe, TypeInv, TypeOK
<1>1. ASSUME NEW why, Panic(why) PROVE RollbackInv'
  BY <1>1 DEF Panic, RollbackInv, registry
<1>2. CASE Caller
  <2>1. ASSUME NEW on, NEW of, Build(on, of) PROVE RollbackInv'
    BY <2>1 DEF Build, Idle, callVars, RollbackInv
  <2>2. CASE StartBegin \/ StopBegin \/ QuiesceBegin \/ ResumeBegin
    BY <1>1, <2>2, EnterRollback
    DEF StartBegin, StopBegin, QuiesceBegin, ResumeBegin, RunOpBegin
  <2>3. ASSUME NEW kind \in StatefulOps, StatefulBegin(kind) PROVE RollbackInv'
    <3>1. kind # "rollback_stop"
      BY DEF StatefulOps
    <3> QED
      BY <1>1, <2>3, <3>1, EnterRollback DEF StatefulBegin, RunOpBegin
  <2>4. CASE Refused
    BY <2>4 DEF Refused, vars, callVars, registry, RollbackInv
  <2> QED
    BY <1>2, <2>1, <2>2, <2>3, <2>4 DEF Caller
<1>3. CASE Operation
  <2>1. ASSUME NEW v \in Ids, Skip(v) \/ Send(v) \/ DependencyFailed(v) \/ TimeOut(v)
        PROVE  RollbackInv'
    <3>1. op' = op /\ rollback' = rollback /\ registered' = registered
      BY <2>1 DEF Skip, Send, DependencyFailed, TimeOut, SetTask, Panic, registry, callVars
    <3>2. \A u \in Ids : task[u] # "none" => task'[u] # "none"
      BY <2>1 DEF Skip, Send, DependencyFailed, TimeOut, SetTask, Panic
    <3> QED
      BY <3>1, <3>2, TasksRollback
  <2>2. CASE RollbackBegin
    <3>1. CASE \E why : Panic(why)
      BY <1>1, <3>1
    <3>2. CASE /\ rollback \subseteq registered /\ In({"Running", "Stopped"}) \cap rollback = rollback
               /\ Enter("rollback_stop", In({"Running"}) \cap rollback,
                        In({"Stopped"} \ {"Running"}) \cap rollback)
      <4>1. \A u \in rollback : u \in In({"Running"}) \/ u \in In({"Stopped"} \ {"Running"})
        BY <3>2 DEF In
      <4> QED
        BY <3>2, <4>1 DEF Enter, RollbackInv, registry
    <3> QED
      BY <2>2, <3>1, <3>2 DEF RollbackBegin, RunOpBegin
  <2>3. CASE StartFinish \/ QuiesceFinish \/ ResumeFinish
    BY <2>3 DEF StartFinish, QuiesceFinish, ResumeFinish, Leave, RollbackInv
  <2>4. CASE RunOpFinish
    BY <1>1, <2>4 DEF RunOpFinish, Leave, RollbackInv
  <2> QED
    BY <1>3, <2>1, <2>2, <2>3, <2>4 DEF Operation
<1>4. CASE Environment
  <2>1. ASSUME NEW v \in Ids, Handle(v) \/ Die(v) \/ Remove(v) PROVE RollbackInv'
    <3>1. op' = op /\ rollback' = rollback /\ registered' \subseteq registered
      BY <2>1 DEF Handle, HandleStart, HandleStop, HandleStateful, Answer, Die, Remove, registry,
         callVars
    <3>2. \A u \in Ids : task[u] # "none" => task'[u] # "none"
      BY SMTT(20), <2>1 DEF Handle, HandleStart, HandleStop, HandleStateful, Answer, Die, Remove
    <3> QED
      BY <3>1, <3>2, TasksRollback
  <2>2. CASE Expire
    BY <2>2 DEF Expire, registry, RollbackInv
  <2> QED
    BY <1>4, <2>1, <2>2 DEF Environment
<1>5. CASE Terminated \/ UNCHANGED vars
  BY <1>5 DEF Terminated, vars, callVars, registry, RollbackInv
<1> QED
  BY <1>2, <1>3, <1>4, <1>5 DEF Next

-----------------------------------------------------------------------------
(* A step that the worker cannot see. *)
LEMMA Unseen ==
  ASSUME Seen' = Seen, Kind' = Kind, running' = running, mustTerminate' = mustTerminate,
         (panic # "none")' = (panic # "none")
  PROVE  UNCHANGED Promise!lifecycleVars
BY DEF Seen, Kind, Promise!lifecycleVars

(* What the worker sees of a unit depends on little. *)
LEMMA SameBefore ==
  ASSUME NEW u, state'[u] = state[u], op' = op, rollback' = rollback
  PROVE  Before(u)' = Before(u)
BY DEF Before

LEMMA SameSeen ==
  ASSUME registered' = registered, \A u \in registered : Before(u)' = Before(u)
  PROVE  Seen' = Seen
BY DEF Seen

LEMMA PanicPromise ==
  ASSUME NEW why \in Panics \ {"none"}, Panic(why), panic = "none"
  PROVE  /\ Seen' = Seen /\ Promise!Crash
         /\ op \in {"rollback", "rollback_stop", "stop"} \cup StatefulOps => Promise!LoseUnit
<1>1. Seen' = Seen
  BY SameSeen, SameBefore DEF Panic, registry
<1>2. Promise!Crash
  BY <1>1 DEF Panic, Seen, Promise!Crash
<1> QED
  BY <1>1, <1>2 DEF Promise!LoseUnit, Promise!Stateful, StatefulOps

(* Build is AddUnit, and dropping a handle is DropUnits. *)
LEMMA BuildPromise ==
  ASSUME Safe, NEW on, NEW of, Build(on, of)
  PROVE  Promise!AddUnit
<1>1. nextId \notin registered /\ registered \subseteq Ids
  BY SMTT(20), RegisteredAreIds, UnitsAssumption DEF Safe, TypeInv, TypeOK
<1>2. \A u \in registered : Before(u)' = Before(u)
  BY <1>1, SameBefore DEF Build, callVars, Safe, TypeInv, TypeOK
<1> PICK new : new = nextId
  OBVIOUS
<1>3. Before(new)' = "Stopped"
  BY DEF Build, callVars, Idle, Before, Safe, TypeInv, TypeOK
<1>4. registered' = registered \cup {new}
  BY DEF Build
<1>5. Seen' = Seen \cup {"Stopped"}
  BY <1>2, <1>3, <1>4 DEF Seen
<1> QED
  BY <1>5 DEF Seen, Build, Idle, callVars, Promise!AddUnit, Promise!Free

LEMMA RemovePromise ==
  ASSUME NEW v, Remove(v)
  PROVE  Promise!DropUnits
<1>1. \A u \in registered : Before(u)' = Before(u)
  BY SameBefore DEF Remove, callVars
<1>2. Seen' \in SUBSET Seen
  BY <1>1 DEF Remove, Seen
<1> QED
  BY <1>2 DEF Seen, Remove, callVars, Promise!DropUnits

-----------------------------------------------------------------------------
(* Entering an operation. *)

(* Between operations the worker sees the recorded states. *)
LEMMA SeenAtRest ==
  ASSUME Safe, Idle, NEW u \in registered
  PROVE  \/ state[u] = "Stopped" /\ Before(u) = "Stopped"
         \/ state[u] = "Running" /\ Before(u) = "Running"
         \/ state[u] = "QuiesceUncertain" /\ Before(u) = "Uncertain"
BY RestingStates DEF Before, Idle

LEMMA EnterSeen ==
  ASSUME NEW kind \in Ops \ {"rollback", "rollback_stop"}, NEW movers, NEW settled,
         Safe, Idle, Enter(kind, movers, settled),
         \A u \in movers : state[u] = IF kind \in {"stop", "quiesce"} THEN "Running" ELSE "Stopped"
  PROVE  Promise!EnterOp(kind)
<1>1. registered \subseteq Ids
  BY RegisteredAreIds DEF Safe, TypeInv
<1>2. ASSUME NEW u \in registered PROVE Before(u)' = Before(u)
  <2>1. op' = kind /\ op = "idle" /\ u \in Ids
    BY <1>1 DEF Enter, Idle
  <2>2. CASE u \notin movers
    BY <2>1, <2>2 DEF Enter, Before
  <2>3. CASE u \in movers /\ kind \in {"stop", "quiesce"}
    <3>1. state'[u] = "Stopping" /\ state[u] = "Running"
      BY <2>1, <2>3 DEF Enter, Interim, StartOps
    <3> QED
      BY <2>1, <2>3, <3>1 DEF Before
  <2>4. CASE u \in movers /\ kind \notin {"stop", "quiesce"}
    <3>1. state'[u] \in {"Starting", "Resetting", "Saving", "Restoring", "AdvancingTime"}
      BY <2>1, <2>4 DEF Enter, Interim, Ops, RunOps, StartOps, StatefulOps
    <3>2. state[u] = "Stopped"
      BY <2>4
    <3> QED
      BY <2>1, <3>1, <3>2 DEF Before
  <2> QED
    BY <2>2, <2>3, <2>4
<1>3. Seen' = Seen
  BY <1>2, SameSeen DEF Enter, registry
<1> QED
  BY <1>3 DEF Seen, Enter, Promise!EnterOp

LEMMA BeginPromise ==
  ASSUME Safe, StartBegin \/ StopBegin \/ QuiesceBegin \/ ResumeBegin
  PROVE  Promise!LifecycleNext
<1> USE DEF Promise!LifecycleNext, Promise!Free, Idle
<1>1. "assert" \in Panics \ {"none"}
  BY DEF Panics
<1>2. {"start", "stop", "quiesce", "resume"} \subseteq Ops \ {"rollback", "rollback_stop"}
  BY DEF Ops, RunOps, StartOps
<1>3. CASE StartBegin
  <2>1. "Uncertain" \notin Seen
    BY <1>3, SeenAtRest DEF StartBegin, Seen, In
  <2>2. Promise!EnterOp("start")
    BY SMTT(20), <1>2, <1>3, EnterSeen DEF StartBegin, In
  <2> QED
    BY <1>3, <2>1, <2>2 DEF StartBegin, Seen, Promise!BeginStart, Promise!MayStart
<1>4. CASE StopBegin
  <2>1. CASE In({"Running", "Stopped"}) \cap registered = registered
    <3>1. "Uncertain" \notin Seen
      BY <1>4, <2>1, SeenAtRest DEF StopBegin, Seen, In
    <3>2. Promise!EnterOp("stop")
      BY SMTT(20), <1>2, <1>4, <2>1, EnterSeen DEF StopBegin, RunOpBegin, In
    <3> QED
      BY <1>4, <3>1, <3>2 DEF StopBegin, Seen, Promise!BeginStop, Promise!EnterIf
  <2>2. CASE In({"Running", "Stopped"}) \cap registered # registered
    <3>1. "Uncertain" \in Seen
      BY <1>4, <2>2, SeenAtRest DEF StopBegin, Seen, In
    <3>2. Promise!Crash
      BY <1>1, <1>4, <2>2, PanicPromise DEF StopBegin, RunOpBegin
    <3> QED
      BY <1>4, <3>1, <3>2 DEF StopBegin, Seen, Promise!BeginStop, Promise!EnterIf
  <2> QED
    BY <2>1, <2>2
<1>5. CASE QuiesceBegin
  <2>1. registered = In({"Running"}) <=> Seen \subseteq {"Running"}
    BY <1>5, SeenAtRest DEF QuiesceBegin, Seen, In
  <2>2. CASE registered = In({"Running"})
    <3>1. Promise!EnterOp("quiesce")
      BY <1>2, <1>5, <2>2, EnterSeen DEF QuiesceBegin, In
    <3> QED
      BY <1>5, <2>1, <2>2, <3>1 DEF QuiesceBegin, Seen, Promise!BeginQuiesce, Promise!EnterIf
  <2>3. CASE registered # In({"Running"})
    <3>1. Promise!Crash
      BY <1>1, <1>5, <2>3, PanicPromise DEF QuiesceBegin
    <3> QED
      BY <1>5, <2>1, <2>3, <3>1 DEF QuiesceBegin, Seen, Promise!BeginQuiesce, Promise!EnterIf
  <2> QED
    BY <2>2, <2>3
<1>6. CASE ResumeBegin
  <2>1. Seen \subseteq {"Stopped"}
    BY <1>6, SeenAtRest DEF ResumeBegin, Seen, In
  <2>2. Promise!EnterOp("resume")
    BY <1>2, <1>6, EnterSeen DEF ResumeBegin, In
  <2> QED
    BY <1>6, <2>1, <2>2 DEF ResumeBegin, Seen, Promise!BeginResume, Promise!MayResume
<1> QED
  BY <1>3, <1>4, <1>5, <1>6

LEMMA StatefulPromise ==
  ASSUME Safe, NEW kind \in StatefulOps, StatefulBegin(kind)
  PROVE  Promise!LifecycleNext
<1>1. kind \in Promise!Stateful /\ kind \in Ops \ {"rollback", "rollback_stop"}
      /\ kind \notin {"stop", "quiesce"} /\ "assert" \in Panics \ {"none"}
  BY DEF Promise!Stateful, StatefulOps, Ops, RunOps, Panics
<1>2. registered = In({"Stopped", "Stopped"}) \cap registered <=> Seen \subseteq {"Stopped"}
  BY SeenAtRest DEF StatefulBegin, Seen, In, Idle
<1>3. CASE registered = In({"Stopped", "Stopped"}) \cap registered
  <2>1. Promise!EnterOp(kind)
    BY <1>1, <1>3, EnterSeen DEF StatefulBegin, RunOpBegin, In
  <2>2. Promise!BeginStateful(kind)
    BY <1>2, <1>3, <2>1 DEF StatefulBegin, Idle, Seen, Promise!BeginStateful, Promise!EnterIf, Promise!Free
  <2> QED
    BY <1>1, <2>2 DEF Promise!LifecycleNext
<1>4. CASE registered # In({"Stopped", "Stopped"}) \cap registered
  <2>1. Promise!Crash
    BY <1>1, <1>4, PanicPromise DEF StatefulBegin, RunOpBegin, Idle
  <2>2. Promise!BeginStateful(kind)
    BY <1>2, <1>4, <2>1 DEF StatefulBegin, Idle, Seen, Promise!BeginStateful, Promise!EnterIf, Promise!Free
  <2> QED
    BY <1>1, <2>2 DEF Promise!LifecycleNext
<1> QED
  BY <1>3, <1>4

-----------------------------------------------------------------------------
(* Leaving an operation. *)

(* How a finished task of a fallible operation settles its unit. *)
LEMMA Settling ==
  ASSUME Safe, Joined, op \in StartOps \cup {"quiesce"}, NEW u \in registered, NEW done, NEW undone
  PROVE  /\ u \in Members
         /\ u \in Failures <=> task[u] \in {"err", "lost", "depfail"}
         /\ \/ task[u] \in {"ready", "ok"} /\ Settle(u, done, undone) = done
            \/ task[u] = "depfail" /\ Settle(u, done, undone) = undone
            \/ task[u] \in {"err", "lost"} /\ Settle(u, done, undone) = "QuiesceUncertain"
         /\ op = "quiesce" => task[u] \notin {"err", "ready"}
         /\ op = "resume" => task[u] # "ready"
<1>1. task[u] \in {"none", "ready"} \cup Outcome /\ TaskOf(u) /\ UnitInv(u)
  BY JoinedTask
<1>2. task[u] # "none"
  BY DEF Safe, TaskInv
<1>3. task[u] # "skip"
  BY <1>1 DEF TaskOf, StartOps
<1>4. u \in Members
  BY <1>2 DEF Members
<1>5. op = "quiesce" => task[u] \notin {"err", "ready"}
  BY <1>1 DEF UnitInv, Failed, Rests, Settled, StartOps, StatefulOps
<1>6. op = "resume" => task[u] # "ready"
  BY <1>1 DEF UnitInv, Rests, Settled
<1> QED
  BY <1>1, <1>2, <1>3, <1>4, <1>5, <1>6 DEF Failures, Settle, Outcome

(* A successful operation leaves every unit in one state. *)
LEMMA AllInOne ==
  ASSUME NEW s, registered' = registered, \A u \in registered : Before(u)' = s
  PROVE  Seen' = IF Seen = {} THEN {} ELSE {s}
BY DEF Seen

LEMMA StartFinishPromise ==
  ASSUME Safe, StartFinish
  PROVE  Promise!StartOk \/ Promise!StartErr
<1> USE DEF StartFinish
<1>1. registered \subseteq Ids /\ op = "start" /\ op \in StartOps
  BY RegisteredAreIds DEF Safe, TypeInv, StartOps
<1>2. registered' = registered /\ panic' = panic /\ mustTerminate' = mustTerminate
  BY DEF Leave, registry
<1>3. \A u \in registered : state'[u] = Settle(u, "Running", "Stopped")
  BY <1>1
<1>4. ASSUME NEW u \in registered
      PROVE  Before(u) = IF task[u] = "ready" THEN "Running" ELSE "Stopped"
  <2>1. UnitInv(u) /\ task[u] \in {"ready"} \cup Outcome
    BY <1>1, JoinedTask DEF Safe, TaskInv
  <2>2. CASE task[u] = "ready"
    BY <1>1, <2>1, <2>2 DEF UnitInv, Rests, Settled, Before
  <2>3. CASE task[u] # "ready"
    <3>1. state[u] = "Starting"
      BY <1>1, <2>1, <2>3 DEF UnitInv, Moves, Interim
    <3> QED
      BY <1>1, <2>3, <3>1 DEF Before
  <2> QED
    BY <2>2, <2>3
<1>5. CASE Failures = {}
  <2>1. op' = "idle" /\ running' = TRUE
    BY <1>5 DEF Leave
  <2>2. \A u \in registered : state'[u] = "Running"
    BY SMTT(20), <1>1, <1>3, <1>5, Settling
  <2>3. Seen' = IF Seen = {} THEN {} ELSE {"Running"}
    BY <1>2, <2>1, <2>2, AllInOne DEF Before
  <2>4. "Uncertain" \notin Seen
    BY <1>4 DEF Seen
  <2> QED
    BY <1>1, <1>2, <2>1, <2>3, <2>4
    DEF Seen, Promise!StartOk, Promise!During, Promise!MayStart, Promise!Finish, Promise!AllIn
<1>6. CASE Failures # {}
  <2> DEFINE started == {u \in Members : task[u] = "ok"}
  <2>1. /\ op' = (IF started = {} THEN "idle" ELSE "rollback")
        /\ rollback' = started /\ running' = running
    BY <1>6 DEF Leave
  <2>2. ASSUME NEW u \in registered PROVE Before(u)' \in {Before(u), "Uncertain"}
    <3>1. CASE task[u] = "ok"
      <4>1. u \in started /\ op' = "rollback" /\ u \in rollback'
        BY <1>1, <2>1, <3>1, Settling
      <4>2. Before(u)' = "Stopped"
        BY <4>1 DEF Before
      <4> QED
        BY <1>4, <3>1, <4>2
    <3>2. CASE task[u] # "ok"
      <4>1. u \notin rollback'
        BY <2>1, <3>2
      <4>2. \/ task[u] = "ready" /\ state'[u] = "Running"
            \/ task[u] = "depfail" /\ state'[u] = "Stopped"
            \/ state'[u] = "QuiesceUncertain"
        BY SMTT(20), <1>1, <1>3, <3>2, Settling
      <4>3. Before(u)' = CASE state'[u] \in {"Running", "Stopping"} -> "Running"
                           [] state'[u] = "QuiesceUncertain" -> "Uncertain"
                           [] OTHER -> "Stopped"
        BY <4>1 DEF Before
      <4> QED
        BY <1>4, <3>2, <4>2, <4>3
    <3> QED
      BY <3>1, <3>2
  <2>3. Seen' \in SUBSET (Seen \cup {"Uncertain"})
    BY <1>2, <2>2 DEF Seen
  <2>4. Kind' \in {"start", "idle"}
    BY <2>1 DEF Kind
  <2> QED
    BY <1>1, <1>2, <2>1, <2>3, <2>4 DEF Seen, Kind, Promise!StartErr, Promise!During
<1> QED
  BY <1>5, <1>6

LEMMA RunOpFinishPromise ==
  ASSUME Safe, RollbackInv, RunOpFinish
  PROVE  Promise!LifecycleNext
<1> USE DEF RunOpFinish
<1>1. registered \subseteq Ids
  BY RegisteredAreIds DEF Safe, TypeInv
<1>2. CASE \E u \in Members : task[u] = "lost"
  <2>1. Panic("comm") /\ "comm" \in Panics \ {"none"} /\ op \in {"rollback_stop", "stop"} \cup StatefulOps
    BY <1>2 DEF Panics, RunOps
  <2>2. Promise!LoseUnit
    BY <2>1, PanicPromise
  <2> QED
    BY <2>2 DEF Promise!LifecycleNext
<1>3. CASE ~\E u \in Members : task[u] = "lost"
  <2>1. /\ op' = "idle" /\ registered' = registered /\ panic' = panic /\ rollback' = {}
        /\ running' = (running /\ op # "stop") /\ mustTerminate' = mustTerminate
    BY <1>3 DEF Leave, registry
  <2>2. \A u \in registered : state'[u] = IF task[u] # "none" THEN "Stopped" ELSE state[u]
    BY <1>1, <1>3 DEF Members
  <2>3. CASE op = "stop"
    <3>1. \A u \in registered : state'[u] = "Stopped"
      BY <2>2, <2>3 DEF Safe, TaskInv
    <3>2. Seen' = IF Seen = {} THEN {} ELSE {"Stopped"}
      BY <2>1, <3>1, AllInOne DEF Before
    <3>3. Promise!StopOk
      BY <2>1, <2>3, <3>2 DEF Seen, Promise!StopOk, Promise!During, Promise!Finish, Promise!AllIn
    <3> QED
      BY <3>3 DEF Promise!LifecycleNext
  <2>4. CASE op = "rollback_stop"
    <3>1. ASSUME NEW u \in registered PROVE Before(u)' = Before(u)
      <4>1. CASE task[u] # "none"
        <5>1. u \in rollback
          BY <2>4, <4>1 DEF Safe, FlagInv
        <5>2. Before(u) = "Stopped"
          BY <2>4, <5>1 DEF Before
        <5>3. state'[u] = "Stopped"
          BY <2>2, <4>1
        <5> QED
          BY <2>1, <5>2, <5>3 DEF Before
      <4>2. CASE task[u] = "none"
        <5>1. u \notin rollback
          BY <2>4, <4>2 DEF RollbackInv
        <5>2. state'[u] = state[u]
          BY <2>2, <4>2
        <5> QED
          BY <2>1, <5>1, <5>2 DEF Before
      <4> QED
        BY <4>1, <4>2
    <3>2. Seen' = Seen
      BY <2>1, <3>1, SameSeen
    <3>3. running' = running
      BY <2>1, <2>4 DEF Safe, TypeInv, TypeOK
    <3>4. Promise!StartErr
      BY <2>1, <2>4, <3>2, <3>3 DEF Seen, Promise!StartErr, Promise!During
    <3> QED
      BY <3>4 DEF Promise!LifecycleNext
  <2>5. CASE op \in StatefulOps
    <3>1. op \notin {"rollback", "rollback_stop", "stop"} /\ op \in Promise!Stateful
      BY <2>5 DEF StatefulOps, Promise!Stateful
    <3>2. ASSUME NEW u \in registered PROVE Before(u)' = Before(u)
      <4>1. CASE task[u] # "none"
        <5>1. UnitInv(u) /\ task[u] \in {"ready"} \cup Outcome
          BY <4>1, JoinedTask
        <5>2. state[u] = Interim(op)
          BY <3>1, <5>1 DEF UnitInv, Rests, Settled, Moves, Promise!Stateful
        <5>3. state[u] \in {"Resetting", "Saving", "Restoring", "AdvancingTime"}
          BY <2>5, <5>2 DEF Interim, StatefulOps, StartOps
        <5>4. Before(u) = "Stopped"
          BY <3>1, <5>3 DEF Before
        <5>5. state'[u] = "Stopped"
          BY <2>2, <4>1
        <5> QED
          BY <2>1, <5>4, <5>5 DEF Before
      <4>2. CASE task[u] = "none"
        BY <2>1, <2>2, <3>1, <4>2 DEF Before
      <4> QED
        BY <4>1, <4>2
    <3>3. Seen' = Seen
      BY <2>1, <3>2, SameSeen
    <3>4. running' = running
      BY <2>1, <3>1 DEF Safe, TypeInv, TypeOK
    <3>5. Promise!StatefulDone(op)
      BY <2>1, <3>1, <3>3, <3>4 DEF Seen, Promise!StatefulDone, Promise!During, Promise!Finish
    <3> QED
      BY <3>1, <3>5 DEF Promise!LifecycleNext
  <2> QED
    BY <2>3, <2>4, <2>5 DEF RunOps
<1> QED
  BY <1>2, <1>3

LEMMA QuiesceFinishPromise ==
  ASSUME Safe, QuiesceFinish
  PROVE  Promise!QuiesceOk \/ Promise!QuiesceErr
<1> USE DEF QuiesceFinish
<1>1. registered \subseteq Ids /\ op = "quiesce" /\ panic = "none" /\ op' = "idle"
      /\ registered' = registered /\ panic' = panic /\ running' = (Failures # {})
  BY RegisteredAreIds DEF Safe, TypeInv, Leave, registry
<1>2. \A u \in registered : state'[u] = Settle(u, "Stopped", "Running")
  BY <1>1
<1>3. ASSUME NEW u \in registered
      PROVE  /\ u \in Failures <=> task[u] \in {"lost", "depfail"}
             /\ \/ task[u] = "ok" /\ Before(u)' = "Stopped"
                \/ task[u] = "depfail" /\ Before(u)' = "Running"
                \/ task[u] = "lost" /\ Before(u)' = "Uncertain"
  <2>1. \/ task[u] = "ok" /\ state'[u] = "Stopped"
        \/ task[u] = "depfail" /\ state'[u] = "Running"
        \/ task[u] = "lost" /\ state'[u] = "QuiesceUncertain"
    BY SMTT(20), <1>1, <1>2, Settling
  <2>2. u \in Failures <=> task[u] \in {"lost", "depfail"}
    BY <1>1, <2>1, Settling
  <2> QED
    BY <1>1, <2>1, <2>2 DEF Before
<1>4. CASE Failures = {}
  <2>1. Seen' = IF Seen = {} THEN {} ELSE {"Stopped"}
    BY <1>1, <1>3, <1>4, AllInOne
  <2>2. running' = FALSE /\ mustTerminate' = mustTerminate
    BY <1>1, <1>4 DEF Safe, TypeInv, TypeOK
  <2> QED
    BY <1>1, <2>1, <2>2
    DEF Seen, Promise!QuiesceOk, Promise!During, Promise!Finish, Promise!AllIn
<1>5. CASE Failures # {}
  <2>1. running' = TRUE
    BY <1>1, <1>5
  <2>2. \A u \in registered : Before(u)' \in {"Stopped", "Running", "Uncertain"}
    BY <1>3
  <2>3. Seen' \subseteq {"Stopped", "Running", "Uncertain"}
    BY <1>1, <2>2 DEF Seen
  <2>4. PICK u \in registered : u \in Failures
    BY <1>5 DEF Failures, Members
  <2>5. Before(u)' \in {"Running", "Uncertain"} /\ Before(u)' \in Seen'
    BY <1>1, <1>3, <2>4 DEF Seen
  <2>6. Seen' \cap {"Running", "Uncertain"} # {}
    BY <2>5
  <2>7. (\E v \in Failures : task[v] = "lost") <=> "Uncertain" \in Seen'
    <3>1. \A v \in Failures : v \in registered
      BY DEF Failures, Members
    <3>2. \A v \in registered : task[v] = "lost" <=> Before(v)' = "Uncertain"
      BY <1>3
    <3>3. \A v \in registered : task[v] = "lost" => v \in Failures
      BY <1>3
    <3>4. "Uncertain" \in Seen' <=> \E v \in registered : Before(v)' = "Uncertain"
      BY <1>1 DEF Seen
    <3> QED
      BY <3>1, <3>2, <3>3, <3>4
  <2>8. mustTerminate' = (mustTerminate \/ "Uncertain" \in Seen')
    BY <2>7
  <2> QED
    BY <1>1, <2>1, <2>3, <2>6, <2>8
    DEF Seen, Promise!QuiesceErr, Promise!During, Promise!Finish, Promise!Settled
<1> QED
  BY <1>4, <1>5

LEMMA ResumeFinishPromise ==
  ASSUME Safe, ResumeFinish
  PROVE  Promise!ResumeOk \/ Promise!ResumeErr
<1> USE DEF ResumeFinish
<1>1. registered \subseteq Ids /\ op = "resume" /\ op \in StartOps /\ panic = "none"
      /\ op' = "idle" /\ registered' = registered /\ panic' = panic /\ running' = (Failures = {})
  BY RegisteredAreIds DEF Safe, TypeInv, Leave, registry, StartOps
<1>2. \A u \in registered : state'[u] = Settle(u, "Running", "Stopped")
  BY <1>1
<1>3. CASE Failures = {}
  <2>1. \A u \in registered : state'[u] = "Running"
    BY SMTT(20), <1>1, <1>2, <1>3, Settling
  <2>2. Seen' = IF Seen = {} THEN {} ELSE {"Running"}
    BY <1>1, <2>1, AllInOne DEF Before
  <2>3. running' = TRUE /\ mustTerminate' = mustTerminate
    BY <1>1, <1>3 DEF Safe, TypeInv, TypeOK
  <2> QED
    BY <1>1, <2>2, <2>3
    DEF Seen, Promise!ResumeOk, Promise!During, Promise!Finish, Promise!AllIn
<1>4. CASE Failures # {}
  <2>1. running' = FALSE /\ mustTerminate' = TRUE
    BY <1>1, <1>4
  <2>2. \A u \in registered : Before(u)' \in {"Stopped", "Running", "Uncertain"}
    BY <1>1 DEF Before
  <2>3. Seen' \subseteq {"Stopped", "Running", "Uncertain"}
    BY <1>1, <2>2 DEF Seen
  <2> QED
    BY <1>1, <2>1, <2>3
    DEF Seen, Promise!ResumeErr, Promise!During, Promise!Finish, Promise!Settled
<1> QED
  BY <1>3, <1>4

-----------------------------------------------------------------------------
(* Steps inside an operation. *)

LEMMA RollbackPromise ==
  ASSUME Safe, RollbackBegin
  PROVE  Promise!LifecycleNext \/ UNCHANGED Promise!lifecycleVars
<1>1. op = "rollback" /\ panic = "none" /\ {"assert", "removed"} \subseteq Panics \ {"none"}
  BY DEF RollbackBegin, Panics
<1>2. ASSUME NEW why \in {"assert", "removed"}, Panic(why) PROVE Promise!LifecycleNext
  <2>1. Promise!LoseUnit
    BY <1>1, <1>2, PanicPromise
  <2> QED
    BY <2>1 DEF Promise!LifecycleNext
<1>3. ASSUME NEW movers, NEW settled, Enter("rollback_stop", movers, settled), movers \subseteq rollback
      PROVE  UNCHANGED Promise!lifecycleVars
  <2>1. /\ registered' = registered /\ rollback' = rollback /\ op' = "rollback_stop"
        /\ running' = running /\ mustTerminate' = mustTerminate /\ panic' = panic
    BY <1>3 DEF Enter, registry
  <2>2. ASSUME NEW u \in registered PROVE Before(u)' = Before(u)
    <3>1. CASE u \in rollback
      BY <1>1, <2>1, <3>1 DEF Before
    <3>2. CASE u \notin rollback
      <4>1. u \in Ids /\ u \notin movers
        BY <1>3, <3>2, RegisteredAreIds DEF Safe, TypeInv
      <4>2. state'[u] = state[u]
        BY <1>3, <4>1 DEF Enter
      <4> QED
        BY <2>1, <3>2, <4>2 DEF Before
    <3> QED
      BY <3>1, <3>2
  <2>3. Seen' = Seen
    BY <2>1, <2>2, SameSeen
  <2>4. Kind' = Kind
    BY <1>1, <2>1 DEF Kind
  <2> QED
    BY <2>1, <2>3, <2>4, Unseen
<1> QED
  BY <1>2, <1>3 DEF RollbackBegin, RunOpBegin

LEMMA InnerStep ==
  ASSUME UNCHANGED <<registered, state, running, op, rollback, mustTerminate, panic>>
  PROVE  UNCHANGED Promise!lifecycleVars
<1>1. Seen' = Seen
  BY SameSeen, SameBefore
<1> QED
  BY <1>1, Unseen DEF Kind

LEMMA NextPromise ==
  Safe /\ Safe' /\ RollbackInv /\ [Next]_vars => [Promise!LifecycleNext]_(Promise!lifecycleVars)
<1> SUFFICES ASSUME Safe, Safe', RollbackInv, [Next]_vars
             PROVE  Promise!LifecycleNext \/ UNCHANGED Promise!lifecycleVars
  OBVIOUS
<1>1. CASE Caller
  <2>1. ASSUME NEW on, NEW of, Build(on, of) PROVE Promise!LifecycleNext
    BY <2>1, BuildPromise DEF Promise!LifecycleNext
  <2>2. CASE Refused
    BY <2>2, InnerStep DEF Refused, vars, registry, callVars
  <2> QED
    BY <1>1, <2>1, <2>2, BeginPromise, StatefulPromise DEF Caller
<1>2. CASE Operation
  <2>1. ASSUME NEW v \in Ids, Skip(v) \/ Send(v) \/ DependencyFailed(v) \/ TimeOut(v)
        PROVE  UNCHANGED Promise!lifecycleVars
    <3>1. panic' # "overlap"
      BY DEF Safe, NoOverlappingTransitions
    <3> QED
      BY <2>1, <3>1, InnerStep
      DEF Skip, Send, DependencyFailed, TimeOut, SetTask, Panic, registry, callVars
  <2>2. CASE StartFinish
    BY <2>2, StartFinishPromise DEF Promise!LifecycleNext
  <2>3. CASE QuiesceFinish
    BY <2>3, QuiesceFinishPromise DEF Promise!LifecycleNext
  <2>4. CASE ResumeFinish
    BY <2>4, ResumeFinishPromise DEF Promise!LifecycleNext
  <2> QED
    BY <1>2, <2>1, <2>2, <2>3, <2>4, RollbackPromise, RunOpFinishPromise DEF Operation
<1>3. CASE Environment
  <2>1. ASSUME NEW v \in Ids, Handle(v) \/ Die(v) PROVE UNCHANGED Promise!lifecycleVars
    BY <2>1, InnerStep
    DEF Handle, HandleStart, HandleStop, HandleStateful, Answer, Die, registry, callVars
  <2>2. CASE Expire
    BY <2>2, InnerStep DEF Expire, registry
  <2>3. ASSUME NEW v \in Ids, Remove(v) PROVE Promise!LifecycleNext
    BY <2>3, RemovePromise DEF Promise!LifecycleNext
  <2> QED
    BY <1>3, <2>1, <2>2, <2>3 DEF Environment
<1>4. CASE Terminated \/ UNCHANGED vars
  BY <1>4, InnerStep DEF Terminated, vars, registry, callVars
<1> QED
  BY <1>1, <1>2, <1>3, <1>4 DEF Next

(* StateUnits implements Lifecycle, for any number of units, any           *)
(* dependency graph and any failures.                                      *)
THEOREM PromiseKept == Spec => KeepsPromise
<1>1. Init => RollbackInv
  BY DEF Init, RollbackInv
<1>2. Spec => []RollbackInv
  BY <1>1, RollbackKept, SafeHolds, PTL DEF Spec
<1> QED
  BY <1>2, InitPromise, NextPromise, SafeHolds, PTL DEF Spec, KeepsPromise, Promise!LifecycleSpec

=============================================================================
