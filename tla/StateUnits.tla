----------------------------- MODULE StateUnits -----------------------------
(***************************************************************************)
(* The state-unit registry of a VM (crate vmm_core/state_unit) and the     *)
(* operations that move every unit through its lifecycle: start with       *)
(* rollback, stop, reset, save, restore, advance_time, the bounded quiesce *)
(* of a snapshot and the resume after a failed one.                        *)
(*                                                                         *)
(* An operation spawns one task per unit.  A task waits for the tasks of   *)
(* the units it must follow, sends its unit one request, and records the   *)
(* answer; when every task is done the operation reacquires the lock and   *)
(* moves the registry.  Units answer concurrently, may fail, may die, may  *)
(* be removed while the operation is in flight, and may answer late.       *)
(*                                                                         *)
(* A unit is named by its id; ids are never reused, so the name table      *)
(* (NameInUse, UnknownUnit) only adds operations that change nothing.      *)
(***************************************************************************)
EXTENDS Naturals, FiniteSets

CONSTANTS
    MaxUnits,   \* bound on the units ever built
    Flaky,      \* units whose requests may return an error
    Mortal,     \* units whose task may die, dropping its request channel
    Slow,       \* units that need not answer; if any, a bounded wait may expire
    Removable,  \* units whose handle may be dropped at any time
    TimeAware   \* units built with advances_time()

Ids == 1 .. MaxUnits

ASSUME UnitsAssumption ==
    /\ MaxUnits \in Nat
    /\ Flaky \subseteq Ids /\ Mortal \subseteq Ids /\ Slow \subseteq Ids
    /\ Removable \subseteq Ids /\ TimeAware \subseteq Ids

VARIABLES
    registered,    \* ids in Inner.units
    nextId,        \* Inner.next_id
    dependencies,  \* Unit.dependencies; stale ids stay
    dependents,    \* Unit.dependents; stale ids stay
    state,         \* Unit.state
    running,       \* StateUnits.running
    op,            \* the operation in flight, or "idle"
    task,          \* per unit, the progress of its future in that operation
    rollback,      \* started_ids, between a failed start and its rollback
    expired,       \* the deadline of the operation's CancelContext passed
    pending,       \* the transition request in the unit's channel
    device,        \* what the unit is really doing
    alive,         \* the unit's task still holds its receiver
    mustTerminate, \* the caller was told the VM cannot be resumed
    panic          \* why the VM process panicked, or "none"

registry == <<registered, nextId, dependencies, dependents>>
unitVars == <<pending, device, alive>>
callVars == <<running, op, rollback, expired, mustTerminate, panic>>
vars == <<registry, unitVars, callVars, state, task>>

State == {"Stopped", "Starting", "Running", "Stopping", "Resetting", "Saving",
          "Restoring", "AdvancingTime", "QuiesceUncertain"}

StatefulOps == {"reset", "save", "restore", "advance_time"}
RunOps == {"stop", "rollback_stop"} \cup StatefulOps
StartOps == {"start", "resume"}
Ops == RunOps \cup StartOps \cup {"quiesce", "rollback"}
Requests == {"start", "stop"} \cup StatefulOps

(***************************************************************************)
(* task: "none" (not in the ready set), "ready" (already in the new        *)
(* state), "waiting" (for the units it must follow), "sent", then the      *)
(* outcome: "ok", "err" (the unit answered with an error), "lost" (no      *)
(* answer: channel closed or deadline passed), "depfail", "skip" (no input *)
(* for this unit).                                                         *)
(***************************************************************************)
Outcome == {"ok", "err", "lost", "depfail", "skip"}
Task == {"none", "ready", "waiting", "sent"} \cup Outcome
Panics == {"none", "assert", "comm", "removed", "overlap"}

TypeOK ==
    /\ nextId \in 1 .. MaxUnits + 1
    /\ registered \subseteq 1 .. nextId - 1
    /\ dependencies \in [Ids -> SUBSET Ids]
    /\ dependents \in [Ids -> SUBSET Ids]
    /\ state \in [Ids -> State]
    /\ running \in BOOLEAN
    /\ op \in Ops \cup {"idle"}
    /\ task \in [Ids -> Task]
    /\ rollback \subseteq Ids
    /\ expired \in BOOLEAN
    /\ pending \in [Ids -> Requests \cup {"none"}]
    /\ device \in [Ids -> {"stopped", "running", "failed"}]
    /\ alive \in [Ids -> BOOLEAN]
    /\ mustTerminate \in BOOLEAN
    /\ panic \in Panics

Init ==
    /\ registered = {}
    /\ nextId = 1
    /\ dependencies = [u \in Ids |-> {}]
    /\ dependents = [u \in Ids |-> {}]
    /\ state = [u \in Ids |-> "Stopped"]
    /\ running = FALSE
    /\ op = "idle"
    /\ task = [u \in Ids |-> "none"]
    /\ rollback = {}
    /\ expired = FALSE
    /\ pending = [u \in Ids |-> "none"]
    /\ device = [u \in Ids |-> "stopped"]
    /\ alive = [u \in Ids |-> FALSE]
    /\ mustTerminate = FALSE
    /\ panic = "none"

-----------------------------------------------------------------------------
(* Operations take &mut self, so they never overlap. *)

Idle == op = "idle" /\ panic = "none"

-----------------------------------------------------------------------------
(* The registry. *)

(* Dependencies never form a cycle: some numbering increases along them.   *)
(* The registry does not check this; its callers build no cycle.           *)
Acyclic(deps) ==
    \E rank \in [Ids -> Ids] : \A u \in Ids : \A d \in deps[u] : rank[d] < rank[u]

Link(edges, id, from, to) ==
    [u \in Ids |-> IF u = id THEN from ELSE IF u \in to THEN edges[u] \cup {id} ELSE edges[u]]

(* UnitBuilder::build: `on` holds the depends_on handles, `of` the         *)
(* dependency_of handles.                                                  *)
Build(on, of) ==
    /\ Idle
    /\ nextId \in Ids
    /\ Acyclic(Link(dependencies, nextId, on, of))
    /\ registered' = registered \cup {nextId}
    /\ nextId' = nextId + 1
    /\ dependencies' = Link(dependencies, nextId, on, of)
    /\ dependents' = Link(dependents, nextId, of, on)
    /\ state' = [state EXCEPT ![nextId] = "Stopped"]
    /\ alive' = [alive EXCEPT ![nextId] = TRUE]
    /\ UNCHANGED <<callVars, task, pending, device>>

(* UnitHandle::remove_if, from the handle's drop.  It only takes the lock, *)
(* so it can run between any two steps of an operation.                    *)
Remove(u) ==
    /\ panic = "none"
    /\ u \in registered \cap Removable
    /\ registered' = registered \ {u}
    /\ UNCHANGED <<nextId, dependencies, dependents, unitVars, callVars, state, task>>

-----------------------------------------------------------------------------
(* Ordering: the ready set.  ReadySet::wait goes through the list in id    *)
(* order and gives up at the first unit that failed; ids outside the set   *)
(* are not waited for.                                                     *)

Follows(u) ==
    CASE op \in StartOps \cup {"reset", "restore", "advance_time"} -> dependencies[u]
      [] op \in {"stop", "rollback_stop", "quiesce"} -> dependents[u]
      [] OTHER -> {}

(* Variant: every task signals success, as in run_op. *)
SignalledSuccess(u, success) == task[u] \in {"ready"} \cup Outcome /\ success

(* A task of run_op signals success whatever its outcome. *)
Signalled(u, success) ==
    CASE task[u] \in {"ready", "ok", "skip"} -> success
      [] task[u] \in {"err", "lost"} -> (op \in RunOps) = success
      [] task[u] = "depfail" -> ~success
      [] OTHER -> FALSE

Awaited(u) == {d \in Follows(u) : task[d] # "none"}

WaitSucceeds(u) == \A d \in Awaited(u) : Signalled(d, TRUE)

WaitFails(u) ==
    \E d \in Awaited(u) :
        /\ Signalled(d, FALSE)
        /\ \A e \in Awaited(u) : e < d => Signalled(e, TRUE)

Request ==
    CASE op \in StartOps -> "start"
      [] op \in {"stop", "rollback_stop", "quiesce"} -> "stop"
      [] OTHER -> op

Interim(kind) ==
    CASE kind \in StartOps -> "Starting"
      [] kind \in {"stop", "rollback_stop", "quiesce"} -> "Stopping"
      [] kind = "reset" -> "Resetting"
      [] kind = "save" -> "Saving"
      [] kind = "restore" -> "Restoring"
      [] kind = "advance_time" -> "AdvancingTime"

(* Enters an operation: the units of `movers` get a task and their interim *)
(* state, those of `settled` are in the new state already.                 *)
Enter(kind, movers, settled) ==
    /\ op' = kind
    /\ task' = [u \in Ids |-> IF u \in movers THEN "waiting"
                              ELSE IF u \in settled THEN "ready" ELSE "none"]
    /\ state' = [u \in Ids |-> IF u \in movers THEN Interim(kind) ELSE state[u]]
    /\ expired' = FALSE
    /\ UNCHANGED <<registry, unitVars, running, rollback, mustTerminate, panic>>

In(states) == {u \in registered : state[u] \in states}

Panic(why) ==
    /\ panic' = why
    /\ UNCHANGED <<registry, unitVars, state, task, running, op, rollback, expired, mustTerminate>>

-----------------------------------------------------------------------------
(* Starting an operation. *)

(* start_with_rollback, up to join_all: refuses a unit in any other state. *)
StartBegin ==
    /\ Idle
    /\ registered = In({"Stopped", "Running"})
    /\ Enter("start", In({"Stopped"}), In({"Running"}))

(* start_with_rollback and resume_after_failed_save return an error, and   *)
(* change nothing, when a unit is in a state they cannot move.             *)
Refused ==
    /\ Idle
    /\ registered # In({"Stopped", "Running"}) \/ running \/ registered # In({"Stopped"})
    /\ UNCHANGED vars

(* Variant: moves the units whatever their state. *)
RunOpBeginUnchecked(kind, ids, old, new) == Enter(kind, ids, {})

(* run_op, up to join_all: a unit must be in the old or the new state. *)
RunOpBegin(kind, ids, old, new) ==
    IF In({old, new}) \cap ids = ids
    THEN Enter(kind, In({old}) \cap ids, In({new} \ {old}) \cap ids)
    ELSE Panic("assert")

StopBegin ==
    /\ Idle
    /\ running
    /\ RunOpBegin("stop", registered, "Running", "Stopped")

(* reset, save, restore and advance_time *)
StatefulBegin(kind) ==
    /\ Idle
    /\ ~running
    /\ RunOpBegin(kind, registered, "Stopped", "Stopped")

(* quiesce_for_save, up to join_all: asserts that every unit is running *)
QuiesceBegin ==
    /\ Idle
    /\ running
    /\ IF registered = In({"Running"})
       THEN Enter("quiesce", registered, {})
       ELSE Panic("assert")

(* resume_after_failed_save, up to join_all *)
ResumeBegin ==
    /\ Idle
    /\ ~running
    /\ registered = In({"Stopped"})
    /\ Enter("resume", registered, {})

-----------------------------------------------------------------------------
(* The tasks of an operation. *)

SetTask(u, outcome) ==
    /\ task' = [task EXCEPT ![u] = outcome]
    /\ UNCHANGED <<registry, state, callVars, device, alive>>

(* run_op skips a unit its input closure has nothing for: a unit that is   *)
(* not time aware, or one the restored state does not name.                *)
MaySkip(u) == op = "restore" \/ (op = "advance_time" /\ u \notin TimeAware)
MustSkip(u) == op = "advance_time" /\ u \notin TimeAware

Skip(u) ==
    /\ panic = "none"
    /\ task[u] = "waiting" /\ WaitSucceeds(u)
    /\ MaySkip(u)
    /\ SetTask(u, "skip") /\ UNCHANGED pending

(* A task proceeds: run_op whatever the wait returned, the others only if  *)
(* every unit they follow succeeded.  A closed channel fails the call.     *)
Send(u) ==
    /\ panic = "none"
    /\ task[u] = "waiting" /\ WaitSucceeds(u)
    /\ ~MustSkip(u)
    /\ \/ /\ ~alive[u]
          /\ SetTask(u, "lost") /\ UNCHANGED pending
       \/ /\ alive[u] /\ pending[u] = "none"
          /\ SetTask(u, "sent")
          /\ pending' = [pending EXCEPT ![u] = Request]
       \/ /\ alive[u] /\ pending[u] # "none"
          /\ Panic("overlap")

DependencyFailed(u) ==
    /\ panic = "none"
    /\ task[u] = "waiting" /\ WaitFails(u)
    /\ SetTask(u, "depfail") /\ UNCHANGED pending

(* Variant: the resume after a failed save has no deadline. *)
ExpireQuiesce ==
    /\ panic = "none"
    /\ Slow # {}
    /\ op = "quiesce" /\ ~expired
    /\ expired' = TRUE
    /\ UNCHANGED <<registry, unitVars, state, task, running, op, rollback, mustTerminate, panic>>

(* The deadline shared by the tasks of a bounded operation. *)
Expire ==
    /\ panic = "none"
    /\ Slow # {}
    /\ op \in {"quiesce", "resume"} /\ ~expired
    /\ expired' = TRUE
    /\ UNCHANGED <<registry, unitVars, state, task, running, op, rollback, mustTerminate, panic>>

(* until_cancelled: no answer yet and the deadline passed.  The request    *)
(* stays in the unit's channel.                                            *)
TimeOut(u) ==
    /\ panic = "none"
    /\ expired /\ task[u] = "sent"
    /\ SetTask(u, "lost") /\ UNCHANGED pending

-----------------------------------------------------------------------------
(* The units. *)

(* StateRequest::apply.  The answer reaches the task if it still waits.    *)
Answer(u, answer) ==
    /\ pending' = [pending EXCEPT ![u] = "none"]
    /\ task' = IF task[u] = "sent" THEN [task EXCEPT ![u] = answer] ELSE task
    /\ UNCHANGED <<registry, state, callVars, alive>>

HandleStart(u) ==
    /\ pending[u] = "start"
    /\ \/ device' = [device EXCEPT ![u] = "running"] /\ Answer(u, "ok")
       \/ /\ u \in Flaky
          /\ device' = [device EXCEPT ![u] = "failed"] /\ Answer(u, "err")

HandleStop(u) ==
    /\ pending[u] = "stop"
    /\ device' = [device EXCEPT ![u] = "stopped"]
    /\ Answer(u, "ok")

HandleStateful(u) ==
    /\ pending[u] \in StatefulOps
    /\ \E answer \in IF u \in Flaky THEN {"ok", "err"} ELSE {"ok"} : Answer(u, answer)
    /\ UNCHANGED device

Handle(u) == panic = "none" /\ (HandleStart(u) \/ HandleStop(u) \/ HandleStateful(u))

(* The unit's task ends without answering: its receiver is dropped. *)
Die(u) ==
    /\ panic = "none"
    /\ u \in Mortal /\ alive[u]
    /\ alive' = [alive EXCEPT ![u] = FALSE]
    /\ device' = [device EXCEPT ![u] = "stopped"]
    /\ pending' = [pending EXCEPT ![u] = "none"]
    /\ task' = IF task[u] = "sent" THEN [task EXCEPT ![u] = "lost"] ELSE task
    /\ UNCHANGED <<registry, state, callVars>>

-----------------------------------------------------------------------------
(* Finishing an operation, under the lock again. *)

Joined == \A u \in Ids : task[u] \notin {"waiting", "sent"}

Leave(kind) ==
    /\ op' = kind
    /\ task' = [u \in Ids |-> "none"]
    /\ UNCHANGED <<registry, unitVars, expired, panic>>

(* The members of the ready set that are still registered. *)
Members == {u \in registered : task[u] # "none"}

Failures == {u \in Members : task[u] \in {"err", "lost", "depfail"}}

(* Variant: an unanswered request counts as not sent. *)
SettleLostAsUndone(u, done, undone) ==
    IF u \notin Members THEN state[u]
    ELSE CASE task[u] \in {"ready", "ok"} -> done
           [] task[u] \in {"depfail", "lost"} -> undone
           [] OTHER -> "QuiesceUncertain"

(* What the fallible operations make of an outcome. *)
Settle(u, done, undone) ==
    IF u \notin Members THEN state[u]
    ELSE CASE task[u] \in {"ready", "ok"} -> done
           [] task[u] = "depfail" -> undone
           [] OTHER -> "QuiesceUncertain"

(* Variant: a failed start leaves the started units alone. *)
StartFinishNoRollback ==
    /\ panic = "none" /\ op = "start" /\ Joined
    /\ state' = [u \in Ids |-> Settle(u, "Running", "Stopped")]
    /\ Leave("idle")
    /\ running' = (running \/ Failures = {})
    /\ UNCHANGED <<rollback, mustTerminate>>

(* start_with_rollback, after join_all *)
StartFinish ==
    /\ panic = "none" /\ op = "start" /\ Joined
    /\ state' = [u \in Ids |-> Settle(u, "Running", "Stopped")]
    /\ LET started == {u \in Members : task[u] = "ok"}
       IN IF Failures = {}
          THEN Leave("idle") /\ running' = TRUE /\ UNCHANGED rollback
          ELSE /\ Leave(IF started = {} THEN "idle" ELSE "rollback")
               /\ rollback' = started
               /\ UNCHANGED running
    /\ UNCHANGED mustTerminate

(* The rollback's run_op takes the lock anew and indexes every started id. *)
RollbackBegin ==
    /\ panic = "none" /\ op = "rollback"
    /\ IF rollback \subseteq registered
       THEN RunOpBegin("rollback_stop", rollback, "Running", "Stopped")
       ELSE Panic("removed")

(* Variant: a unit without input stays in the interim state. *)
RunOpFinishUnskipped ==
    /\ panic = "none" /\ op \in RunOps /\ Joined
    /\ IF \E u \in Members : task[u] = "lost"
       THEN Panic("comm")
       ELSE /\ Leave("idle")
            /\ state' = [u \in Ids |-> IF u \in Members /\ task[u] # "skip"
                                       THEN "Stopped" ELSE state[u]]
            /\ running' = (running /\ op # "stop")
            /\ rollback' = {}
            /\ UNCHANGED mustTerminate

(* run_op, after join_all: a unit that gave no answer is fatal unless it   *)
(* was removed meanwhile.                                                  *)
RunOpFinish ==
    /\ panic = "none" /\ op \in RunOps /\ Joined
    /\ IF \E u \in Members : task[u] = "lost"
       THEN Panic("comm")
       ELSE /\ Leave("idle")
            /\ state' = [u \in Ids |-> IF u \in Members THEN "Stopped" ELSE state[u]]
            /\ running' = (running /\ op # "stop")
            /\ rollback' = {}
            /\ UNCHANGED mustTerminate

(* quiesce_for_save, after join_all; QuiesceForSaveError::has_uncertain_state *)
QuiesceFinish ==
    /\ panic = "none" /\ op = "quiesce" /\ Joined
    /\ Leave("idle")
    /\ state' = [u \in Ids |-> Settle(u, "Stopped", "Running")]
    /\ running' = (Failures # {})
    /\ mustTerminate' = (mustTerminate \/ \E u \in Failures : task[u] = "lost")
    /\ UNCHANGED rollback

(* resume_after_failed_save, after join_all *)
ResumeFinish ==
    /\ panic = "none" /\ op = "resume" /\ Joined
    /\ Leave("idle")
    /\ state' = [u \in Ids |-> Settle(u, "Running", "Stopped")]
    /\ running' = (Failures = {})
    /\ mustTerminate' = (mustTerminate \/ Failures # {})
    /\ UNCHANGED rollback

(* The VM process is gone. *)
Terminated == panic # "none" /\ UNCHANGED vars

Caller ==
    \/ \E on \in SUBSET registered : \E of \in SUBSET registered : Build(on, of)
    \/ StartBegin \/ StopBegin \/ QuiesceBegin \/ ResumeBegin \/ Refused
    \/ \E kind \in StatefulOps : StatefulBegin(kind)

Operation ==
    \/ \E u \in Ids : Skip(u) \/ Send(u) \/ DependencyFailed(u) \/ TimeOut(u)
    \/ StartFinish \/ RollbackBegin \/ RunOpFinish \/ QuiesceFinish \/ ResumeFinish

Environment == Expire \/ \E u \in Ids : Handle(u) \/ Die(u) \/ Remove(u)

Next == Caller \/ Operation \/ Environment \/ Terminated

Spec == Init /\ [][Next]_vars

(* The executor polls every ready task, and a unit that lives and is not   *)
(* slow answers what it was sent; a deadline passes.                       *)
Fairness ==
    /\ WF_vars(Operation)
    /\ WF_vars(Expire)
    /\ \A u \in Ids \ Slow : WF_vars(Handle(u))

FairSpec == Spec /\ Fairness

-----------------------------------------------------------------------------
(* Properties. *)

(* A unit asked to start has every registered, live dependency already     *)
(* running: start_with_rollback and resume_after_failed_save order the     *)
(* starts along `dependencies` and give up on the dependents of a failure. *)
StartAfterDependencies ==
    \A u \in registered : op \in StartOps /\ task[u] = "sent" =>
        \A d \in dependencies[u] \cap registered : alive[d] => device[d] = "running"

(* A unit asked to stop has no dependent still running: stop and           *)
(* quiesce_for_save go along `dependents`, and a quiesce stops no unit     *)
(* whose dependent did not confirm.  The rollback of a start orders only   *)
(* the units it started, since a hot-added unit may serve a running one.   *)
StopAfterDependents ==
    \A d \in registered : pending[d] = "stop" =>
        \A u \in dependents[d] \cap registered :
            device[u] = "running" => op = "rollback_stop" /\ task[u] = "none"

(* Concurrent transitions keep the order of the dependencies: whatever is  *)
(* asked to start or to stop, at whatever moment its neighbours fail, die, *)
(* are removed or are given up on (ready_set, Ready::wait).                *)
TransitionsInOrder == StartAfterDependencies /\ StopAfterDependents

(* Between operations the registry tells the truth about every unit it     *)
(* does not mark uncertain: Running units run, Stopped ones do not, and    *)
(* neither has a request in its channel that it may still act on.          *)
RecordedStateIsReal ==
    op = "idle" /\ panic = "none" =>
        \A u \in registered : state[u] # "QuiesceUncertain" =>
            /\ state[u] \in {"Running", "Stopped"}
            /\ pending[u] = "none"
            /\ alive[u] => (state[u] = "Running") = (device[u] = "running")

(* After an operation that does not condemn the VM, `running = false`      *)
(* means that nothing runs: a failed start is rolled back completely, and  *)
(* a VM reported as stopped can be saved, reset or dropped.                *)
NotRunningMeansQuiet ==
    op = "idle" /\ panic = "none" /\ ~running /\ ~mustTerminate =>
        \A u \in registered : device[u] # "running"

(* What the registry records, unit by unit and in its `running` flag, is   *)
(* true of the units after every operation, also after one that failed     *)
(* half way or gave up at its deadline.                                    *)
RecordsAreReal == RecordedStateIsReal /\ NotRunningMeansQuiet

(* "Must only be called while stopped" (StateUnit::reset, save, restore):  *)
(* no such request waits in the channel of a unit that runs.               *)
StatefulOnlyWhenStopped ==
    \A u \in registered : pending[u] \in StatefulOps => device[u] = "stopped"

(* A unit never receives a transition while an earlier one is unanswered,  *)
(* the contract that apply_with_concurrent_inspects enforces by panicking: *)
(* a request abandoned at a deadline marks its unit, and no later          *)
(* operation sends that unit anything.                                     *)
NoOverlappingTransitions == panic # "overlap"

(* A unit is only sent what it can take: one lifecycle transition at a     *)
(* time, and no save, reset or restore while it runs.  The input requests  *)
(* of run_input_op use the same channel and are not part of this module:   *)
(* VmWorker has them, for all units together (lag).                        *)
RequestsFit == NoOverlappingTransitions /\ StatefulOnlyWhenStopped

(* The state assertions of run_op and quiesce_for_save can only fire in a  *)
(* VM whose caller was told to terminate it, or that has a unit whose      *)
(* start failed, or one that was built (or rolled back) while others ran.  *)
AssertsOnlyOnBrokenUnits ==
    panic = "assert" =>
        \/ mustTerminate
        \/ \E u \in registered : state[u] = "QuiesceUncertain"
        \/ running /\ \E u \in registered : state[u] = "Stopped"

(* A unit left in the terminal state by a failed or unanswered transition  *)
(* never leaves it again: no later operation takes it for a stopped or a   *)
(* running one.                                                            *)
TerminalStateIsFinal ==
    [][\A u \in registered \cap registered' :
          state[u] = "QuiesceUncertain" => state'[u] = "QuiesceUncertain"]_vars

(* Every operation ends, or waits on a unit that does not answer:          *)
(* dependencies have no cycle, and every task signals its followers        *)
(* whether it succeeded or failed.  The bounded operations of a snapshot   *)
(* (quiesce_for_save, resume_after_failed_save) end even then.             *)
OperationsEnd ==
    op # "idle" ~>
        \/ op = "idle" \/ panic # "none"
        \/ op \notin {"quiesce", "resume"} /\ \E u \in Slow : task[u] = "sent"

(* What the caller sees of a unit: between operations its state, within    *)
(* one the state it had before, and until a failed start is rolled back    *)
(* Stopped for a unit that start brought up.                               *)
Before(u) ==
    IF op \in {"rollback", "rollback_stop"} /\ u \in rollback THEN "Stopped"
    ELSE CASE state[u] \in {"Running", "Stopping"} -> "Running"
           [] state[u] = "QuiesceUncertain" -> "Uncertain"
           [] OTHER -> "Stopped"

Promise == INSTANCE Lifecycle WITH
    present <- {Before(u) : u \in registered},
    unitsRunning <- running,
    op <- IF op \in {"rollback", "rollback_stop"} THEN "start" ELSE op,
    condemned <- mustTerminate,
    crashed <- panic # "none"

(* The registry, its tasks and its units implement what the VM worker      *)
(* relies on: an operation that reports success moved every unit, a failed *)
(* start leaves nothing running that did not run before, and only an       *)
(* operation of a snapshot can leave units in several states.              *)
KeepsPromise == Promise!LifecycleSpec

(* "If the unit was removed during the operation, then ignore the failure" *)
(* (lib.rs, run_op): dropping a unit's handle while an operation is in     *)
(* flight does not panic the operation.                                    *)
RemovalIsTolerated == panic # "removed"

=============================================================================
