----------------------------- MODULE Lifecycle ------------------------------
(***************************************************************************)
(* What the state units (crate vmm_core/state_unit) promise their caller,  *)
(* the VM worker: an operation moves every unit or says that it did not,   *)
(* and what it leaves behind limits what may be asked next.                *)
(*                                                                         *)
(* The abstract state is the set of states the registered units have       *)
(* between operations.  Inside an operation it is what the units had       *)
(* before it.  StateUnits implements this specification, see StateUnits.   *)
(***************************************************************************)
EXTENDS Naturals

VARIABLES
    present,       \* states some unit is in: Stopped, Running, Uncertain
    unitsRunning,  \* StateUnits.running
    op,            \* the operation in flight, or "idle"
    condemned,     \* the caller was told that the VM must be terminated
    crashed        \* an operation panicked

lifecycleVars == <<present, unitsRunning, op, condemned, crashed>>

Settled == {"Stopped", "Running", "Uncertain"}
Stateful == {"reset", "save", "restore", "advance_time"}
Operations == {"start", "stop", "quiesce", "resume"} \cup Stateful

LifecycleType ==
    /\ present \subseteq Settled
    /\ unitsRunning \in BOOLEAN
    /\ op \in Operations \cup {"idle"}
    /\ condemned \in BOOLEAN
    /\ crashed \in BOOLEAN

LifecycleInit ==
    /\ present = {}
    /\ unitsRunning = FALSE
    /\ op = "idle"
    /\ condemned = FALSE
    /\ crashed = FALSE

Free == op = "idle" /\ ~crashed
During(kind) == op = kind /\ ~crashed

-----------------------------------------------------------------------------
(* Units come and go. *)

AddUnit ==
    /\ Free
    /\ present' = present \cup {"Stopped"}
    /\ UNCHANGED <<unitsRunning, op, condemned, crashed>>

(* A handle is dropped, at any time. *)
DropUnits ==
    /\ ~crashed
    /\ present' \in SUBSET present
    /\ UNCHANGED <<unitsRunning, op, condemned, crashed>>

-----------------------------------------------------------------------------
(* Entering an operation.  One that asserts what its caller guarantees     *)
(* panics when it does not hold.                                           *)

EnterOp(kind) == op' = kind /\ UNCHANGED <<present, unitsRunning, condemned, crashed>>

Crash == crashed' = TRUE /\ UNCHANGED <<present, unitsRunning, op, condemned>>

EnterIf(allowed, kind) == IF allowed THEN EnterOp(kind) ELSE Crash

(* start, start_stopped_units *)
MayStart == "Uncertain" \notin present
BeginStart == Free /\ MayStart /\ EnterOp("start")

BeginStop == Free /\ EnterIf(unitsRunning /\ "Uncertain" \notin present, "stop")

BeginStateful(kind) ==
    Free /\ EnterIf(~unitsRunning /\ present \subseteq {"Stopped"}, kind)

BeginQuiesce == Free /\ EnterIf(unitsRunning /\ present \subseteq {"Running"}, "quiesce")

(* resume_after_failed_save refuses instead of panicking. *)
MayResume == ~unitsRunning /\ present \subseteq {"Stopped"}
BeginResume == Free /\ MayResume /\ EnterOp("resume")

-----------------------------------------------------------------------------
(* Leaving an operation. *)

AllIn(s) == IF present = {} THEN {} ELSE {s}

Finish(states, run) ==
    /\ op' = "idle"
    /\ present' = states
    /\ unitsRunning' = run
    /\ UNCHANGED crashed

StartOk ==
    During("start") /\ MayStart /\ Finish(AllIn("Running"), TRUE) /\ UNCHANGED condemned

(* A failed start makes units uncertain and leaves no unit running that    *)
(* was not running before: the started ones are stopped again, which is    *)
(* why the operation may go on.                                            *)
StartErr ==
    /\ During("start")
    /\ present' \in SUBSET (present \cup {"Uncertain"})
    /\ op' \in {"start", "idle"}
    /\ UNCHANGED <<unitsRunning, condemned, crashed>>

StopOk == During("stop") /\ Finish(AllIn("Stopped"), FALSE) /\ UNCHANGED condemned

(* The units stay stopped whether or not one of them returned an error. *)
StatefulDone(kind) ==
    During(kind) /\ Finish(present, unitsRunning) /\ UNCHANGED condemned

QuiesceOk == During("quiesce") /\ Finish(AllIn("Stopped"), FALSE) /\ UNCHANGED condemned

(* Some unit did not stop.  QuiesceForSaveError::has_uncertain_state tells *)
(* whether one is in an unknown state.                                     *)
QuiesceErr ==
    /\ During("quiesce")
    /\ \E states \in SUBSET Settled :
          /\ states \cap {"Running", "Uncertain"} # {}
          /\ Finish(states, TRUE)
          /\ condemned' = (condemned \/ "Uncertain" \in states)

ResumeOk == During("resume") /\ Finish(AllIn("Running"), TRUE) /\ UNCHANGED condemned

ResumeErr ==
    /\ During("resume")
    /\ \E states \in SUBSET Settled : Finish(states, FALSE)
    /\ condemned' = TRUE

(* A unit of an unbounded operation is gone.  The operations of a snapshot *)
(* report that instead.                                                    *)
LoseUnit == ~crashed /\ op \in {"start", "stop"} \cup Stateful /\ Crash

-----------------------------------------------------------------------------
LifecycleNext ==
    \/ AddUnit \/ DropUnits
    \/ BeginStart \/ BeginStop \/ BeginQuiesce \/ BeginResume
    \/ \E kind \in Stateful : BeginStateful(kind) \/ StatefulDone(kind)
    \/ StartOk \/ StartErr \/ StopOk \/ QuiesceOk \/ QuiesceErr
    \/ ResumeOk \/ ResumeErr \/ LoseUnit

LifecycleSpec == LifecycleInit /\ [][LifecycleNext]_lifecycleVars

=============================================================================
