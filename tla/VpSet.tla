------------------------------- MODULE VpSet --------------------------------
(***************************************************************************)
(* The virtual processors of a partition (vmm_core/src/partition_unit/     *)
(* vp_set.rs): the set the partition unit starts and stops, the runner     *)
(* loop each VP thread executes, and the halt latch that keeps every VP    *)
(* out of the guest once one of them, or a device, halted the VM.          *)
(*                                                                         *)
(* The partition unit talks to a VP over one FIFO channel.  A VP runner    *)
(* either waits for a start, or polls its channel, the halt latch and its  *)
(* canceller before it lets the processor into the guest again.  A write   *)
(* to the snapshot port leaves the processor in a deferred I/O, where it   *)
(* answers nothing before the write is completed.                          *)
(***************************************************************************)
EXTENDS Naturals, Sequences, FiniteSets

CONSTANTS
    VPs,         \* the instantiated virtual processors
    MaxHalts,    \* bound on the halts outstanding at any time
    CallsFail,   \* whether a state request to a VP may return an error
    SnapshotPort \* whether the VM has the microVM snapshot-request port

ASSUME VpAssumption ==
    /\ IsFiniteSet(VPs) /\ VPs # {}
    /\ MaxHalts \in Nat
    /\ CallsFail \in BOOLEAN /\ SnapshotPort \in BOOLEAN

VARIABLES
    (* VpSet *)
    started,    \* VpSet.started
    awaiting,   \* VPs whose reply the partition unit's current await needs
    callFailed, \* a state request of that await returned an error
    queue,      \* the VpEvents in each VP's channel
    closed,     \* the channels' senders were dropped
    (* RunnerInner and the locals of VpRunner::run_inner *)
    vpState,    \* VpState
    phase,      \* where the runner is
    stopping,   \* StopVpSource::is_stopping
    stopAck,    \* stop_complete is set
    held,       \* state_requests, if the partition unit still waits for one
    (* Halt *)
    haltCount,  \* HaltState.halt_count
    haltQueue,  \* the reasons sent to the partition unit
    (* the snapshot-request port *)
    writer,     \* at most one VP, whose write to the port is not done with
    io,         \* that write: "none", "pending", "released", "done", "failed"
    (* observations *)
    dirty,      \* a VP ran since its state was last scrubbed
    panic       \* an assertion of the code failed

setVars == <<started, awaiting, callFailed, queue, closed>>
vpVars == <<vpState, phase, stopping, stopAck, held>>
haltVars == <<haltCount, haltQueue>>
ioVars == <<writer, io>>
vpSetVars == <<setVars, vpVars, haltVars, ioVars, dirty, panic>>

(* "Unawaited" is a state request nobody waits for: an inspection, or a     *)
(* request whose caller gave up after another VP failed.                   *)
Events == {"Start", "Stop", "State", "Unawaited"}
VpStates == {"Stopped", "Running", "Halted"}
Reasons == {"Halt", "ReplayMtrrs"}

(***************************************************************************)
(* phase: "top" is the head of the loop and its wait for a start; "select" *)
(* polls the event sources; "guest" is inside the processor's run; "io"    *)
(* awaits the deferred write; "gone" is after the return.                  *)
(***************************************************************************)
VpTypeOK ==
    /\ started \in BOOLEAN /\ callFailed \in BOOLEAN /\ closed \in BOOLEAN
    /\ awaiting \subseteq VPs
    /\ queue \in [VPs -> Seq(Events)]
    /\ vpState \in [VPs -> VpStates]
    /\ phase \in [VPs -> {"top", "select", "guest", "io", "gone"}]
    /\ stopping \in [VPs -> BOOLEAN]
    /\ stopAck \in [VPs -> BOOLEAN]
    /\ held \in [VPs -> BOOLEAN]
    /\ haltCount \in 0 .. MaxHalts
    /\ haltQueue \in Seq(Reasons)
    /\ writer \subseteq VPs /\ Cardinality(writer) <= 1
    /\ io \in {"none", "pending", "released", "done", "failed"}
    /\ dirty \in BOOLEAN
    /\ panic \in BOOLEAN

VpInit ==
    /\ started = FALSE /\ callFailed = FALSE /\ closed = FALSE
    /\ awaiting = {}
    /\ queue = [v \in VPs |-> <<>>]
    /\ vpState = [v \in VPs |-> "Stopped"]
    /\ phase = [v \in VPs |-> "top"]
    /\ stopping = [v \in VPs |-> FALSE]
    /\ stopAck = [v \in VPs |-> FALSE]
    /\ held = [v \in VPs |-> FALSE]
    /\ haltCount = 0 /\ haltQueue = <<>>
    /\ writer = {} /\ io = "none"
    /\ dirty = FALSE
    /\ panic = FALSE

-----------------------------------------------------------------------------
(* What the partition unit does to the set. *)

Broadcast(event) == queue' = [v \in VPs |-> Append(queue[v], event)]

(* VpSet::start *)
Start ==
    IF started
    THEN UNCHANGED <<started, queue>>
    ELSE Broadcast("Start") /\ started' = TRUE

(* Variant: `started` is left set. *)
StopKeepsStarted ==
    IF started
    THEN Broadcast("Stop") /\ awaiting' = VPs /\ UNCHANGED started
    ELSE UNCHANGED <<started, queue, awaiting>>

(* VpSet::stop up to its await *)
Stop ==
    IF started
    THEN Broadcast("Stop") /\ started' = FALSE /\ awaiting' = VPs
    ELSE UNCHANGED <<started, queue, awaiting>>

(* A state request to the VPs of `targets`, up to the await of the replies. *)
Call(targets) ==
    /\ queue' = [v \in VPs |-> IF v \in targets THEN Append(queue[v], "State") ELSE queue[v]]
    /\ awaiting' = targets
    /\ callFailed' = FALSE

(* Halt::halt_internal *)
RaiseHalt(reason) ==
    /\ haltCount < MaxHalts
    /\ haltCount' = haltCount + 1
    /\ haltQueue' = Append(haltQueue, reason)

(* VpSet::clear_halt may be called only on stopped VPs, and HaltState has a  *)
(* halt to clear.                                                          *)
ClearHaltAsserts == ~started /\ haltCount > 0

-----------------------------------------------------------------------------
(* The runner of one VP: VpRunner::run_inner. *)

(* TryJoinAll returns at the first error: the other requests lose their    *)
(* caller but stay queued.                                                 *)
Abandon(queues) ==
    [v \in VPs |-> [i \in 1 .. Len(queues[v]) |->
        IF queues[v][i] = "State" THEN "Unawaited" ELSE queues[v][i]]]

(* Bound: a second failure waits until the requests the first one left     *)
(* behind are served, so that the channels stay short.                     *)
NoneAbandoned(queues) ==
    \A v \in VPs : \A i \in 1 .. Len(queues[v]) : queues[v][i] # "Unawaited"

(* The VP handled a state request that is waited for. *)
ReplyState(v, queues) ==
    \/ /\ awaiting' = awaiting \ {v}
       /\ held' = [held EXCEPT ![v] = FALSE]
       /\ queue' = queues
       /\ UNCHANGED callFailed
    \/ /\ CallsFail /\ NoneAbandoned(queues)
       /\ awaiting' = {} /\ callFailed' = TRUE
       /\ held' = [w \in VPs |-> FALSE]
       /\ queue' = Abandon(queues)

Popped(v) == [queue EXCEPT ![v] = Tail(@)]

Receives(v, event) == queue[v] # <<>> /\ Head(queue[v]) = event

(* The wait for a start. *)
Waiting(v) == phase[v] = "top" /\ vpState[v] # "Running"

WaitStart(v) ==
    /\ Waiting(v) /\ Receives(v, "Start")
    /\ panic' = (vpState[v] # "Stopped")
    /\ vpState' = [vpState EXCEPT ![v] = "Running"]
    /\ queue' = Popped(v)
    /\ UNCHANGED <<started, awaiting, callFailed, closed, phase, stopping, stopAck, held,
                   haltVars, ioVars, dirty>>

WaitStop(v) ==
    /\ Waiting(v) /\ Receives(v, "Stop")
    /\ panic' = (vpState[v] # "Halted")
    /\ vpState' = [vpState EXCEPT ![v] = "Stopped"]
    /\ queue' = Popped(v)
    /\ awaiting' = awaiting \ {v}
    /\ UNCHANGED <<started, callFailed, closed, phase, stopping, stopAck, held,
                   haltVars, ioVars, dirty>>

WaitState(v) ==
    /\ Waiting(v)
    /\ \/ Receives(v, "State") /\ ReplyState(v, Popped(v))
       \/ Receives(v, "Unawaited") /\ queue' = Popped(v) /\ UNCHANGED <<awaiting, callFailed, held>>
    /\ UNCHANGED <<started, closed, vpState, phase, stopping, stopAck, haltVars, ioVars, dirty, panic>>

(* The partition unit dropped its end of the channel. *)
WaitTeardown(v) ==
    /\ Waiting(v) /\ closed /\ queue[v] = <<>>
    /\ phase' = [phase EXCEPT ![v] = "gone"]
    /\ UNCHANGED <<setVars, vpState, stopping, stopAck, held, haltVars, ioVars, dirty, panic>>

(* Variant: a VP that finds the latch set stays Running and looks again. *)
EnterLoopSpinning(v) ==
    /\ phase[v] = "top" /\ vpState[v] = "Running"
    /\ IF haltCount # 0
       THEN UNCHANGED <<vpState, phase, stopping>>
       ELSE /\ phase' = [phase EXCEPT ![v] = "select"]
            /\ stopping' = [stopping EXCEPT ![v] = FALSE]
            /\ UNCHANGED vpState
    /\ UNCHANGED <<setVars, stopAck, held, haltVars, ioVars, dirty, panic>>

(* "If the VPs are already halted, wait for the next request without       *)
(* running the VP even once."                                              *)
EnterLoop(v) ==
    /\ phase[v] = "top" /\ vpState[v] = "Running"
    /\ IF haltCount # 0
       THEN vpState' = [vpState EXCEPT ![v] = "Halted"] /\ UNCHANGED <<phase, stopping>>
       ELSE /\ phase' = [phase EXCEPT ![v] = "select"]
            /\ stopping' = [stopping EXCEPT ![v] = FALSE]
            /\ UNCHANGED vpState
    /\ UNCHANGED <<setVars, stopAck, held, haltVars, ioVars, dirty, panic>>

(* The event sources are polled to exhaustion before the processor runs,   *)
(* and also while it waits for a deferred I/O.                             *)
Polling(v) == phase[v] \in {"select", "io"}

PollChannel(v) ==
    /\ Polling(v) /\ queue[v] # <<>>
    /\ panic' = (Head(queue[v]) = "Start")
    /\ queue' = Popped(v)
    /\ stopping' = [stopping EXCEPT ![v] = TRUE]
    /\ stopAck' = [stopAck EXCEPT ![v] = @ \/ Head(queue[v]) = "Stop"]
    /\ held' = [held EXCEPT ![v] = @ \/ Head(queue[v]) = "State"]
    /\ UNCHANGED <<started, awaiting, callFailed, closed, vpState, phase, haltVars, ioVars, dirty>>

(* The halt latch, or the end of the channel. *)
PollHalt(v) ==
    /\ Polling(v) /\ ~stopping[v]
    /\ haltCount # 0 \/ (closed /\ queue[v] = <<>>)
    /\ stopping' = [stopping EXCEPT ![v] = TRUE]
    /\ UNCHANGED <<setVars, vpState, phase, stopAck, held, haltVars, ioVars, dirty, panic>>

EnterGuest(v) ==
    /\ phase[v] = "select" /\ queue[v] = <<>> /\ ~stopping[v] /\ haltCount = 0 /\ ~closed
    /\ phase' = [phase EXCEPT ![v] = "guest"]
    /\ dirty' = TRUE
    /\ UNCHANGED <<setVars, vpState, stopping, stopAck, held, haltVars, ioVars, panic>>

(* The processor is woken out of the guest and polled again. *)
Yield(v) ==
    /\ phase[v] = "guest"
    /\ phase' = [phase EXCEPT ![v] = "select"]
    /\ UNCHANGED <<setVars, vpState, stopping, stopAck, held, haltVars, ioVars, dirty, panic>>

(* The end of the poll loop: the state requests, then the stop reply.  A   *)
(* runner that was cancelled is run again and is back at the top as well.  *)
LeaveLoop(v) ==
    /\ phase' = [phase EXCEPT ![v] = "top"]
    /\ stopAck' = [stopAck EXCEPT ![v] = FALSE]
    /\ vpState' = IF stopAck[v] THEN [vpState EXCEPT ![v] = "Stopped"] ELSE vpState
    /\ \/ held[v] /\ ReplyState(v, queue)
       \/ /\ ~held[v]
          /\ awaiting' = IF stopAck[v] THEN awaiting \ {v} ELSE awaiting
          /\ UNCHANGED <<queue, callFailed, held>>
    /\ UNCHANGED <<started, closed, stopping, ioVars, dirty, panic>>

VpStopped(v) ==
    /\ phase[v] = "select" /\ stopping[v]
    /\ LeaveLoop(v)
    /\ UNCHANGED haltVars

(* The processor halts the VM, for instance by a triple fault. *)
GuestHalts(v) ==
    /\ phase[v] = "guest"
    /\ RaiseHalt("Halt")
    /\ LeaveLoop(v)

(* The processor's access to a device halts the VM; the halt call returns  *)
(* to the processor, which is then polled like any other.                  *)
GuestIoHalts(v, reason) ==
    /\ phase[v] = "guest"
    /\ RaiseHalt(reason)
    /\ phase' = [phase EXCEPT ![v] = "select"]
    /\ UNCHANGED <<setVars, vpState, stopping, stopAck, held, ioVars, dirty, panic>>

(* The run is cancelled by the processor itself or through its canceller. *)
Cancelled(v) ==
    /\ phase[v] = "guest"
    /\ LeaveLoop(v)
    /\ UNCHANGED haltVars

(* A write to the snapshot port is deferred unless one is outstanding.     *)
SnapshotWrite(v) ==
    /\ SnapshotPort
    /\ phase[v] = "guest" /\ io = "none"
    /\ phase' = [phase EXCEPT ![v] = "io"]
    /\ writer' = {v} /\ io' = "pending"
    /\ UNCHANGED <<setVars, vpState, stopping, stopAck, held, haltVars, dirty, panic>>

(* The writing VP has its result and polls again. *)
Unblock == phase' = [v \in VPs |-> IF v \in writer /\ phase[v] = "io" THEN "select" ELSE phase[v]]

(* The device completes the released write, or goes away instead. *)
CompleteWrite ==
    /\ io = "released"
    /\ Unblock
    /\ io' \in {"done", "failed"}
    /\ UNCHANGED <<setVars, vpState, stopping, stopAck, held, haltVars, writer, dirty, panic>>

(* A device halts the VM on its own account: Halt::halt, Halt::replay_mtrrs. *)
DeviceHalts(reason) ==
    /\ RaiseHalt(reason)
    /\ UNCHANGED <<setVars, vpVars, ioVars, dirty, panic>>

(* What the runner owes the partition unit. *)
VpStep(v) ==
    \/ WaitStart(v) \/ WaitStop(v) \/ WaitState(v) \/ WaitTeardown(v)
    \/ EnterLoop(v) \/ PollChannel(v) \/ PollHalt(v) \/ Yield(v) \/ VpStopped(v)

(* What the guest may do. *)
GuestStep(v) == EnterGuest(v) \/ GuestHalts(v) \/ Cancelled(v) \/ SnapshotWrite(v)

=============================================================================
