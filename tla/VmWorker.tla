------------------------------ MODULE VmWorker ------------------------------
(***************************************************************************)
(* The VM worker (openvmm_core/src/worker/dispatch.rs and its microVM      *)
(* parts): one task that serves management RPCs, the guest's snapshot      *)
(* requests and the deadline of the restore gate, one at a time, by calls  *)
(* on the state units; and the guest's snapshot port.                      *)
(*                                                                         *)
(* A handler is a script: the awaits it still has to make, in order.  The  *)
(* head is the one the task is in; an error drops the rest, as `?` does.   *)
(* The state units are their abstract specification, Lifecycle, which      *)
(* StateUnits implements.                                                  *)
(***************************************************************************)
EXTENDS Lifecycle, Sequences

CONSTANTS
    Microvm,     \* machine profiles: TRUE for the microVM, FALSE for others
    Clients,     \* RPCs that management clients send
    MaxWrites,   \* bound on the guest's writes to the snapshot port
    MaxLag       \* bound on the input requests a slow unit leaves unhandled

VARIABLES
    microvm,       \* machine_profile is Microvm
    vmRunning,     \* LoadedVm.running
    boundary,      \* stop_guard, transaction_complete and input_gate_timeout are set
    gateTimeout,   \* snapshot_restore.gate_timeout is set
    gateDeadline,  \* snapshot_restore.gate_deadline is set
    inputGated,    \* snapshot_restore.input_gated
    startGuard,    \* snapshot_restore.start_guard holds the VPs
    readySink,     \* snapshot_restore.ready_sink is still to be written
    restartFailed, \* a failed worker restart could not start the units again
    worker,        \* "up", "ending" (left the loop) or "gone"
    serving,       \* the event in hand, or "none"
    steps,         \* its script
    wait,          \* the input request in hand: "no", "sent", "ok" or "err"
    input,         \* host input: "open", "gated" or "mixed"
    lag,           \* input requests a slow unit has not handled
    rpcs,          \* VmRpc channel
    client,        \* RPC a management client waits for, or "idle"
    reply,         \* answer to the controller's RPC, or "none"
    orders,        \* WorkerRpc channel
    notices,       \* SnapshotBoundary.ready messages to the controller
    written,       \* writes to the snapshot port so far
    pending,       \* the write the port holds, or 0
    write,         \* its release: "held", "let" (sent) or "released" (seen)
    completed,     \* its transaction is complete, but not yet reaped
    requests       \* boundary requests in the worker's channel

flagVars == <<microvm, vmRunning, boundary, gateTimeout, gateDeadline, inputGated,
              startGuard, readySink, restartFailed>>
taskVars == <<worker, serving, steps>>
inputVars == <<wait, input, lag>>
channelVars == <<rpcs, client, reply, orders, notices>>
portVars == <<written, pending, write, completed, requests>>
workerVars == <<lifecycleVars, flagVars, taskVars, inputVars, channelVars, portVars>>

ClientRpcs == {"Pause", "Resume", "Reset", "PulseSaveRestore", "AddDevice",
               "RemoveDevice", "ReadMemory"}
ControllerRpcs == {"QuiesceForSnapshot", "ResumeAfterFailedSnapshot",
                   "ReleaseSnapshotBoundary", "PowerReset", "PauseToSave", "Save"}
Steps == {"pause", "stop", "unassign", "start", "assign", "go", "attach", "ready",
          "gate", "ungate", "release", "vps", "quiesce", "resume", "reset", "save",
          "restore", "host", "serialize", "fail"}
ASSUME WorkerAssumption ==
    /\ Microvm \subseteq BOOLEAN /\ Clients \subseteq ClientRpcs
    /\ MaxWrites \in Nat /\ MaxLag \in Nat \ {0}

Replies == {"ok", "err", "Rejected", "RollbackSafe", "Uncertain"}

WorkerType ==
    /\ LifecycleType
    /\ {microvm, vmRunning, boundary, gateTimeout, gateDeadline, inputGated, startGuard,
        readySink, restartFailed, completed} \subseteq BOOLEAN
    /\ worker \in {"up", "ending", "gone"}
    /\ serving \in ClientRpcs \cup ControllerRpcs \cup {"none", "Boundary", "Restart"}
    /\ steps \in Seq(Steps)
    /\ wait \in {"no", "sent", "ok", "err"}
    /\ input \in {"open", "gated", "mixed"}
    /\ lag \in Seq({"quiesce", "resume"})
    /\ rpcs \in Seq(ClientRpcs \cup ControllerRpcs)
    /\ client \in ClientRpcs \cup {"idle"}
    /\ reply \in Replies \cup {"none"}
    /\ orders \in Seq({"Stop", "Restart"})
    /\ notices \in Nat
    /\ written \in 0 .. MaxWrites /\ pending \in 0 .. written
    /\ write \in {"held", "let", "released"}
    /\ requests \in Seq(1 .. MaxWrites)

(* A VM that was loaded, or restored from a snapshot with or without an    *)
(* input gate and a readiness sink.  Nothing has been started.             *)
WorkerInit ==
    /\ present = {"Stopped"} /\ unitsRunning = FALSE /\ op = "idle"
    /\ condemned = FALSE /\ crashed = FALSE
    /\ microvm \in Microvm /\ startGuard \in BOOLEAN
    /\ gateTimeout \in {FALSE, startGuard /\ microvm}
    /\ readySink \in {FALSE, startGuard}
    /\ vmRunning = FALSE /\ boundary = FALSE /\ gateDeadline = FALSE
    /\ inputGated = FALSE /\ restartFailed = FALSE
    /\ worker = "up" /\ serving = "none" /\ steps = <<>>
    /\ wait = "no" /\ input = "open" /\ lag = <<>>
    /\ rpcs = <<>> /\ client = "idle" /\ reply = "none" /\ orders = <<>> /\ notices = 0
    /\ written = 0 /\ pending = 0 /\ write = "held" /\ completed = FALSE
    /\ requests = <<>>

Alive == worker # "gone" /\ ~crashed
Listening == worker = "up" /\ serving = "none" /\ ~crashed
At(names) == Alive /\ steps # <<>> /\ Head(steps) \in names

-----------------------------------------------------------------------------
(* The guest and its snapshot port. *)

(* Some unit is started, or is being started. *)
UnitsActive == op \in {"start", "resume"} \/ "Running" \in present

(* VPs may execute: the partition unit was started and no guard holds them. *)
GuestRuns ==
    Alive /\ UnitsActive /\ ~boundary /\ ~startGuard /\ ~At({"assign", "unassign"})

(* Variant: a completed transaction is reaped only by the poll task. *)
Coalesced == pending # 0

(* MicrovmSnapshotRequest::io_write: a second write is coalesced, but the  *)
(* port is polled first.                                                   *)
Duplicate == pending # 0 /\ ~completed

GuestWrite ==
    /\ microvm /\ GuestRuns
    /\ written < MaxWrites
    /\ written' = written + 1
    /\ IF Duplicate
       THEN UNCHANGED <<pending, write, completed, requests>>
       ELSE /\ pending' = written + 1 /\ write' = "held" /\ completed' = FALSE
            /\ requests' = Append(requests, written + 1)
    /\ UNCHANGED <<lifecycleVars, flagVars, taskVars, inputVars, channelVars>>

(* poll_device, which a stopped device does not get *)
PortPoll ==
    /\ Alive /\ UnitsActive
    /\ pending # 0 /\ (write = "let" \/ completed)
    /\ pending' = IF completed THEN 0 ELSE pending
    /\ write' = IF completed THEN "held" ELSE "released"
    /\ completed' = FALSE
    /\ UNCHANGED <<lifecycleVars, flagVars, taskVars, inputVars, channelVars, written,
                   requests>>

(* ChangeDeviceState::stop and reset of the port: a write that was not     *)
(* released fails, and its request stays queued.                           *)
PortStop ==
    IF write = "released"
    THEN UNCHANGED portVars
    ELSE /\ pending' = 0 /\ write' = "held" /\ completed' = FALSE
         /\ UNCHANGED <<written, requests>>

-----------------------------------------------------------------------------
(* Host input producers. *)

(* A unit handles its input requests in order, however late, and may fail. *)
HandleInput ==
    /\ Alive /\ lag # <<>>
    /\ lag' = Tail(lag)
    /\ \E outcome \in {"ok", "err"} :
          /\ input' = IF outcome = "err" THEN "mixed"
                      ELSE IF Head(lag) = "quiesce" THEN "gated" ELSE "open"
          /\ wait' = IF wait = "sent" /\ Len(lag) = 1 THEN outcome ELSE wait
    /\ UNCHANGED <<lifecycleVars, flagVars, taskVars, channelVars, portVars>>

(* run_input_op, at its deadline: the waits are dropped, the requests stay. *)
InputTimeout ==
    /\ Alive /\ wait = "sent"
    /\ wait' = "err"
    /\ UNCHANGED <<lifecycleVars, flagVars, taskVars, channelVars, portVars, input, lag>>

(* quiesce_input_for_save, resume_input_after_save *)
SendInput ==
    /\ At({"gate", "ungate", "release"})
    /\ wait = "no" /\ Len(lag) < MaxLag
    /\ wait' = "sent"
    /\ lag' = Append(lag, IF Head(steps) = "gate" THEN "quiesce" ELSE "resume")
    /\ UNCHANGED <<lifecycleVars, flagVars, taskVars, channelVars, portVars, input>>

(* The await of an input request is over. *)
InputDone(result) == wait = result /\ wait' = "no" /\ UNCHANGED <<input, lag>>

-----------------------------------------------------------------------------
(* Scripts. *)

PauseSteps == IF vmRunning THEN <<"pause">> ELSE <<>>

(* LoadedVm::resume with start_state_units *)
StartSteps ==
    (IF gateTimeout THEN <<"gate">> ELSE <<>>)
        \o <<"start">> \o (IF readySink THEN <<"ready">> ELSE <<>>) \o <<"go">>

RestartSteps == IF vmRunning THEN StartSteps ELSE <<>>

(* LoadedVm::reset(true); a PCIe machine starts its units to assign        *)
(* resources, with the VPs held, and stops them again.                     *)
ResetSteps ==
    PauseSteps \o <<"reset">> \o (IF microvm THEN <<>> ELSE <<"assign", "unassign">>)
        \o <<"host">> \o RestartSteps

(* release_snapshot_boundary fails without a boundary. *)
ReleaseSteps == IF boundary THEN <<"release">> ELSE <<"fail">>

Script(m) ==
    CASE m \in {"Pause", "PauseToSave"} -> PauseSteps
      [] m = "Resume" -> IF vmRunning THEN <<>> ELSE StartSteps
      [] m \in {"Reset", "PowerReset"} -> ResetSteps
      [] m = "PulseSaveRestore" -> PauseSteps \o <<"save", "reset", "restore">> \o RestartSteps
      [] m = "Save" -> <<"save">>
      [] m = "AddDevice" -> (IF unitsRunning THEN <<"start">> ELSE <<>>) \o <<"attach">>
      [] m = "QuiesceForSnapshot" -> <<"quiesce", "host", "save", "host">>
      [] m = "ResumeAfterFailedSnapshot" -> <<"resume">> \o ReleaseSteps
      [] m = "ReleaseSnapshotBoundary" -> ReleaseSteps
      [] m = "Restart" -> (IF vmRunning THEN <<"stop">> ELSE <<>>) \o <<"save", "serialize">>
      [] OTHER -> <<>>

Advance == steps' = Tail(steps) /\ UNCHANGED <<worker, serving>>

(* Variant: a client is not answered. *)
ReturnQuietly(result) ==
    /\ steps' = <<>> /\ serving' = "none" /\ UNCHANGED worker
    /\ reply' = IF serving \in ControllerRpcs THEN result ELSE reply
    /\ UNCHANGED <<rpcs, client, orders, notices>>

(* The handler is over, and its event answered. *)
Return(result) ==
    /\ steps' = <<>> /\ serving' = "none" /\ UNCHANGED worker
    /\ reply' = IF serving \in ControllerRpcs THEN result ELSE reply
    /\ client' = IF serving \in ClientRpcs THEN "idle" ELSE client
    /\ UNCHANGED <<rpcs, orders, notices>>

Fail == Return(IF serving = "QuiesceForSnapshot" THEN "RollbackSafe" ELSE "err")

(* Variant: the VM is torn down as it is. *)
BreakUnpaused == worker' = "ending" /\ serving' = "none" /\ steps' = <<>>

(* The loop is left.  Its tail pauses the VM and tears it down. *)
Break == worker' = "ending" /\ serving' = "none" /\ steps' = PauseSteps

-----------------------------------------------------------------------------
(* The loop. *)

(* filter_vm_rpc; a microVM has no bus that devices can be added to *)
Filtered(m) ==
    \/ boundary /\ m \notin {"QuiesceForSnapshot", "ResumeAfterFailedSnapshot",
                             "ReleaseSnapshotBoundary", "ReadMemory"}
    \/ microvm /\ m \in {"Save", "PulseSaveRestore", "AddDevice", "RemoveDevice"}

(* With the first conditions of quiesce_for_snapshot. *)
Refusal(m) ==
    IF Filtered(m) THEN "err"
    ELSE IF m = "QuiesceForSnapshot" /\ ~(microvm /\ vmRunning) THEN "Rejected" ELSE "none"

(* Takes the next RPC.  A hot-added unit is built, and a removed one       *)
(* dropped, before the handler's first await on the units.                 *)
TakeRpc ==
    /\ Listening /\ rpcs # <<>>
    /\ rpcs' = Tail(rpcs)
    /\ LET m == Head(rpcs) IN
          IF Refusal(m) # "none"
          THEN /\ reply' = IF m \in ControllerRpcs THEN Refusal(m) ELSE reply
               /\ client' = IF m \in ClientRpcs THEN "idle" ELSE client
               /\ UNCHANGED <<serving, steps, lifecycleVars>>
          ELSE /\ serving' = m /\ steps' = Script(m)
               /\ CASE m = "AddDevice" -> AddUnit
                    [] m = "RemoveDevice" -> DropUnits
                    [] OTHER -> UNCHANGED lifecycleVars
               /\ UNCHANGED <<reply, client>>
    /\ UNCHANGED <<flagVars, inputVars, portVars, worker, orders, notices>>

(* The end of a handler. *)
Complete ==
    /\ Alive /\ serving # "none" /\ steps = <<>>
    /\ Return("ok")
    /\ UNCHANGED <<lifecycleVars, flagVars, inputVars, portVars>>

(* WorkerRpc::Stop, and WorkerRpc::Restart, which is refused without       *)
(* shared memory.                                                          *)
TakeOrder ==
    /\ Listening /\ orders # <<>>
    /\ orders' = Tail(orders)
    /\ \/ Head(orders) = "Stop" /\ Break
       \/ /\ Head(orders) = "Restart"
          /\ serving' = "Restart" /\ steps' = Script("Restart") /\ UNCHANGED worker
       \/ Head(orders) = "Restart" /\ UNCHANGED taskVars
    /\ UNCHANGED <<lifecycleVars, flagVars, inputVars, portVars, rpcs, client, reply, notices>>

(* RestoreEvent::GateExpired *)
GateExpires ==
    /\ Listening /\ gateDeadline
    /\ Break
    /\ UNCHANGED <<lifecycleVars, flagVars, inputVars, channelVars, portVars>>

(* Variant: a request is served although its write was dropped. *)
EverLive(request) == TRUE

(* filter_boundary_request: its release channel is still open. *)
IsLive(request) == pending = request

(* SnapshotBoundaryEvent, up to the first await of                         *)
(* establish_snapshot_boundary.  A request at a boundary is released.      *)
TakeRequest ==
    /\ Listening /\ requests # <<>>
    /\ requests' = Tail(requests)
    /\ IF IsLive(Head(requests)) /\ ~boundary
       THEN /\ serving' = "Boundary"
            /\ steps' = IF inputGated THEN <<"vps">> ELSE <<"gate", "vps">>
            /\ UNCHANGED <<write, completed>>
       ELSE /\ IF IsLive(Head(requests))
               THEN write' = "let" /\ completed' = TRUE
               ELSE UNCHANGED <<write, completed>>
            /\ UNCHANGED <<serving, steps>>
    /\ UNCHANGED <<lifecycleVars, flagVars, inputVars, channelVars, worker, written, pending>>

(* After the pause, the partition is torn down.  Queued RPCs are lost. *)
Teardown ==
    /\ worker = "ending" /\ ~crashed /\ steps = <<>>
    /\ worker' = "gone" /\ client' = "idle"
    /\ UNCHANGED <<lifecycleVars, flagVars, inputVars, portVars, serving, steps, rpcs, reply,
                   orders, notices>>

-----------------------------------------------------------------------------
(* Steps that await the state units. *)

BeginStep ==
    /\ \/ At({"pause", "stop", "unassign"}) /\ BeginStop
       \/ At({"start", "assign"}) /\ BeginStart
       \/ At({"quiesce"}) /\ BeginQuiesce
       \/ At({"resume"}) /\ BeginResume
       \/ At({"reset", "save", "restore"}) /\ BeginStateful(Head(steps))
    /\ UNCHANGED <<flagVars, taskVars, inputVars, channelVars, portVars>>

(* The units refuse to start, or to resume. *)
RefuseStep ==
    /\ Free
    /\ \/ At({"start", "assign"}) /\ ~MayStart
       \/ At({"resume"}) /\ ~MayResume
    /\ Fail
    /\ UNCHANGED <<lifecycleVars, flagVars, inputVars, portVars>>

(* Variant: the flag is not cleared after the stop. *)
StoppedFlagKept ==
    /\ lag = <<>> /\ StopOk
    /\ UNCHANGED <<vmRunning, restartFailed>>
    /\ Advance /\ UNCHANGED channelVars

(* LoadedVm::pause clears the flag; the stop of a restart, of the PCI      *)
(* assignment and of a failed readiness event leaves it.                   *)
Stopped ==
    /\ lag = <<>> /\ StopOk
    /\ vmRunning' = IF At({"pause"}) THEN FALSE ELSE vmRunning
    /\ UNCHANGED restartFailed
    /\ Advance /\ UNCHANGED channelVars

(* The assignment can fail after the units were stopped again. *)
Unassigned ==
    /\ At({"unassign"}) /\ lag = <<>> /\ StopOk
    /\ UNCHANGED <<vmRunning, restartFailed>>
    /\ Fail

Started ==
    /\ lag = <<>> /\ StartOk
    /\ UNCHANGED <<vmRunning, restartFailed>>
    /\ Advance /\ UNCHANGED channelVars

(* A restart that failed cannot start the units again: the loop goes on. *)
StartFailed ==
    /\ lag = <<>> /\ StartErr /\ op' = "idle"
    /\ restartFailed' = (restartFailed \/ serving = "Restart")
    /\ UNCHANGED vmRunning
    /\ Fail

Quiesced ==
    /\ lag = <<>> /\ QuiesceOk
    /\ vmRunning' = FALSE /\ UNCHANGED restartFailed
    /\ Advance /\ UNCHANGED channelVars

QuiesceFailed ==
    /\ QuiesceErr
    /\ UNCHANGED <<vmRunning, restartFailed>>
    /\ Return(IF "Uncertain" \in present' THEN "Uncertain" ELSE "RollbackSafe")

Resumed ==
    /\ lag = <<>> /\ ResumeOk
    /\ vmRunning' = TRUE /\ UNCHANGED restartFailed
    /\ Advance /\ UNCHANGED channelVars

ResumeFailed == ResumeErr /\ UNCHANGED <<vmRunning, restartFailed>> /\ Fail

(* reset, save and restore; a restart whose save failed starts the units   *)
(* again if it had stopped them.                                           *)
StatefulOk ==
    /\ lag = <<>> /\ \E kind \in Stateful : StatefulDone(kind)
    /\ UNCHANGED <<vmRunning, restartFailed>>
    /\ Advance /\ UNCHANGED channelVars

StatefulFailed ==
    /\ lag = <<>> /\ \E kind \in Stateful : StatefulDone(kind)
    /\ UNCHANGED <<vmRunning, restartFailed>>
    /\ IF serving = "Restart" /\ vmRunning
       THEN /\ steps' = <<"start", "fail">>
            /\ UNCHANGED <<worker, serving, channelVars>>
       ELSE Fail

(* The units answer.  The port is one of them: it was stopped if none is   *)
(* left running, a start that was rolled back included.                    *)
EndStep ==
    /\ Alive
    /\ \/ Stopped \/ Unassigned \/ Started \/ StartFailed \/ Quiesced \/ QuiesceFailed
       \/ Resumed \/ ResumeFailed \/ StatefulOk \/ StatefulFailed
    /\ IF "Running" \in present' THEN UNCHANGED portVars ELSE PortStop
    /\ UNCHANGED <<microvm, boundary, gateTimeout, gateDeadline, inputGated, startGuard,
                   readySink, inputVars>>

(* A unit is lost: its panic aborts the process. *)
UnitLost ==
    /\ Alive /\ LoseUnit
    /\ UNCHANGED <<flagVars, taskVars, inputVars, channelVars, portVars>>

-----------------------------------------------------------------------------
(* Steps that await host input. *)

(* Host input is gated: before a boundary, or before a restored VM starts. *)
Gated ==
    /\ At({"gate"})
    /\ InputDone("ok")
    /\ inputGated' = (inputGated \/ serving # "Boundary")
    /\ Advance
    /\ UNCHANGED <<lifecycleVars, microvm, vmRunning, boundary, gateTimeout, gateDeadline,
                   startGuard, readySink, restartFailed, channelVars, portVars>>

(* Variant: a boundary is established although the gate failed. *)
GateFailedIgnored ==
    /\ At({"gate"})
    /\ InputDone("err")
    /\ IF serving = "Boundary" THEN Advance /\ UNCHANGED channelVars ELSE Fail
    /\ UNCHANGED <<lifecycleVars, flagVars, portVars>>

GateFailed ==
    /\ At({"gate"})
    /\ InputDone("err")
    /\ IF serving = "Boundary"
       THEN steps' = <<"ungate">> /\ UNCHANGED <<worker, serving, channelVars>>
       ELSE Fail
    /\ UNCHANGED <<lifecycleVars, flagVars, portVars>>

(* Variant: returns without answering the request. *)
UngatedUnreleased ==
    /\ At({"ungate"})
    /\ InputDone("ok")
    /\ Return("ok")
    /\ UNCHANGED <<lifecycleVars, flagVars, portVars>>

(* The failed gate was rolled back: the guest continues. *)
Ungated ==
    /\ At({"ungate"})
    /\ InputDone("ok")
    /\ write' = "let" /\ completed' = TRUE
    /\ Return("ok")
    /\ UNCHANGED <<lifecycleVars, flagVars, written, pending, requests>>

(* The VM must end.  A release channel that is dropped releases the write. *)
UngateFailed ==
    /\ At({"ungate"})
    /\ InputDone("err")
    /\ write' = "let" /\ completed' = TRUE
    /\ Break
    /\ UNCHANGED <<lifecycleVars, flagVars, channelVars, written, pending, requests>>

(* release_snapshot_boundary *)
Released ==
    /\ At({"release"})
    /\ InputDone("ok")
    /\ boundary' = FALSE /\ completed' = TRUE
    /\ gateTimeout' = FALSE /\ gateDeadline' = FALSE /\ inputGated' = FALSE
    /\ Advance
    /\ UNCHANGED <<lifecycleVars, microvm, vmRunning, startGuard, readySink, restartFailed,
                   channelVars, written, pending, write, requests>>

ReleaseFailed ==
    /\ At({"release"})
    /\ InputDone("err")
    /\ Fail
    /\ UNCHANGED <<lifecycleVars, flagVars, portVars>>

-----------------------------------------------------------------------------
(* Other steps. *)

(* temporarily_stop_vps_at_io_boundary: the write is released with the VPs *)
(* stopped behind it, and the controller is told.  Nothing bounds the      *)
(* await, so no fairness is assumed of it (Unbounded of GuestSnapshot).    *)
AtBoundary ==
    /\ At({"vps"})
    /\ boundary' = TRUE /\ write' = "released" /\ notices' = notices + 1
    /\ steps' = <<>> /\ serving' = "none"
    /\ UNCHANGED <<lifecycleVars, microvm, vmRunning, gateTimeout, gateDeadline, inputGated,
                   startGuard, readySink, restartFailed, worker, inputVars, rpcs, client, reply,
                   orders, written, pending, completed, requests>>

BoundaryFailed ==
    /\ At({"vps"})
    /\ write' = "let" /\ completed' = TRUE
    /\ Break
    /\ UNCHANGED <<lifecycleVars, flagVars, inputVars, channelVars, written, pending, requests>>

(* The readiness event is written, once; a failed write stops the units. *)
Ready ==
    /\ At({"ready"})
    /\ readySink' = FALSE
    /\ \/ Advance
       \/ steps' = <<"stop", "fail">> /\ UNCHANGED <<worker, serving>>
    /\ UNCHANGED <<lifecycleVars, microvm, vmRunning, boundary, gateTimeout, gateDeadline,
                   inputGated, startGuard, restartFailed, inputVars, channelVars, portVars>>

(* Variant: the restored VPs are released without arming the deadline. *)
GoUnarmed ==
    /\ At({"go"})
    /\ startGuard' = FALSE /\ vmRunning' = TRUE
    /\ Advance
    /\ UNCHANGED <<lifecycleVars, microvm, boundary, gateTimeout, gateDeadline, inputGated,
                   readySink, restartFailed, inputVars, channelVars, portVars>>

(* The end of start_state_units and of resume *)
Go ==
    /\ At({"go"})
    /\ gateDeadline' = (gateDeadline \/ gateTimeout)
    /\ startGuard' = FALSE /\ vmRunning' = TRUE
    /\ Advance
    /\ UNCHANGED <<lifecycleVars, microvm, boundary, gateTimeout, inputGated, readySink,
                   restartFailed, inputVars, channelVars, portVars>>

(* load_firmware; the records of the time ABI; the flush of guest RAM.  A  *)
(* hot-added device is attached to its port, or removed again.             *)
HostStep ==
    /\ At({"host", "attach"})
    /\ \/ Advance /\ UNCHANGED <<lifecycleVars, channelVars>>
       \/ /\ Fail
          /\ IF Head(steps) = "attach" THEN DropUnits ELSE UNCHANGED lifecycleVars
    /\ UNCHANGED <<flagVars, inputVars, portVars>>

FailStep ==
    /\ At({"fail"})
    /\ Fail
    /\ UNCHANGED <<lifecycleVars, flagVars, inputVars, portVars>>

(* serialize ends in a todo!(). *)
Serialize ==
    /\ At({"serialize"})
    /\ Crash
    /\ UNCHANGED <<flagVars, taskVars, inputVars, channelVars, portVars>>

StepWorker ==
    \/ BeginStep \/ RefuseStep \/ EndStep
    \/ SendInput \/ Gated \/ GateFailed \/ Ungated \/ UngateFailed
    \/ Released \/ ReleaseFailed
    \/ AtBoundary \/ BoundaryFailed \/ Ready \/ Go \/ HostStep \/ FailStep \/ Serialize
    \/ Complete \/ Teardown

TakeEvent == TakeRpc \/ TakeOrder \/ TakeRequest \/ GateExpires

-----------------------------------------------------------------------------
(* A management client sends an RPC and waits for its answer. *)
SendRpc(m) ==
    /\ Alive /\ client = "idle"
    /\ client' = m /\ rpcs' = Append(rpcs, m)
    /\ UNCHANGED <<lifecycleVars, flagVars, taskVars, inputVars, portVars, reply, orders, notices>>

(* handle_restart of the controller; filter_worker_rpc refuses it for a    *)
(* microVM.                                                                *)
SendRestart ==
    /\ Alive /\ ~microvm /\ orders = <<>> /\ serving # "Restart"
    /\ orders' = <<"Restart">>
    /\ UNCHANGED <<lifecycleVars, flagVars, taskVars, inputVars, portVars, rpcs, client, reply,
                   notices>>

WorkerNext ==
    \/ StepWorker \/ TakeEvent \/ UnitLost
    \/ GuestWrite \/ PortPoll \/ HandleInput \/ InputTimeout
    \/ SendRestart \/ \E m \in Clients : SendRpc(m)

=============================================================================
