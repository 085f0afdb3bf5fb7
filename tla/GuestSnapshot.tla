--------------------------- MODULE GuestSnapshot ----------------------------
(***************************************************************************)
(* A guest asks for a snapshot of itself: the VM worker, the controller    *)
(* (openvmm_entry/src/vm_controller.rs and vm_controller/microvm.rs) that  *)
(* decides what becomes of the source, the publication of the snapshot and *)
(* the processes that restore it, over crashes of the process and of the   *)
(* host.                                                                   *)
(***************************************************************************)
EXTENDS VmWorker, SnapshotStore

CONSTANT MaxCrashes   \* bound on the crashes of the host

ASSUME CrashAssumption == MaxCrashes \in Nat

VARIABLES
    controller,  \* what the controller does or waits for
    exitCode,    \* of ExitRequested, or "none"
    crashes      \* crashes of the host so far

controllerVars == <<controller, exitCode, crashes>>
vars == <<workerVars, storeVars, controllerVars>>

Waiting == {"release", "quiesce", "rollback", "reset", "pausing", "saving"}

ControllerType ==
    /\ controller \in Waiting \cup {"idle", "publish", "exit", "done"}
    /\ exitCode \in {"none", "zero", "one"}
    /\ crashes \in 0 .. MaxCrashes

Init ==
    /\ WorkerInit /\ StoreInit
    /\ controller = "idle" /\ exitCode = "none" /\ crashes = 0

-----------------------------------------------------------------------------
(* The controller.  It waits for the answer of one RPC at a time. *)

OnlyController == UNCHANGED <<lifecycleVars, flagVars, taskVars, inputVars, portVars>>

Call(m, state) ==
    /\ controller' = state
    /\ rpcs' = Append(rpcs, m) /\ reply' = "none"
    /\ UNCHANGED <<client, orders, exitCode, crashes>>

Ask(m, state) == Call(m, state) /\ UNCHANGED notices
Stay == UNCHANGED <<channelVars, exitCode, crashes>>
Continue == controller' = "idle" /\ reply' = "none"
            /\ UNCHANGED <<rpcs, client, orders, notices, exitCode, crashes>>
Terminate(code) == controller' = "exit" /\ exitCode' = code /\ UNCHANGED <<channelVars, crashes>>

(* The call is over: answered, or lost with the worker. *)
Answered(state) == controller = state /\ (reply # "none" \/ ~Alive)
Result == IF reply = "none" THEN "lost" ELSE reply

(* Event::SnapshotRequest: the preflight of handle_guest_snapshot_request  *)
(* ends in the release of the boundary or goes on with the quiesce.        *)
TakeNotice ==
    /\ controller = "idle" /\ notices > 0
    /\ notices' = notices - 1
    /\ \/ Call("ReleaseSnapshotBoundary", "release")
       \/ place # "dest" /\ Call("QuiesceForSnapshot", "quiesce")
    /\ OnlyController /\ UNCHANGED storeVars

(* Variant: a boundary that could not be released is left alone. *)
GuestContinuesAnyway ==
    /\ Answered("release") \/ Answered("rollback")
    /\ Continue
    /\ OnlyController /\ UNCHANGED storeVars

(* release_snapshot_boundary_without_capture and                           *)
(* rollback_failed_guest_snapshot *)
GuestContinues ==
    /\ Answered("release") \/ Answered("rollback")
    /\ IF Result = "ok" THEN Continue ELSE Terminate("one")
    /\ OnlyController /\ UNCHANGED storeVars

(* Variant: an uncertain quiesce is rolled back like any other. *)
QuiesceAnsweredLoosely ==
    /\ Answered("quiesce")
    /\ CASE Result = "ok" -> controller' = "publish" /\ Stay
         [] Result \in {"Rejected", "Uncertain"} -> Ask("ReleaseSnapshotBoundary", "release")
         [] Result = "RollbackSafe" -> Ask("ResumeAfterFailedSnapshot", "rollback")
         [] OTHER -> Terminate("one")
    /\ OnlyController /\ UNCHANGED storeVars

QuiesceAnswered ==
    /\ Answered("quiesce")
    /\ CASE Result = "ok" -> controller' = "publish" /\ Stay
         [] Result = "Rejected" -> Ask("ReleaseSnapshotBoundary", "release")
         [] Result = "RollbackSafe" -> Ask("ResumeAfterFailedSnapshot", "rollback")
         [] OTHER -> Terminate("one")
    /\ OnlyController /\ UNCHANGED storeVars

(* The contract, the manifest, the flush of the RAM handle; then the       *)
(* publication begins.                                                     *)
PreparePublication ==
    /\ controller = "publish" /\ publishing = "no" /\ outcome = "none"
    /\ \/ /\ \E own, paired \in BOOLEAN : BeginPublication(own, paired)
          /\ UNCHANGED controller /\ Stay
       \/ Ask("ResumeAfterFailedSnapshot", "rollback") /\ UNCHANGED storeVars
    /\ OnlyController

PublishStep ==
    /\ controller = "publish" /\ Publish
    /\ UNCHANGED <<workerVars, controllerVars>>

(* What becomes of the source.  The removal of its console sockets can     *)
(* fail after the commit.                                                  *)
PublicationOver ==
    /\ controller = "publish" /\ outcome # "none"
    /\ \/ outcome = "ok" /\ \E code \in {"zero", "one"} : Terminate(code)
       \/ outcome \in {"CleanupUncertain", "Committed"} /\ Terminate("one")
       \/ outcome = "BeforeCommit"
          /\ Ask("ResumeAfterFailedSnapshot", "rollback")
    /\ outcome' = "none"
    /\ OnlyController
    /\ UNCHANGED <<directoryVars, restoreVars, plan, publishing, owned, marked, alias>>

(* Event::Halt with the action Reset *)
PowerEvent ==
    /\ controller = "idle" /\ GuestRuns
    /\ Ask("PowerReset", "reset")
    /\ OnlyController /\ UNCHANGED storeVars

(* handle_save_snapshot: Pause and Save, which are two RPCs *)
SaveSnapshot ==
    /\ controller = "idle" /\ ~microvm /\ Alive
    /\ Ask("PauseToSave", "pausing")
    /\ OnlyController /\ UNCHANGED storeVars

CallAnswered ==
    /\ \/ Answered("pausing") /\ Result = "ok" /\ Ask("Save", "saving")
       \/ Answered("pausing") /\ Result # "ok" /\ Continue
       \/ (Answered("saving") \/ Answered("reset")) /\ Continue
    /\ OnlyController /\ UNCHANGED storeVars

(* The REPL or the ttrpc server quits. *)
Quit ==
    /\ controller = "idle" /\ worker = "up" /\ orders = <<>>
    /\ orders' = <<"Stop">>
    /\ UNCHANGED <<controllerVars, rpcs, client, reply, notices, storeVars>>
    /\ OnlyController

(* ExitRequested is sent and the worker told to stop, or it has stopped by *)
(* itself.                                                                 *)
Leave ==
    /\ controller = "exit" \/ (controller = "idle" /\ ~Alive)
    /\ controller' = "done"
    /\ orders' = Append(orders, "Stop")
    /\ UNCHANGED <<rpcs, client, reply, notices, exitCode, crashes, storeVars>>
    /\ OnlyController

StepController ==
    \/ GuestContinues \/ QuiesceAnswered \/ PreparePublication \/ PublishStep
    \/ PublicationOver \/ CallAnswered \/ Leave

-----------------------------------------------------------------------------
(* Faults. *)

(* A process takes its memory with it. *)
ProcessGone ==
    /\ worker' = "gone" /\ crashed' = TRUE /\ serving' = "none" /\ steps' = <<>>
    /\ present' = {} /\ unitsRunning' = FALSE /\ op' = "idle" /\ condemned' = FALSE
    /\ vmRunning' = FALSE /\ boundary' = FALSE /\ inputGated' = FALSE
    /\ gateTimeout' = FALSE /\ gateDeadline' = FALSE /\ startGuard' = FALSE
    /\ readySink' = FALSE /\ restartFailed' = FALSE
    /\ wait' = "no" /\ input' = "open" /\ lag' = <<>>
    /\ rpcs' = <<>> /\ client' = "idle" /\ reply' = "none" /\ orders' = <<>> /\ notices' = 0
    /\ pending' = 0 /\ write' = "held" /\ completed' = FALSE /\ requests' = <<>>
    /\ controller' = "done"
    /\ UNCHANGED <<microvm, written, exitCode>>

(* The process of the source is killed, or exits on a guest power event. *)
SourceDies == Alive /\ ProcessGone /\ PublisherDies /\ UNCHANGED crashes

Crashes ==
    /\ crashes < MaxCrashes
    /\ crashes' = crashes + 1
    /\ ProcessGone /\ HostCrash

-----------------------------------------------------------------------------
Next ==
    \/ WorkerNext /\ UNCHANGED <<storeVars, controllerVars>>
    \/ StepController \/ TakeNotice \/ PowerEvent \/ SaveSnapshot \/ Quit
    \/ \E r \in Restorers : Restore(r) /\ UNCHANGED <<workerVars, controllerVars>>
    \/ SourceDies \/ Crashes

Spec == Init /\ [][Next]_vars

(* The worker awaits an answer that no deadline bounds: the partition      *)
(* unit's, to temporarily_stop_vps_at_io_boundary, or that of every unit,  *)
(* to an operation other than the two of a snapshot.  A unit can owe it    *)
(* forever (StopsEnd of PartitionUnit).                                    *)
Unbounded == At({"vps"}) \/ op \in {"start", "stop"} \cup Stateful

(* The executor polls a task that can go on, deadlines pass, and units     *)
(* handle input requests.  The loops race their sources fairly, so that    *)
(* none is starved.  The guest, the clients, the faults and the answers    *)
(* that nothing bounds are under no fairness.                              *)
Fairness ==
    /\ WF_vars(((StepWorker /\ ~Unbounded) \/ HandleInput \/ PortPoll)
                   /\ UNCHANGED <<storeVars, controllerVars>>)
    /\ SF_vars(TakeRpc /\ UNCHANGED <<storeVars, controllerVars>>)
    /\ SF_vars(TakeOrder /\ UNCHANGED <<storeVars, controllerVars>>)
    /\ SF_vars(TakeRequest /\ UNCHANGED <<storeVars, controllerVars>>)
    /\ WF_vars(StepController)
    /\ SF_vars(TakeNotice)

FairSpec == Spec /\ Fairness

-----------------------------------------------------------------------------
(* Properties. *)

TypeOK == WorkerType /\ StoreType /\ ControllerType

(* While RAM of the source is shared with a snapshot, and from the commit  *)
(* on, no unit of a living source runs or moves, and its VPs are held: the *)
(* rollback of rollback_failed_guest_snapshot is not tried then, and       *)
(* filter_vm_rpc keeps every client from starting it.                      *)
SourceQuietWhileShared ==
    Alive /\ (alias \/ place = "dest") => boundary /\ op = "idle" /\ present = {"Stopped"}

(* A snapshot is saved and published only at a boundary with all host      *)
(* input gated, however late earlier input requests were handled           *)
(* (establish_snapshot_boundary, run_input_op).                            *)
CaptureIsGated ==
    Alive /\ (serving = "QuiesceForSnapshot" \/ publishing # "no")
        => boundary /\ input = "gated" /\ lag = <<>>

(* Exactly the controller that was told of a boundary answers for it: no   *)
(* boundary is without a notice or a call in progress, and no notice       *)
(* outlives its boundary (SnapshotBoundary.ready).                         *)
BoundaryIsOwned ==
    Alive /\ worker = "up" =>
        /\ notices <= 1 /\ (notices = 1 => boundary)
        /\ boundary => notices = 1
                       \/ controller \in {"release", "quiesce", "publish", "rollback", "exit", "done"}

(* A boundary is established only for a running VM and a write that the    *)
(* guest still waits for; a stop or reset cancels what was queued          *)
(* (filter_boundary_request).                                              *)
BoundaryOnlyForLiveWrite ==
    Alive /\ serving = "Boundary" => vmRunning /\ unitsRunning /\ pending # 0 /\ write = "held"

(* A boundary begins with a write of the guest and stays somebody's to end. *)
BoundaryIsSound == BoundaryOnlyForLiveWrite /\ BoundaryIsOwned

(* A write to the snapshot port is covered by a transaction that is still  *)
(* to be served, also when an earlier one was completed but not yet reaped *)
(* (io_write).                                                             *)
EveryWriteIsServed ==
    [][written' # written =>
          /\ pending' # 0 /\ ~completed'
          /\ \/ \E i \in DOMAIN requests' : requests'[i] = pending'
             \/ serving = "Boundary" \/ boundary]_vars

(* Between two events LoadedVm.running is StateUnits.running, except after *)
(* a worker restart that could not start the units again.                  *)
FlagsFollowUnits == Listening /\ vmRunning # unitsRunning => restartFailed

(* The state units' asserts on their caller fail only after a unit was     *)
(* left uncertain, after a failed restart, in the unfinished serialize, or *)
(* when a client resumes the VM between the Pause and the Save of          *)
(* handle_save_snapshot.                                                   *)
AssertsNeedFailure ==
    crashed /\ worker # "gone" /\ op = "idle" =>
        "Uncertain" \in present \/ restartFailed \/ serving \in {"Restart", "Save"}

(* The worker knows its units well enough never to ask for a transition    *)
(* they cannot make, short of the failures named.                          *)
WorkerKnowsUnits == FlagsFollowUnits /\ AssertsNeedFailure

(* The worker is torn down with no unit running, unless a failed rollback  *)
(* left some: the pause after the loop goes by LoadedVm.running.           *)
TeardownQuiet == worker = "gone" /\ ~crashed => "Running" \notin present \/ condemned

(* Until a restored guest acknowledged the restore it executes only with   *)
(* host input gated and the deadline armed, whatever was paused, resumed   *)
(* or failed before (start_state_units).                                   *)
RestoreIsGated ==
    GuestRuns /\ gateTimeout => inputGated /\ gateDeadline /\ input = "gated" /\ lag = <<>>

(* "Gated microVM restores publish it after the guest acknowledges repair  *)
(* and host input is re-enabled" (snapshots.md): the readiness event is    *)
(* written successfully only once the gate was released.                   *)
ReadyIsAcknowledged ==
    [][Ready /\ steps' = Tail(steps) => ~gateTimeout]_vars

(* A source that exits with zero leaves a complete and durable snapshot.   *)
ExitZeroIsDurable == exitCode = "zero" => place = "dest" /\ placed /\ entries = needed

(* Every RPC of a client is answered, or the worker is gone, or it waits   *)
(* forever for a unit.                                                     *)
RpcAnswered == client # "idle" ~> client = "idle" \/ ~Alive \/ []Unbounded

(* The guest's deferred write ends: it is released, fails, or the VM ends. *)
(* The exception is a worker that waits forever for a unit, as it does     *)
(* when a halt reached the partition unit before the boundary request.     *)
WriteAnswered ==
    \A w \in 1 .. MaxWrites :
        pending = w /\ write = "held" ~>
            pending # w \/ write # "held" \/ ~Alive \/ []Unbounded

(* A boundary is released or the VM ends, whatever failed on the way,      *)
(* unless the worker waits forever for a unit.                             *)
BoundaryEnds == boundary ~> ~boundary \/ ~Alive \/ []Unbounded

(* The source ends once its snapshot is committed, and once a failed       *)
(* quiesce or rollback left it uncertain.                                  *)
SourceEnds == place = "dest" \/ condemned ~> ~Alive

=============================================================================
