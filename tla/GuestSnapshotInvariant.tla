----------------------- MODULE GuestSnapshotInvariant -----------------------
(***************************************************************************)
(* The inductive invariants of guest snapshots: that of the snapshot on    *)
(* disk, and that of the worker with the controller that calls it.  The    *)
(* worker's says where each handler is in its script, what the flags are   *)
(* there, and who answers for a boundary and for each RPC.                 *)
(***************************************************************************)
EXTENDS GuestSnapshot

-----------------------------------------------------------------------------
(* The snapshot on disk. *)

(* The artifacts of a plan. *)
Elements(s) == {s[i] : i \in 1 .. Len(s)}

(* The artifacts in the directory and those to come are the needed ones,   *)
(* and all of them are flushed when the directory is renamed.              *)
DirectoryInv ==
    /\ plan \in Seq(Artifact) /\ durable \subseteq entries
    /\ publishing \in Publishing
    /\ place = "none" => entries = {}
    /\ publishing \in {"staging", "sync", "commit"} => place = "staging"
    /\ publishing = "parent" => place = "dest"
    /\ publishing = "staging" => plan # <<>> /\ entries \cup Elements(plan) = needed
    /\ publishing \in {"sync", "commit"} => entries = needed
    /\ publishing = "commit" => durable = entries
    /\ place = "dest" => entries = needed /\ durable = entries
    /\ outcome = "ok" \/ exitCode = "zero" => place = "dest" /\ placed

(* A process about to run the guest is alone with a claim that survives a  *)
(* crash, and there is none once the guest has run.                        *)
ClaimInv ==
    /\ restorer \in [Restorers -> RestorerStep] /\ resumed \in {0, 1}
    /\ \A r \in Restorers : restorer[r] = "claiming" => claim # "none"
    /\ \A r \in Restorers : restorer[r] = "claimed" => claim = "durable"
    /\ \A r, s \in Restorers :
          restorer[r] \in {"claiming", "claimed"} /\ restorer[s] \in {"claiming", "claimed"} => r = s
    /\ resumed = 1 => /\ claim = "durable"
                      /\ \A r \in Restorers : restorer[r] \notin {"claiming", "claimed"}

StoreInv == DirectoryInv /\ ClaimInv

-----------------------------------------------------------------------------
(* What the worker knows.  Everything is said of a living worker.          *)

(* LoadedVm.running and StateUnits.running. *)
Up == vmRunning /\ unitsRunning
Down == ~vmRunning /\ ~unitsRunning
Agree == Up \/ Down \/ (restartFailed /\ vmRunning /\ ~unitsRunning)

InputHeld == input = "gated" /\ lag = <<>>
GateHeld == gateTimeout => inputGated /\ InputHeld

Starters == {"Resume", "Reset", "PowerReset", "PulseSaveRestore"}
Resets == {"Reset", "PowerReset", "PulseSaveRestore"}
Releasers == {"ReleaseSnapshotBoundary", "ResumeAfterFailedSnapshot"}

(* The handlers a step belongs to; the loop's tail is "none". *)
Owner(m, v, s) ==
    /\ s = "pause" => m \in Resets \cup {"Pause", "PauseToSave", "none"}
    /\ s = "stop" => m \in Starters \cup {"Restart"}
    /\ s \in {"reset", "assign", "unassign"} => m \in Resets
    /\ s = "assign" => ~v
    /\ s = "restore" => m = "PulseSaveRestore"
    /\ s = "start" => m \in Starters \cup {"AddDevice", "Restart"}
    /\ s \in {"ready", "go"} => m \in Starters
    /\ s = "gate" => m \in Starters \cup {"Boundary"}
    /\ s \in {"ungate", "vps"} => m = "Boundary"
    /\ s = "attach" => m = "AddDevice"
    /\ s = "save" => m \in {"PulseSaveRestore", "Save", "QuiesceForSnapshot", "Restart"}
    /\ s = "host" => m \in Resets \cup {"QuiesceForSnapshot"}
    /\ s = "serialize" => m = "Restart"
    /\ s = "quiesce" => m = "QuiesceForSnapshot"
    /\ s = "resume" => m = "ResumeAfterFailedSnapshot"
    /\ s = "release" => m \in Releasers
    /\ s = "fail" => m \in Starters \cup Releasers \cup {"Restart"}

(* Step b may follow step a in the script of m, which gates input if g and *)
(* writes the readiness event if r.                                        *)
Follows(m, g, r, a, b) ==
    /\ a = "pause" => b \in {"reset", "save"}
    /\ a = "stop" => b = IF m = "Restart" THEN "save" ELSE "fail"
    /\ a = "unassign" => b = "host"
    /\ a = "start" => b \in IF m = "Restart" THEN {"fail"} ELSE {"ready", "go", "attach"}
    /\ a = "assign" => b = "unassign"
    /\ a = "ready" => b = "go"
    /\ a = "gate" => b \in {"start", "vps"}
    /\ a = "quiesce" => b = "host"
    /\ a = "resume" => b \in {"release", "fail"}
    /\ a = "reset" => b \in {"assign", "host", "restore"}
    /\ a = "save" => b \in {"reset", "host", "serialize"}
    /\ a = "restore" => b \in {"start", "gate"}
    /\ a = "host" => b \in {"save", "start", "gate"}
    /\ a \notin {"go", "attach", "ungate", "release", "vps", "serialize", "fail"}
    /\ b = "start" => (a = "gate" <=> g)
    /\ b = "go" /\ r => a = "ready"

(* Step a may be the last one of m. *)
Ends(m, a) == /\ a \notin {"stop", "start", "assign", "unassign", "ready", "gate", "resume"}
              /\ a = "save" => m # "Restart"

Links(m, v, g, r, s) ==
    /\ s \in Seq(Steps)
    /\ \A i \in 1 .. Len(s) : Owner(m, v, s[i])
    /\ \A i \in 1 .. Len(s) - 1 : Follows(m, g, r, s[i], s[i + 1])

Chain(m, v, g, r, s) == Links(m, v, g, r, s) /\ (s # <<>> => Ends(m, s[Len(s)]))

(* The flags when step s of m begins. *)
Pre(m, s) ==
    /\ s = "pause" => vmRunning /\ Agree
    /\ s = "stop" => IF m = "Restart" THEN vmRunning /\ Agree ELSE unitsRunning /\ ~vmRunning
    /\ s \in {"unassign", "ready", "go"} => unitsRunning /\ ~vmRunning
    /\ s = "start" => IF m = "AddDevice" THEN Up
                      ELSE IF m = "Restart" THEN vmRunning /\ ~unitsRunning /\ ~restartFailed
                      ELSE Down
    /\ s = "gate" => IF m = "Boundary" THEN Up ELSE Down
    /\ s \in {"ungate", "vps", "quiesce"} => Up
    /\ s \in {"reset", "restore", "assign", "host"} => Down
    /\ s = "save" => IF m = "Restart" THEN ~unitsRunning /\ ~restartFailed ELSE IF m = "Save" THEN Agree ELSE Down
    /\ s \in {"attach", "fail", "release", "resume"} => Agree

ScriptInv ==
    /\ Chain(serving, microvm, gateTimeout, readySink, steps)
    /\ steps # <<>> => Pre(serving, Head(steps))
    /\ steps = <<>> => Agree
    /\ worker = "up" /\ serving = "none" => steps = <<>>
    /\ worker = "ending" => serving = "none" /\ (steps = <<>> => Down)
    /\ restartFailed => vmRunning /\ ~unitsRunning

Taking(names) == steps # <<>> /\ Head(steps) \in names

(* The operation in flight is that of the step, and what it asserts holds. *)
OpInv ==
    /\ op = "start" => Taking({"start", "assign"})
    /\ op = "stop" => /\ Taking({"pause", "stop", "unassign"})
                      /\ unitsRunning /\ "Uncertain" \notin present
    /\ op = "quiesce" => Taking({"quiesce"}) /\ unitsRunning
    /\ op = "resume" => Taking({"resume"}) /\ ~unitsRunning /\ present \subseteq {"Stopped"}
    /\ op \in Stateful => Taking({op}) /\ ~unitsRunning /\ present \subseteq {"Stopped"}

(* The units' states go with their flag. *)
UnitInv ==
    /\ ~unitsRunning /\ ~condemned => "Running" \notin present
    /\ microvm /\ unitsRunning /\ ~boundary => present \subseteq {"Running"}
    /\ condemned => boundary
    /\ serving = "Restart" /\ Taking({"start"}) => present \subseteq {"Stopped"}
    /\ serving = "Boundary" => Up /\ present = {"Running"}
    /\ serving = "QuiesceForSnapshot" =>
          IF Taking({"quiesce"}) THEN Up /\ present = {"Running"} ELSE Down /\ present = {"Stopped"}
    /\ Taking({"release"}) => unitsRunning /\ present \subseteq {"Running"}

ProfileInv ==
    /\ boundary \/ gateTimeout \/ serving = "Boundary" \/ pending # 0 => microvm
    /\ restartFailed => ~microvm
    /\ serving \in {"Restart", "AddDevice", "RemoveDevice", "PulseSaveRestore", "Save"} => ~microvm
    /\ \A i \in 1 .. Len(orders) : orders[i] = "Restart" => ~microvm

(* A restored VM runs behind its gate until the guest acknowledged. *)
RestoreInv ==
    /\ inputGated => gateTimeout
    /\ readySink => startGuard
    /\ Taking({"go"}) => ~readySink
    /\ ~startGuard /\ gateTimeout => gateDeadline
    /\ (unitsRunning \/ op = "start" \/ Taking({"start"})) /\ ~boundary => GateHeld

(* The input request in hand is the last one sent. *)
InputInv ==
    /\ wait # "no" => Taking({"gate", "ungate", "release"})
    /\ wait = "sent" => /\ lag # <<>>
                        /\ lag[Len(lag)] = IF Head(steps) = "gate" THEN "quiesce" ELSE "resume"
    /\ wait = "ok" /\ Head(steps) = "gate" => InputHeld
    /\ serving = "Boundary" => Taking({"vps"}) \/ (Taking({"gate", "ungate"}) /\ ~gateTimeout)
    /\ Taking({"vps"}) => InputHeld

Requested == \E i \in 1 .. Len(requests) : requests[i] = pending

(* The write that the port holds, and its request. *)
PortInv ==
    /\ \A i \in 1 .. Len(requests) : requests[i] <= written
    /\ \A i, j \in 1 .. Len(requests) : i < j => requests[i] < requests[j]
    /\ Requested => write = "held" /\ ~completed /\ ~boundary /\ serving # "Boundary"
    /\ pending # 0 /\ ~completed => Requested \/ serving = "Boundary" \/ boundary
    /\ serving = "Boundary" => pending # 0 /\ write = "held" /\ ~completed
    /\ pending # 0 /\ write # "released" => UnitsActive
    /\ pending # 0 /\ write = "released" => completed \/ boundary
    /\ write = "let" => completed

Awaited ==
    CASE controller = "release" -> "ReleaseSnapshotBoundary"
      [] controller = "quiesce" -> "QuiesceForSnapshot"
      [] controller = "rollback" -> "ResumeAfterFailedSnapshot"
      [] controller = "reset" -> "PowerReset"
      [] controller = "pausing" -> "PauseToSave"
      [] controller = "saving" -> "Save"
      [] OTHER -> "none"

(* One RPC of the controller and one of a client is in the channel or in   *)
(* hand, and it is the one they wait for.                                  *)
QueueInv ==
    /\ \A i \in 1 .. Len(rpcs) :
          IF rpcs[i] \in ControllerRpcs
          THEN rpcs[i] = Awaited /\ reply = "none" /\ serving \notin ControllerRpcs
          ELSE rpcs[i] = client /\ serving \notin ClientRpcs
    /\ \A i, j \in 1 .. Len(rpcs) : rpcs[i] = rpcs[j] => i = j
    /\ serving \in ControllerRpcs => serving = Awaited /\ reply = "none"
    /\ serving \in ClientRpcs => client = serving

(* The controller does not act for a boundary. *)
Aside == \/ controller \in {"idle", "reset", "pausing", "saving"}
         \/ controller \in {"release", "rollback"} /\ reply = "ok"

(* The boundary was established, and nothing was done for it yet. *)
Unanswered == \/ Aside
              \/ /\ controller \in {"quiesce", "release"} /\ reply = "none"
                 /\ serving \notin ControllerRpcs

(* Exactly one party answers for a boundary, and input stays gated until   *)
(* it decided what becomes of the snapshot.                                *)
BoundaryInv ==
    /\ boundary => serving \in Releasers \cup {"none", "ReadMemory", "QuiesceForSnapshot"}
    /\ IF Aside THEN notices = (IF boundary THEN 1 ELSE 0)
       ELSE notices = 0 /\ (boundary <=> ~(serving \in Releasers /\ steps = <<>>))
    /\ boundary /\ (Aside \/ controller \in {"quiesce", "publish"}) => InputHeld
    /\ boundary /\ worker = "up" /\ Unanswered => Up /\ present = {"Running"}
    /\ controller = "quiesce" => reply # "Rejected"
    /\ condemned => \/ controller \in {"exit", "done"}
                    \/ controller = "quiesce" /\ reply = "Uncertain"
                    \/ controller = "rollback" /\ reply = "err"

Captured == /\ boundary /\ Down /\ present = {"Stopped"}
            /\ steps = <<>> /\ serving \in {"none", "ReadMemory"}

(* From the capture to the decision, and from the commit on, the source    *)
(* stays as it was captured.                                               *)
CaptureInv ==
    /\ publishing # "no" \/ outcome # "none" => controller = "publish"
    /\ publishing # "no" => outcome = "none"
    /\ alias \/ place = "dest" => /\ controller \in {"publish", "exit", "done"}
                                  /\ controller = "publish" => publishing # "no" \/ outcome # "none"
    /\ outcome = "BeforeCommit" => ~alias /\ place = "none"
    /\ controller = "publish" \/ (controller = "quiesce" /\ reply = "ok") => Captured
    /\ alias \/ place = "dest" => Captured

WorkerInv == /\ ScriptInv /\ OpInv /\ UnitInv /\ ProfileInv /\ RestoreInv /\ InputInv
             /\ PortInv /\ QueueInv /\ BoundaryInv /\ CaptureInv

-----------------------------------------------------------------------------
(* The types of the worker, by the part that changes them. *)

FlagType == /\ microvm \in BOOLEAN /\ vmRunning \in BOOLEAN /\ boundary \in BOOLEAN
            /\ gateTimeout \in BOOLEAN /\ gateDeadline \in BOOLEAN /\ inputGated \in BOOLEAN
            /\ startGuard \in BOOLEAN /\ readySink \in BOOLEAN /\ restartFailed \in BOOLEAN
TaskType == /\ worker \in {"up", "ending", "gone"}
            /\ serving \in ClientRpcs \cup ControllerRpcs \cup {"none", "Boundary", "Restart"}
            /\ steps \in Seq(Steps)
InputType == /\ wait \in {"no", "sent", "ok", "err"} /\ input \in {"open", "gated", "mixed"}
             /\ lag \in Seq({"quiesce", "resume"})
ChannelType == /\ rpcs \in Seq(ClientRpcs \cup ControllerRpcs)
               /\ client \in ClientRpcs \cup {"idle"} /\ reply \in Replies \cup {"none"}
               /\ orders \in Seq({"Stop", "Restart"}) /\ notices \in Nat
PortType == /\ written \in 0 .. MaxWrites /\ pending \in 0 .. written
            /\ write \in {"held", "let", "released"} /\ completed \in BOOLEAN
            /\ requests \in Seq(1 .. MaxWrites)
Types == LifecycleType /\ FlagType /\ TaskType /\ InputType /\ ChannelType /\ PortType

(* A living worker for which the invariant holds. *)
Held == Types /\ WorkerInv /\ Alive

(* Everything about the worker is said of a living one; what is left of a  *)
(* lost one is how it was lost.                                            *)
SystemInv == TypeOK /\ (Alive => WorkerInv) /\ AssertsNeedFailure /\ TeardownQuiet

-----------------------------------------------------------------------------
(* What follows for the step that is next. *)

(* What a step of the worker begins with. *)
StepShape ==
    steps # <<>> =>
        /\ Pre(serving, Head(steps))
        /\ Chain(serving, microvm, gateTimeout, readySink, Tail(steps))
        /\ Head(steps) \in Steps /\ Owner(serving, microvm, Head(steps))
        /\ Tail(steps) = <<>> => Ends(serving, Head(steps))
        /\ Tail(steps) # <<>> =>
              /\ Follows(serving, gateTimeout, readySink, Head(steps), Head(Tail(steps)))
              /\ Head(Tail(steps)) \in Steps /\ Owner(serving, microvm, Head(Tail(steps)))

(* The units answer the step they were asked for. *)
OpShape ==
    /\ op # "idle" => steps # <<>>
    /\ op = "start" => Head(steps) \in {"start", "assign"}
    /\ op = "stop" => /\ Head(steps) \in {"pause", "stop", "unassign"}
                      /\ unitsRunning /\ "Uncertain" \notin present
    /\ op = "quiesce" => Head(steps) = "quiesce" /\ unitsRunning
    /\ op = "resume" => Head(steps) = "resume" /\ ~unitsRunning /\ present \subseteq {"Stopped"}
    /\ op \in Stateful => /\ steps # <<>> /\ Head(steps) \in {"reset", "save", "restore"}
                          /\ ~unitsRunning /\ present \subseteq {"Stopped"}

(* A boundary that is being released. *)
ReleaseShape ==
    serving \in Releasers /\ steps # <<>> =>
        boundary /\ microvm /\ ~restartFailed /\ controller \in {"release", "rollback"} /\ reply = "none"

(* A request whose write the guest still waits for. *)
RequestShape ==
    Listening /\ requests # <<>> /\ IsLive(Head(requests)) /\ ~boundary =>
        /\ Up /\ present = {"Running"} /\ microvm
        /\ pending # 0 /\ write = "held" /\ ~completed

(* The RPCs of the controller that are about a boundary. *)
QuiesceShape ==
    serving = "QuiesceForSnapshot" =>
        boundary /\ microvm /\ controller = "quiesce" /\ reply = "none"

RpcShape ==
    Listening /\ rpcs # <<>> =>
        /\ Head(rpcs) \in ClientRpcs \cup ControllerRpcs
        /\ Head(rpcs) \in ControllerRpcs => Head(rpcs) = Awaited /\ reply = "none"
        /\ Head(rpcs) \notin ControllerRpcs => Head(rpcs) = client
        /\ Head(rpcs) \in Releasers \cup {"QuiesceForSnapshot"} => boundary
        /\ Head(rpcs) \in {"ReleaseSnapshotBoundary", "QuiesceForSnapshot"} =>
              Up /\ present = {"Running"}

-----------------------------------------------------------------------------
(* Scripts and steps. *)

(* A part of a script from step a to step b. *)
Part(m, v, g, r, s, a, b) == Links(m, v, g, r, s) /\ s # <<>> /\ s[1] = a /\ s[Len(s)] = b

(* The beginning of each handler's script. *)
First(m) ==
    CASE m \in {"Pause", "PauseToSave"} -> "pause"
      [] m = "Resume" -> IF gateTimeout THEN "gate" ELSE "start"
      [] m \in {"Reset", "PowerReset"} -> IF vmRunning THEN "pause" ELSE "reset"
      [] m = "PulseSaveRestore" -> IF vmRunning THEN "pause" ELSE "save"
      [] m = "Save" -> "save"
      [] m = "AddDevice" -> IF unitsRunning THEN "start" ELSE "attach"
      [] m = "QuiesceForSnapshot" -> "quiesce"
      [] m = "ResumeAfterFailedSnapshot" -> "resume"
      [] m = "ReleaseSnapshotBoundary" -> IF boundary THEN "release" ELSE "fail"
      [] m = "Restart" -> IF vmRunning THEN "stop" ELSE "save"
      [] OTHER -> "none"

(* The answer of the units ends one operation. *)
Ended(answer) ==
    /\ Alive /\ answer
    /\ IF "Running" \in present' THEN UNCHANGED portVars ELSE PortStop
    /\ UNCHANGED <<microvm, boundary, gateTimeout, gateDeadline, inputGated, startGuard,
                   readySink, inputVars>>

(* The controller's steps, for a living worker. *)
Controls == \/ GuestContinues \/ QuiesceAnswered \/ PreparePublication \/ PublicationOver
            \/ CallAnswered \/ Leave \/ TakeNotice \/ PowerEvent \/ SaveSnapshot \/ Quit

=============================================================================
