---------------------- MODULE GuestSnapshotWorkerProofs ----------------------
(***************************************************************************)
(* Every step of the VM worker keeps its types and its invariant, whatever *)
(* the clients, the guest, the units and the input task do.                *)
(***************************************************************************)
EXTENDS GuestSnapshotScriptProofs

(* The time a prover may take for one obligation. *)
USE ZenonT(20), SMTT(20)

(* Boundaries, gates and held writes are those of a microVM. *)
LEMMA ProfileKept ==
  ASSUME Held, WorkerNext, Alive', UNCHANGED <<storeVars, controllerVars>>
  PROVE  ProfileInv'
<1>P. ProfileInv
  BY DEF Held, Types, WorkerInv
<1>s. StepShape
  BY StepFacts
<1>x. RpcShape
  BY RpcFacts
<1>c. ChannelType
  BY DEF Held, Types, WorkerInv
<1>q. RequestShape
  BY RequestFacts
<1> USE DEF Agree, Up, Down, Ended, At, Listening, lifecycleVars, flagVars, taskVars, inputVars,
     channelVars, portVars
<1>1. CASE RefuseStep
  BY <1>1, <1>P DEF RefuseStep, Fail, Return, MayStart, MayResume, Free, ProfileInv
<1>2. CASE Ended(Stopped)
  BY <1>2, <1>P DEF Stopped, StopOk, Finish, AllIn, Advance, PortStop, During, MayStart,
       ProfileInv
<1>3. CASE Ended(Unassigned)
  BY <1>3, <1>P DEF Unassigned, StopOk, Finish, AllIn, Fail, Return, PortStop, During, MayStart,
       ProfileInv
<1>4. CASE Ended(Started)
  BY <1>4, <1>P DEF Started, StartOk, Finish, AllIn, Advance, PortStop, During, MayStart,
       ProfileInv
<1>5. CASE Ended(StartFailed)
  BY <1>5, <1>P DEF StartFailed, StartErr, Fail, Return, PortStop, During, MayStart, ProfileInv
<1>6. CASE Ended(Quiesced)
  BY <1>6, <1>P DEF Quiesced, QuiesceOk, Finish, AllIn, Advance, PortStop, During, MayStart,
       ProfileInv
<1>7. CASE Ended(QuiesceFailed)
  BY <1>7, <1>P DEF QuiesceFailed, QuiesceErr, Finish, Return, PortStop, During, MayStart,
       ProfileInv
<1>8. CASE Ended(Resumed) \/ Ended(ResumeFailed)
  <2>1. CASE Ended(Resumed)
    BY <2>1, <1>P DEF Resumed, ResumeOk, Finish, AllIn, Advance, PortStop, During, ProfileInv
  <2>2. CASE Ended(ResumeFailed)
    BY <2>2, <1>P DEF Finish, AllIn, Advance, PortStop, During, ResumeFailed, ResumeErr, Fail,
       Return, ProfileInv
  <2> QED
    BY <1>8, <2>1, <2>2
<1>9. CASE Ended(StatefulOk) \/ Ended(StatefulFailed) \/ GateFailed
  <2>1. CASE Ended(StatefulOk)
    BY <2>1, <1>P DEF StatefulOk, StatefulDone, Finish, Advance, PortStop, During, ProfileInv
  <2>2. CASE Ended(StatefulFailed)
    BY <2>2, <1>P DEF StatefulDone, Finish, PortStop, During, StatefulFailed, Fail, Return,
       ProfileInv
  <2>3. CASE GateFailed
    BY <2>3, <1>P DEF Fail, Return, GateFailed, InputDone, ProfileInv
  <2> QED
    BY <1>9, <2>1, <2>2, <2>3
<1>10. CASE Ungated \/ UngateFailed \/ Released
  <2>1. CASE Ungated
    BY <2>1, <1>P DEF Ungated, InputDone, Return, ProfileInv
  <2>2. CASE UngateFailed
    BY <2>2, <1>P DEF InputDone, UngateFailed, Break, ProfileInv
  <2>3. CASE Released
    BY <2>3, <1>P DEF InputDone, Released, Advance, ProfileInv
  <2> QED
    BY <1>10, <2>1, <2>2, <2>3
<1>11. CASE ReleaseFailed \/ BoundaryFailed \/ HostStep
  <2>1. CASE ReleaseFailed
    BY <2>1, <1>P DEF ReleaseFailed, InputDone, Fail, Return, ProfileInv
  <2>2. CASE BoundaryFailed
    BY <2>2, <1>P DEF BoundaryFailed, Break, ProfileInv
  <2>3. CASE HostStep
    BY <2>3, <1>P DEF Fail, Return, HostStep, Advance, DropUnits, ProfileInv
  <2> QED
    BY <1>11, <2>1, <2>2, <2>3
<1>12. CASE FailStep \/ Complete \/ GateExpires
  <2>1. CASE FailStep
    BY <2>1, <1>P DEF FailStep, Fail, Return, ProfileInv
  <2>2. CASE Complete
    BY <2>2, <1>P DEF Return, Complete, ProfileInv
  <2>3. CASE GateExpires
    BY <2>3, <1>P DEF GateExpires, Break, ProfileInv
  <2> QED
    BY <1>12, <2>1, <2>2, <2>3
<1>13. CASE GuestWrite \/ PortPoll \/ SendRestart
  <2>1. CASE GuestWrite
    BY <2>1, <1>P DEF GuestWrite, Duplicate, GuestRuns, ProfileInv
  <2>2. CASE PortPoll
    BY <2>2, <1>P DEF PortPoll, ProfileInv
  <2>3. CASE SendRestart
    BY <2>3, <1>P DEF SendRestart, ProfileInv
  <2> QED
    BY <1>13, <2>1, <2>2, <2>3
<1>14. CASE AtBoundary
  BY <1>14, <1>P, <1>s DEF AtBoundary, ProfileInv, StepShape, Pre, Follows, Owner, Ends
<1>15. CASE TakeRpc
  <2> DEFINE m == Head(rpcs)
  <2>1. CASE Refusal(m) # "none"
    BY <1>15, <1>P, <2>1 DEF TakeRpc, ProfileInv
  <2>2. CASE Refusal(m) = "none"
    <3>1. serving' = m /\ UNCHANGED <<microvm, boundary, gateTimeout, restartFailed, pending, orders>>
      BY <1>15, <2>2 DEF TakeRpc
    <3>2. m \in {"AddDevice", "RemoveDevice", "PulseSaveRestore", "Save"} => ~microvm
      BY <2>2 DEF Refusal, Filtered
    <3>3. m # "Boundary" /\ m # "Restart"
      BY <1>15, <1>x DEF TakeRpc, RpcShape, ClientRpcs, ControllerRpcs
    <3> HIDE DEF m
    <3> QED
      BY <1>P, <3>1, <3>2, <3>3 DEF ProfileInv
  <2> QED
    BY <2>1, <2>2
<1>16. CASE TakeOrder
  <2>1. UNCHANGED <<microvm, boundary, gateTimeout, restartFailed, pending>> /\ orders # <<>>
    BY <1>16 DEF TakeOrder
  <2>2. /\ \A i \in 1 .. Len(orders') : orders'[i] = "Restart" => ~microvm
        /\ Head(orders) = "Restart" => ~microvm
    <3>1. /\ \A i \in 1 .. Len(orders) : orders[i] = "Restart" => ~microvm
          /\ orders \in Seq({"Stop", "Restart"}) /\ orders # <<>> /\ orders' = Tail(orders)
      BY <1>16, <1>P, <1>c DEF TakeOrder, ProfileInv, ChannelType, Replies, ClientRpcs,
           ControllerRpcs
    <3> QED
      BY ONLY <3>1
  <2>3. serving' \in {"none", serving} \/ (serving' = "Restart" /\ Head(orders) = "Restart")
    BY <1>16 DEF TakeOrder, Break
  <2> QED
    BY <1>P, <2>1, <2>2, <2>3 DEF ProfileInv
<1>17. CASE TakeRequest
  <2>1. CASE UNCHANGED serving
    BY <1>17, <1>P, <2>1 DEF TakeRequest, ProfileInv
  <2>2. CASE IsLive(Head(requests)) /\ ~boundary
    BY <1>17, <1>P, <1>q, <2>2 DEF TakeRequest, RequestShape, ProfileInv
  <2> QED
    BY <1>17, <2>1, <2>2 DEF TakeRequest
<1>18. CASE UNCHANGED <<boundary, gateTimeout, serving, pending, microvm, restartFailed, orders>>
  BY <1>18, <1>P DEF ProfileInv
<1>19. CASE BeginStep \/ SendInput \/ Gated \/ Ready \/ Go \/ HandleInput \/ InputTimeout
            \/ (\E m \in Clients : SendRpc(m))
  BY <1>19, <1>18 DEF BeginStep, BeginStop, BeginStart, BeginQuiesce, BeginResume,
       BeginStateful, EnterOp, EnterIf, Crash, MayStart, MayResume, Free, SendInput, Gated,
       InputDone, Advance, Ready, Go, HandleInput, InputTimeout, SendRpc
<1> QED
  BY <1>1, <1>2, <1>3, <1>4, <1>5, <1>6, <1>7, <1>8, <1>9, <1>10, <1>11, <1>12, <1>13, <1>14,
       <1>15, <1>16, <1>17, <1>19, EndCases, LostSteps DEF WorkerNext, StepWorker, TakeEvent

(* The answer waited for is that of the last input request. *)
LEMMA InputKept ==
  ASSUME Held, WorkerNext, Alive', UNCHANGED <<storeVars, controllerVars>>
  PROVE  InputInv'
<1>I. InputInv
  BY DEF Held, Types, WorkerInv
<1>s. StepShape
  BY StepFacts
<1>o. OpShape
  BY OpFacts
<1>S. ScriptInv
  BY DEF Held, Types, WorkerInv
<1>i. InputType
  BY DEF Held, Types, WorkerInv
<1>x. RpcShape
  BY RpcFacts
<1>q. RequestShape
  BY RequestFacts
<1>R. RestoreInv
  BY DEF Held, Types, WorkerInv
<1> USE DEF InputHeld, Taking, Agree, Up, Down, Starters, Resets, Releasers, GateHeld, Ended,
     At, Listening, lifecycleVars, flagVars, taskVars, inputVars, channelVars, portVars
<1>1. CASE RefuseStep \/ Ended(Unassigned) \/ Ungated \/ ReleaseFailed
  BY <1>1, <1>I DEF RefuseStep, Fail, Return, MayStart, MayResume, Free, Unassigned, StopOk,
       Finish, AllIn, PortStop, During, Ungated, InputDone, ReleaseFailed, InputInv
<1>2. CASE AtBoundary \/ FailStep \/ Complete \/ InputTimeout
  <2>1. CASE AtBoundary
    BY <2>1, <1>I DEF AtBoundary, InputInv
  <2>2. CASE FailStep
    BY <2>2, <1>I DEF FailStep, Fail, Return, InputInv
  <2>3. CASE Complete
    BY <2>3, <1>I DEF Return, Complete, InputInv
  <2>4. CASE InputTimeout
    BY <2>4, <1>I DEF InputTimeout, InputInv
  <2> QED
    BY <1>2, <2>1, <2>2, <2>3, <2>4
<1>3. CASE Ended(Stopped) \/ Ended(Started) \/ Ended(Quiesced) \/ Ended(Resumed)
  BY <1>3, <1>I, <1>s, <1>o DEF Stopped, StopOk, Finish, AllIn, Advance, PortStop, During,
       MayStart, Started, StartOk, Quiesced, QuiesceOk, Resumed, ResumeOk, InputInv, StepShape,
       Pre, Follows, Owner, Ends, OpShape
<1>4. CASE Ended(StartFailed) \/ Ended(QuiesceFailed) \/ Ended(ResumeFailed)
  BY <1>4, <1>I, <1>o DEF StartFailed, StartErr, Fail, Return, PortStop, During, MayStart,
       QuiesceFailed, QuiesceErr, Finish, ResumeFailed, ResumeErr, InputInv, OpShape
<1>5. CASE Gated \/ Released \/ Go \/ HostStep
  BY <1>5, <1>I, <1>s DEF Gated, InputDone, Advance, Released, Go, HostStep, Fail, Return,
       DropUnits, InputInv, StepShape, Pre, Follows, Owner, Ends
<1>6. CASE UngateFailed \/ BoundaryFailed
  BY <1>6, <1>I, ShortHeads DEF UngateFailed, InputDone, Break, BoundaryFailed, InputInv
<1>7. CASE GateExpires
  BY <1>7, <1>I, <1>S, ShortHeads DEF GateExpires, Break, InputInv, ScriptInv, Pre
<1>8. CASE Ended(StatefulOk)
  <2>1. Head(steps) \in {"reset", "save", "restore"} /\ steps # <<>>
    BY <1>8, <1>o DEF StatefulOk, StatefulDone, During, OpShape
  <2>2. /\ steps' = Tail(steps) /\ UNCHANGED <<serving, gateTimeout, inputVars>>
    BY <1>8 DEF StatefulOk, Advance
  <2>3. ~Taking({"vps"})' /\ serving # "Boundary" /\ wait = "no"
    BY <1>I, <1>s, <2>1, <2>2 DEF InputInv, StepShape, Pre, Follows, Owner, Ends
  <2> QED
    BY <1>I, <2>2, <2>3 DEF InputInv
<1>9. CASE Ended(StatefulFailed)
  <2>1. Head(steps) \in {"reset", "save", "restore"} /\ steps # <<>>
    BY <1>9, <1>o DEF StatefulFailed, StatefulDone, During, OpShape
  <2>2. steps' \in {<<"start", "fail">>, <<>>} /\ serving' \in {serving, "none"} /\ UNCHANGED <<gateTimeout, inputVars>>
    BY <1>9 DEF StatefulFailed, Fail, Return
  <2>3. ~Taking({"vps"})' /\ serving # "Boundary" /\ wait = "no"
    BY <1>I, <1>s, <2>1, <2>2, ShortHeads DEF InputInv, StepShape, Pre, Follows, Owner, Ends
  <2> QED
    BY <1>I, <2>2, <2>3 DEF InputInv
<1>10. CASE SendInput
  <2>1. /\ UNCHANGED <<gateTimeout, serving, steps, input>>
        /\ wait' = "sent" /\ steps # <<>> /\ Head(steps) \in {"gate", "ungate", "release"}
        /\ lag' = Append(lag, IF Head(steps) = "gate" THEN "quiesce" ELSE "resume")
    BY <1>10 DEF SendInput
  <2>2. lag' # <<>> /\ lag'[Len(lag')] = IF Head(steps) = "gate" THEN "quiesce" ELSE "resume"
    <3>1. lag \in Seq({"quiesce", "resume"})
      BY <1>i DEF InputType
    <3> QED
      BY ONLY <2>1, <3>1
  <2> QED
    BY <1>I, <2>1, <2>2 DEF InputInv
<1>11. CASE GateFailed
  <2>1. wait' = "no" /\ UNCHANGED <<gateTimeout, input, lag>>
    BY <1>11 DEF GateFailed, InputDone
  <2>2. \/ serving' = serving /\ steps' = <<"ungate">> /\ serving = "Boundary"
        \/ serving' = "none" /\ steps' = <<>>
    BY <1>11 DEF GateFailed, Fail, Return
  <2>3. serving = "Boundary" => ~gateTimeout
    BY <1>11, <1>I DEF GateFailed, InputInv
  <2> QED
    BY <1>I, <2>1, <2>2, <2>3, ShortHeads DEF InputInv
<1>12. CASE Ready
  <2>1. UNCHANGED <<serving, gateTimeout, inputVars>> /\ serving # "Boundary" /\ wait = "no"
    BY <1>12, <1>I, <1>s DEF Ready, Advance, InputInv, StepShape, Pre, Follows, Owner, Ends
  <2>2. ~Taking({"vps"})'
    BY <1>12, <1>s, ShortHeads DEF Ready, Advance, StepShape, Pre, Follows, Owner, Ends
  <2> QED
    BY <1>I, <2>1, <2>2 DEF InputInv
<1>13. CASE TakeRpc
  <2> DEFINE m == Head(rpcs)
  <2>1. UNCHANGED <<gateTimeout, inputVars>> /\ wait = "no"
    BY <1>13, <1>I, <1>S DEF TakeRpc, InputInv, ScriptInv, Pre
  <2>2. \/ serving' = m /\ steps' = Script(m)
        \/ serving' = serving /\ steps' = steps
    BY <1>13 DEF TakeRpc
  <2>3. m # "Boundary"
    BY <1>13, <1>x DEF TakeRpc, RpcShape, ClientRpcs, ControllerRpcs
  <2> HIDE DEF m
  <2>4. Script(m) # <<>> => Head(Script(m)) # "vps"
    <3>1. First(m) # "vps"
      BY Zenon DEF First
    <3> QED
      BY <3>1, ScriptChain
  <2> QED
    BY <1>I, <2>1, <2>2, <2>3, <2>4 DEF InputInv
<1>14. CASE TakeOrder
  <2>1. UNCHANGED <<gateTimeout, inputVars>>
    BY <1>14 DEF TakeOrder
  <2>2. \/ serving' = "none" /\ steps' = PauseSteps
        \/ serving' = "Restart" /\ steps' = Script("Restart")
        \/ serving' = serving /\ steps' = steps
    BY <1>14 DEF TakeOrder, Break
  <2>3. Script("Restart") # <<>> => Head(Script("Restart")) \in {"stop", "save"}
    BY ScriptChain DEF First
  <2>4. wait = "no"
    BY <1>14, <1>I, <1>S DEF TakeOrder, InputInv, ScriptInv, Pre
  <2> QED
    BY <1>I, <2>1, <2>2, <2>3, <2>4, ShortHeads DEF InputInv
<1>15. CASE TakeRequest
  <2>1. UNCHANGED <<gateTimeout, inputVars>>
    BY <1>15 DEF TakeRequest
  <2>2. CASE UNCHANGED <<serving, steps>>
    BY <1>I, <2>1, <2>2 DEF InputInv
  <2>3. CASE IsLive(Head(requests)) /\ ~boundary
    <3>1. Up /\ GateHeld /\ (inputGated => gateTimeout)
      BY <1>15, <1>q, <1>R, <2>3 DEF TakeRequest, RequestShape, RestoreInv
    <3>2. wait = "no"
      BY <1>15, <1>I, <1>S DEF TakeRequest, InputInv, ScriptInv, Pre
    <3>3. steps' = IF inputGated THEN <<"vps">> ELSE <<"gate", "vps">>
      BY <1>15, <2>3 DEF TakeRequest
    <3> QED
      BY <1>I, <2>1, <3>1, <3>2, <3>3, ShortHeads DEF GateHeld, InputInv
  <2> QED
    BY <1>15, <2>2, <2>3 DEF TakeRequest
<1>16. CASE HandleInput
  <2>1. /\ UNCHANGED <<gateTimeout, serving, steps>> /\ lag # <<>> /\ lag' = Tail(lag)
    BY <1>16 DEF HandleInput
  <2>5. PICK result \in {"ok", "err"} :
              /\ input' = IF result = "err" THEN "mixed"
                          ELSE IF Head(lag) = "quiesce" THEN "gated" ELSE "open"
              /\ wait' = IF wait = "sent" /\ Len(lag) = 1 THEN result ELSE wait
    BY <1>16 DEF HandleInput
  <2>2. lag \in Seq({"quiesce", "resume"})
    BY <1>i DEF InputType
  <2>3. /\ wait' # "no" => wait # "no"
        /\ wait' = "sent" => wait = "sent" /\ lag' # <<>> /\ lag'[Len(lag')] = lag[Len(lag)]
        /\ wait' = "ok" /\ wait # "ok" => /\ wait = "sent" /\ lag' = <<>>
                                          /\ lag[Len(lag)] = "quiesce" => input' = "gated"
    <3>1. /\ Len(lag) # 1 => lag' # <<>> /\ lag'[Len(lag')] = lag[Len(lag)]
          /\ Len(lag) = 1 => lag' = <<>> /\ lag[Len(lag)] = Head(lag)
      BY <2>1, <2>2, LastOfTail
    <3> QED
      BY <2>1, <2>5, <3>1
  <2>4. ~InputHeld
    BY <2>1
  <2> QED
    BY <1>I, <2>1, <2>3, <2>4 DEF InputInv
<1>17. CASE UNCHANGED <<wait, steps, lag, input, serving, gateTimeout>>
  BY <1>17, <1>I DEF InputInv
<1>18. CASE BeginStep \/ GuestWrite \/ PortPoll \/ SendRestart
            \/ (\E m \in Clients : SendRpc(m))
  BY <1>18, <1>17 DEF BeginStep, BeginStop, BeginStart, BeginQuiesce, BeginResume,
       BeginStateful, EnterOp, EnterIf, Crash, MayStart, MayResume, Free, GuestWrite, Duplicate,
       GuestRuns, PortPoll, SendRestart, SendRpc
<1> QED
  BY <1>1, <1>2, <1>3, <1>4, <1>5, <1>6, <1>7, <1>8, <1>9, <1>10, <1>11, <1>12, <1>13, <1>14,
       <1>15, <1>16, <1>18, EndCases, LostSteps DEF WorkerNext, StepWorker, TakeEvent

(* The write the port holds has its request, or its boundary. *)
LEMMA PortKept ==
  ASSUME Held, WorkerNext, Alive', UNCHANGED <<storeVars, controllerVars>>
  PROVE  PortInv'
<1>W. PortInv
  BY DEF Held, Types, WorkerInv
<1>S. ScriptInv
  BY DEF Held, Types, WorkerInv
<1>s. StepShape
  BY StepFacts
<1>r. ReleaseShape
  BY ReleaseFacts
<1>I. InputInv
  BY DEF Held, Types, WorkerInv
<1>o. OpShape
  BY OpFacts
<1>p. PortType
  BY DEF Held, Types, WorkerInv
<1>P. ProfileInv
  BY DEF Held, Types, WorkerInv
<1>x. RpcShape
  BY RpcFacts
<1>q. RequestShape
  BY RequestFacts
<1> USE DEF Requested, UnitsActive, Agree, Up, Down, Starters, Resets, Releasers, InputHeld,
     Taking, Ended, At, Listening, lifecycleVars, flagVars, taskVars, inputVars, channelVars,
     portVars
<1>1. CASE BeginStep
  BY <1>1, <1>W DEF BeginStep, BeginStop, BeginStart, BeginQuiesce, BeginResume, BeginStateful,
       EnterOp, EnterIf, Crash, MayStart, MayResume, Free, PortInv
<1>2. CASE GateFailed
  BY <1>2, <1>W DEF GateFailed, InputDone, Fail, Return, PortInv
<1>3. CASE TakeOrder \/ GateExpires
  <2>1. CASE TakeOrder
    BY <2>1, <1>W DEF TakeOrder, Break, PortInv
  <2>2. CASE GateExpires
    BY <2>2, <1>W DEF Break, GateExpires, PortInv
  <2> QED
    BY <1>3, <2>1, <2>2
<1>4. CASE RefuseStep
  BY <1>4, <1>W, <1>S, <1>s DEF RefuseStep, Fail, Return, MayStart, MayResume, Free, PortInv,
       ScriptInv, Pre, StepShape, Follows, Owner, Ends
<1>5. CASE ReleaseFailed
  BY <1>5, <1>W, <1>S, <1>s DEF ReleaseFailed, InputDone, Fail, Return, PortInv, ScriptInv, Pre,
       StepShape, Follows, Owner, Ends
<1>6. CASE FailStep
  BY <1>6, <1>W, <1>S, <1>s DEF FailStep, Fail, Return, PortInv, ScriptInv, Pre, StepShape,
       Follows, Owner, Ends
<1>7. CASE Ungated \/ UngateFailed \/ AtBoundary \/ BoundaryFailed
  BY <1>7, <1>W, <1>s DEF Ungated, InputDone, Return, UngateFailed, Break, AtBoundary,
       BoundaryFailed, PortInv, StepShape, Pre, Follows, Owner, Ends
<1>8. CASE Released
  BY <1>8, <1>W, <1>s, <1>r DEF Released, InputDone, Advance, PortInv, StepShape, Pre, Follows,
       Owner, Ends, ReleaseShape
<1>9. CASE Complete
  BY <1>9, <1>W, <1>I DEF Complete, Return, PortInv, InputInv
<1>10. CASE Ended(Stopped)
  <2>1. serving # "Boundary" /\ serving' # "Boundary"
    BY <1>10, <1>s, <1>o DEF Stopped, StopOk, During, Advance, StepShape, Pre, Follows, Owner,
         Ends, OpShape
  <2> QED
    BY <1>10, <1>W, <1>p, <2>1, PortEnded DEF PortInv, PortType
<1>11. CASE Ended(Unassigned)
  <2>1. serving # "Boundary" /\ serving' # "Boundary"
    BY <1>11, <1>s, <1>o DEF Unassigned, StopOk, During, Fail, Return, StepShape, Pre, Follows,
         Owner, Ends, OpShape
  <2> QED
    BY <1>11, <1>W, <1>p, <2>1, PortEnded DEF PortInv, PortType
<1>12. CASE Ended(Started)
  <2>1. serving # "Boundary" /\ serving' # "Boundary"
    BY <1>12, <1>s, <1>o DEF Started, StartOk, During, Advance, StepShape, Pre, Follows, Owner,
         Ends, OpShape
  <2> QED
    BY <1>12, <1>W, <1>p, <2>1, PortEnded DEF PortInv, PortType
<1>13. CASE Ended(StartFailed)
  <2>1. serving # "Boundary" /\ serving' # "Boundary"
    BY <1>13, <1>s, <1>o DEF StartFailed, StartErr, During, Fail, Return, StepShape, Pre,
         Follows, Owner, Ends, OpShape
  <2> QED
    BY <1>13, <1>W, <1>p, <2>1, PortEnded DEF PortInv, PortType
<1>14. CASE Ended(Quiesced)
  <2>1. serving # "Boundary" /\ serving' # "Boundary"
    BY <1>14, <1>s, <1>o DEF Quiesced, QuiesceOk, During, Advance, StepShape, Pre, Follows,
         Owner, Ends, OpShape
  <2> QED
    BY <1>14, <1>W, <1>p, <2>1, PortEnded DEF PortInv, PortType
<1>15. CASE Ended(QuiesceFailed)
  <2>1. serving # "Boundary" /\ serving' # "Boundary"
    BY <1>15, <1>s, <1>o DEF QuiesceFailed, QuiesceErr, During, Return, StepShape, Pre, Follows,
         Owner, Ends, OpShape
  <2> QED
    BY <1>15, <1>W, <1>p, <2>1, PortEnded DEF PortInv, PortType
<1>16. CASE Ended(Resumed)
  <2>1. serving # "Boundary" /\ serving' # "Boundary"
    BY <1>16, <1>s, <1>o DEF Resumed, ResumeOk, During, Advance, StepShape, Pre, Follows, Owner,
         Ends, OpShape
  <2> QED
    BY <1>16, <1>W, <1>p, <2>1, PortEnded DEF PortInv, PortType
<1>17. CASE Ended(ResumeFailed)
  <2>1. serving # "Boundary" /\ serving' # "Boundary"
    BY <1>17, <1>s, <1>o DEF ResumeFailed, ResumeErr, During, Fail, Return, StepShape, Pre,
         Follows, Owner, Ends, OpShape
  <2> QED
    BY <1>17, <1>W, <1>p, <2>1, PortEnded DEF PortInv, PortType
<1>18. CASE Ended(StatefulOk)
  <2>1. serving # "Boundary" /\ serving' # "Boundary"
    BY <1>18, <1>s, <1>o DEF StatefulOk, StatefulDone, During, Advance, StepShape, Pre, Follows,
         Owner, Ends, OpShape
  <2> QED
    BY <1>18, <1>W, <1>p, <2>1, PortEnded DEF PortInv, PortType
<1>19. CASE Ended(StatefulFailed)
  <2>1. serving # "Boundary" /\ serving' # "Boundary"
    BY <1>19, <1>s, <1>o DEF StatefulFailed, StatefulDone, During, Fail, Return, StepShape, Pre,
         Follows, Owner, Ends, OpShape
  <2> QED
    BY <1>19, <1>W, <1>p, <2>1, PortEnded DEF PortInv, PortType
<1>20. CASE HostStep
  <2>1. /\ UNCHANGED <<portVars, boundary, op>> /\ serving' \in {serving, "none"}
        /\ serving # "Boundary"
    BY <1>20, <1>s DEF HostStep, Advance, Fail, Return, DropUnits, StepShape, Pre, Follows,
         Owner, Ends
  <2>2. UNCHANGED present \/ pending = 0
    BY <1>20, <1>P, <1>s DEF HostStep, ProfileInv, StepShape, Pre, Follows, Owner, Ends
  <2> QED
    BY <1>W, <2>1, <2>2 DEF PortInv
<1>21. CASE TakeRpc
  <2> DEFINE m == Head(rpcs)
  <2>1. /\ UNCHANGED <<portVars, boundary, op>> /\ serving' \in {m, "none"} /\ serving = "none"
    BY <1>21 DEF TakeRpc, AddUnit, DropUnits
  <2>2. UNCHANGED present \/ ~microvm
    BY <1>21 DEF TakeRpc, Refusal, Filtered
  <2>3. ~microvm => pending = 0
    BY <1>P DEF ProfileInv
  <2>4. m # "Boundary"
    BY <1>21, <1>x DEF TakeRpc, RpcShape, ClientRpcs, ControllerRpcs
  <2> HIDE DEF m
  <2> QED
    BY <1>W, <2>1, <2>2, <2>3, <2>4 DEF PortInv
<1>22. CASE TakeRequest
  <2>1. /\ requests # <<>> /\ requests' = Tail(requests) /\ serving = "none" /\ pending' = pending
        /\ UNCHANGED <<written, boundary, op, present>>
    BY <1>22 DEF TakeRequest
  <2>2. /\ \A i \in 1 .. Len(requests') : requests'[i] <= written'
        /\ \A i, j \in 1 .. Len(requests') : i < j => requests'[i] < requests'[j]
        /\ Requested' <=> Requested /\ pending # Head(requests)
    BY <1>W, <1>p, <2>1, RequestTaken DEF PortInv, PortType
  <2> HIDE DEF Requested
  <2>3. CASE IsLive(Head(requests)) /\ ~boundary
    <3>1. serving' = "Boundary" /\ UNCHANGED <<write, completed>> /\ pending = Head(requests)
      BY <1>22, <2>3 DEF TakeRequest, IsLive
    <3>2. pending # 0 /\ write = "held" /\ ~completed
      BY <1>22, <1>q, <2>3 DEF TakeRequest, RequestShape
    <3> QED
      BY <1>W, <2>1, <2>2, <3>1, <3>2 DEF PortInv
  <2>4. CASE IsLive(Head(requests)) /\ boundary
    <3>1. Requested
      <4>1. 1 \in 1 .. Len(requests) /\ Head(requests) = requests[1]
        BY <1>p, <2>1, SMTT(20) DEF PortType
      <4> QED
        BY <2>4, <4>1 DEF Requested, IsLive
    <3> QED
      BY <1>W, <2>4, <3>1 DEF PortInv
  <2>5. CASE ~IsLive(Head(requests))
    <3>1. UNCHANGED <<write, completed, serving>> /\ pending # Head(requests)
      BY <1>22, <2>5 DEF TakeRequest, IsLive
    <3> QED
      BY <1>W, <2>1, <2>2, <3>1 DEF PortInv
  <2> QED
    BY <2>3, <2>4, <2>5
<1>23. CASE GuestWrite
  <2>1. written' = written + 1 /\ ~boundary /\ UnitsActive /\ UNCHANGED <<boundary, serving, op, present>>
    BY <1>23 DEF GuestWrite, GuestRuns
  <2>2. CASE Duplicate
    <3>1. UNCHANGED <<pending, write, completed, requests>>
      BY <1>23, <2>2 DEF GuestWrite
    <3>2. \A i \in 1 .. Len(requests') : requests'[i] <= written'
      <4>1. \A i \in 1 .. Len(requests) : requests[i] <= written /\ requests[i] \in Nat
        BY <1>W, <1>p, WorkerAssumption, SMTT(20) DEF PortType, PortInv
      <4>2. written \in Nat
        BY <1>p, WorkerAssumption, SMTT(20) DEF PortType
      <4> QED
        BY <2>1, <3>1, <4>1, <4>2, SMTT(20)
    <3> QED
      BY <1>W, <2>1, <3>1, <3>2 DEF PortInv
  <2>3. CASE ~Duplicate
    <3>1. /\ pending' = written + 1 /\ write' = "held" /\ completed' = FALSE
          /\ requests' = Append(requests, written + 1)
      BY <1>23, <2>3 DEF GuestWrite
    <3>2. serving # "Boundary"
      BY <1>W, <2>3 DEF Duplicate, PortInv
    <3>3. /\ \A i \in 1 .. Len(requests') : requests'[i] <= written'
          /\ \A i, j \in 1 .. Len(requests') : i < j => requests'[i] < requests'[j]
          /\ Requested'
      BY <1>W, <1>p, <2>1, <3>1, RequestSent DEF PortInv, PortType
    <3> HIDE DEF Requested
    <3> QED
      BY <2>1, <3>1, <3>2, <3>3 DEF PortInv
  <2> QED
    BY <2>2, <2>3
<1>24. CASE PortPoll
  <2>1. completed /\ serving # "Boundary" /\ UNCHANGED <<written, requests, serving>>
    BY <1>24, <1>W DEF PortPoll, PortInv
  <2>2. pending' = 0 /\ write' = "held" /\ completed' = FALSE
    BY <1>24, <2>1 DEF PortPoll
  <2> QED
    BY <1>W, <1>p, <2>1, <2>2, PortFreed DEF PortInv, PortType
<1>25. CASE UNCHANGED <<requests, written, pending, write, completed, boundary, serving, op,
     present>>
  BY <1>25, <1>W DEF PortInv
<1>26. CASE SendInput \/ Gated \/ Ready \/ Go \/ HandleInput \/ InputTimeout \/ SendRestart
            \/ (\E m \in Clients : SendRpc(m))
  BY <1>26, <1>25 DEF SendInput, Gated, InputDone, Advance, Ready, Go, HandleInput,
       InputTimeout, SendRestart, SendRpc
<1> QED
  BY <1>1, <1>2, <1>3, <1>4, <1>5, <1>6, <1>7, <1>8, <1>9, <1>10, <1>11, <1>12, <1>13, <1>14,
       <1>15, <1>16, <1>17, <1>18, <1>19, <1>20, <1>21, <1>22, <1>23, <1>24, <1>26, EndCases,
       LostSteps DEF WorkerNext, StepWorker, TakeEvent

(* Each RPC is in the channel or in hand once. *)
LEMMA QueueKept ==
  ASSUME Held, WorkerNext, Alive', UNCHANGED <<storeVars, controllerVars>>
  PROVE  QueueInv'
<1>Q. QueueInv
  BY DEF Held, Types, WorkerInv
<1>k. UNCHANGED controller
  BY DEF controllerVars
<1>c. ChannelType
  BY DEF Held, Types, WorkerInv
<1> USE DEF Ended, At, Listening, lifecycleVars, flagVars, taskVars, inputVars, channelVars,
     portVars
<1>1. CASE RefuseStep
  BY <1>1, <1>Q, <1>k, QueueReturn, QueueIdle DEF RefuseStep, Fail
<1>2. CASE Ended(Unassigned)
  BY <1>2, <1>Q, <1>k, QueueReturn, QueueIdle DEF Unassigned, Fail
<1>3. CASE Ended(StartFailed)
  BY <1>3, <1>Q, <1>k, QueueReturn, QueueIdle DEF StartFailed, Fail
<1>4. CASE Ended(QuiesceFailed)
  BY <1>4, <1>Q, <1>k, QueueReturn, QueueIdle DEF QuiesceFailed
<1>5. CASE Ended(ResumeFailed)
  BY <1>5, <1>Q, <1>k, QueueReturn, QueueIdle DEF ResumeFailed, Fail
<1>6. CASE Ended(StatefulFailed)
  BY <1>6, <1>Q, <1>k, QueueReturn, QueueIdle DEF StatefulFailed, Fail
<1>7. CASE GateFailed
  BY <1>7, <1>Q, <1>k, QueueReturn, QueueIdle DEF GateFailed, Fail
<1>8. CASE Ungated
  BY <1>8, <1>Q, <1>k, QueueReturn, QueueIdle DEF Ungated
<1>9. CASE UngateFailed
  BY <1>9, <1>Q, <1>k, QueueIdle DEF UngateFailed, Break
<1>10. CASE ReleaseFailed
  BY <1>10, <1>Q, <1>k, QueueReturn, QueueIdle DEF ReleaseFailed, Fail
<1>11. CASE AtBoundary
  BY <1>11, <1>Q, <1>k, QueueIdle DEF AtBoundary
<1>12. CASE BoundaryFailed
  BY <1>12, <1>Q, <1>k, QueueIdle DEF BoundaryFailed, Break
<1>13. CASE HostStep
  BY <1>13, <1>Q, <1>k, QueueReturn, QueueIdle DEF HostStep, Fail, Advance
<1>14. CASE FailStep
  BY <1>14, <1>Q, <1>k, QueueReturn, QueueIdle DEF FailStep, Fail
<1>15. CASE Complete
  BY <1>15, <1>Q, <1>k, QueueReturn, QueueIdle DEF Complete
<1>16. CASE TakeRpc
  <2> DEFINE m == Head(rpcs)
  <2>1. rpcs # <<>> /\ rpcs' = Tail(rpcs) /\ serving = "none" /\ UNCHANGED Awaited
    BY <1>16, <1>k DEF TakeRpc, Awaited
  <2>2. /\ \A i \in 1 .. Len(rpcs') :
              IF rpcs'[i] \in ControllerRpcs
              THEN rpcs'[i] = Awaited /\ reply = "none" /\ m \notin ControllerRpcs
              ELSE rpcs'[i] = client /\ m \in ControllerRpcs
        /\ \A i, j \in 1 .. Len(rpcs') : rpcs'[i] = rpcs'[j] => i = j
        /\ IF m \in ControllerRpcs THEN m = Awaited /\ reply = "none" ELSE m = client
    BY <1>Q, <1>c, <2>1, QueueRest DEF ChannelType, Replies, ClientRpcs, ControllerRpcs
  <2>3. \/ /\ serving' = serving /\ (m \notin ControllerRpcs => reply' = reply)
           /\ m \notin ClientRpcs => client' = client
        \/ serving' = m /\ UNCHANGED <<reply, client>>
    BY <1>16 DEF TakeRpc
  <2>4. serving \notin ClientRpcs \cup ControllerRpcs /\ (m \in ClientRpcs => m \notin ControllerRpcs)
    BY <2>1, RpcSets
  <2> HIDE DEF m
  <2> QED
    BY <1>Q, <2>1, <2>2, <2>3, <2>4 DEF QueueInv
<1>17. CASE TakeOrder
  BY <1>17, <1>Q, <1>k, QueueIdle DEF TakeOrder, Break
<1>18. CASE TakeRequest
  BY <1>18, <1>Q, <1>k, QueueIdle DEF TakeRequest
<1>19. CASE GateExpires
  BY <1>19, <1>Q, <1>k, QueueIdle DEF GateExpires, Break
<1>20. CASE \E m \in Clients : SendRpc(m)
  BY <1>20, <1>Q, <1>c, <1>k, QueueSend, WorkerAssumption DEF ChannelType, Replies, ClientRpcs,
       ControllerRpcs
<1>21. CASE UNCHANGED <<rpcs, reply, serving, client>>
  BY <1>21, <1>Q, <1>k, QueueIdle
<1>22. CASE BeginStep \/ Ended(Stopped) \/ Ended(Started) \/ Ended(Quiesced) \/ Ended(Resumed)
            \/ Ended(StatefulOk) \/ SendInput \/ Gated \/ Released \/ Ready \/ Go \/ GuestWrite
            \/ PortPoll \/ HandleInput \/ InputTimeout \/ SendRestart
  BY <1>22, <1>21 DEF BeginStep, BeginStop, BeginStart, BeginQuiesce, BeginResume,
       BeginStateful, EnterOp, EnterIf, Crash, MayStart, MayResume, Free, Stopped, StopOk,
       Finish, AllIn, Advance, PortStop, During, Started, StartOk, Quiesced, QuiesceOk, Resumed,
       ResumeOk, StatefulOk, StatefulDone, SendInput, Gated, InputDone, Released, Ready, Go,
       GuestWrite, Duplicate, GuestRuns, PortPoll, HandleInput, InputTimeout, SendRestart
<1> QED
  BY <1>1, <1>2, <1>3, <1>4, <1>5, <1>6, <1>7, <1>8, <1>9, <1>10, <1>11, <1>12, <1>13, <1>14,
       <1>15, <1>16, <1>17, <1>18, <1>19, <1>20, <1>22, EndCases, LostSteps DEF WorkerNext,
            StepWorker, TakeEvent

(* Exactly one party answers for a boundary. *)
LEMMA BoundaryKept ==
  ASSUME Held, WorkerNext, Alive', UNCHANGED <<storeVars, controllerVars>>
  PROVE  BoundaryInv'
<1>s. StepShape
  BY StepFacts
<1>o. OpShape
  BY OpFacts
<1>k. UNCHANGED controller
  BY DEF controllerVars
<1>B. BoundaryInv
  BY DEF Held, Types, WorkerInv
<1>Q. QueueInv
  BY DEF Held, Types, WorkerInv
<1>U. UnitInv
  BY DEF Held, Types, WorkerInv
<1>r. ReleaseShape
  BY ReleaseFacts
<1>S. ScriptInv
  BY DEF Held, Types, WorkerInv
<1>z. QuiesceShape
  BY QuiesceFacts
<1>I. InputInv
  BY DEF Held, Types, WorkerInv
<1>x. RpcShape
  BY RpcFacts
<1>P. ProfileInv
  BY DEF Held, Types, WorkerInv
<1>c. ChannelType
  BY DEF Held, Types, WorkerInv
<1> USE DEF Agree, Up, Down, Taking, Starters, Resets, Releasers, InputHeld, Ended, At,
     Listening, lifecycleVars, flagVars, taskVars, inputVars, channelVars, portVars
<1>1. CASE Ended(Unassigned) \/ Ended(Started) \/ Ended(StartFailed) \/ Gated \/ GateFailed
           \/ Ungated \/ UngateFailed \/ BoundaryFailed \/ Ready \/ Go
  <2>1. serving \notin Releasers \cup {"none", "ReadMemory", "QuiesceForSnapshot"}
    <3>1. CASE Ended(Unassigned) \/ Ended(Started) \/ Ended(StartFailed)
      BY <3>1, <1>s, <1>o DEF Unassigned, Started, StartOk, StartFailed, StartErr, During,
           StepShape, Pre, Follows, Owner, Ends, OpShape
    <3>2. CASE ~(Ended(Unassigned) \/ Ended(Started) \/ Ended(StartFailed))
      BY <1>1, <3>2, <1>s DEF Gated, GateFailed, Ungated, UngateFailed, BoundaryFailed, Ready,
           Go, StepShape, Pre, Follows, Owner, Ends
    <3> QED
      BY <3>1, <3>2
  <2>2. /\ UNCHANGED <<controller, boundary, notices, condemned>>
        /\ serving \in ControllerRpcs \/ reply' = reply
    BY <1>1, <1>k DEF Unassigned, StopOk, Started, StartOk, StartFailed, StartErr, Gated,
         GateFailed, Ungated, UngateFailed, BoundaryFailed, Ready, Go, Fail, Return
  <2>3. ~boundary /\ (reply' = reply \/ reply = "none")
    BY <1>B, <1>Q, <2>1, <2>2 DEF BoundaryInv, QueueInv
  <2> QED
    BY <1>B, <1>U, <2>1, <2>2, <2>3, FarSteps DEF UnitInv
<1>2. CASE RefuseStep
  <2>1. /\ UNCHANGED <<controller, boundary, notices, condemned, input, lag>> /\ serving' = "none"
        /\ serving \in ControllerRpcs \/ reply' = reply
    BY <1>2, <1>k DEF RefuseStep, Fail, Return
  <2>2. CASE ~boundary
    BY <1>2, <1>B, <1>U, <1>Q, <2>1, <2>2, FarSteps DEF QueueInv, RefuseStep, UnitInv
  <2>3. CASE boundary
    <3>1. serving = "ResumeAfterFailedSnapshot" /\ steps # <<>>
      BY <1>2, <1>s, <1>B, <2>3 DEF BoundaryInv, RefuseStep, StepShape, Pre, Follows, Owner,
           Ends
    <3>2. reply' = "err"
      BY <1>2, <3>1 DEF RefuseStep, Fail, Return, ControllerRpcs
    <3>3. controller \in {"release", "rollback"} /\ reply = "none"
      BY <1>r, <3>1 DEF ReleaseShape, Releasers
    <3> QED
      BY <1>B, <2>1, <2>3, <3>2, <3>3, AnsweredCall
  <2> QED
    BY <2>2, <2>3
<1>3. CASE Ended(Stopped)
  <2>1. serving \notin Releasers \cup {"ReadMemory", "QuiesceForSnapshot"}
    BY <1>3, <1>s, <1>o DEF Stopped, StopOk, During, StepShape, Pre, Follows, Owner, Ends,
         OpShape
  <2>2. UNCHANGED <<controller, boundary, notices, condemned, reply, input, lag, serving, worker>>
    BY <1>3, <1>k DEF Stopped, StopOk, Advance
  <2>3. CASE ~boundary
    BY <1>B, <1>U, <2>1, <2>2, <2>3, FarSteps DEF UnitInv
  <2>4. CASE boundary
    <3>1. serving = "none" /\ worker # "up"
      BY <1>3, <1>B, <1>S, <1>o, <2>1, <2>4 DEF BoundaryInv, Stopped, StopOk, During, ScriptInv,
           Pre, OpShape
    <3> QED
      BY <1>B, <2>2, <2>4, <3>1, NearSteps
  <2> QED
    BY <2>3, <2>4
<1>4. CASE Ended(Quiesced)
  <2>1. serving = "QuiesceForSnapshot"
    BY <1>4, <1>s, <1>o DEF Quiesced, QuiesceOk, During, StepShape, Pre, Follows, Owner, Ends,
         OpShape
  <2>2. UNCHANGED <<controller, boundary, notices, condemned, reply, input, lag, serving, worker>>
    BY <1>4, <1>k DEF Quiesced, QuiesceOk, Advance
  <2>3. boundary /\ ~Unanswered'
    BY <1>z, <2>1, <2>2 DEF QuiesceShape, Unanswered, Aside, ControllerRpcs
  <2> QED
    BY <1>B, <2>1, <2>2, <2>3, NearSteps
<1>5. CASE Ended(QuiesceFailed)
  <2>1. serving = "QuiesceForSnapshot"
    BY <1>5, <1>s, <1>o DEF QuiesceFailed, QuiesceErr, During, StepShape, Pre, Follows, Owner,
         Ends, OpShape
  <2>2. /\ UNCHANGED <<controller, boundary, notices, input, lag>> /\ serving' = "none"
        /\ reply' = IF "Uncertain" \in present' THEN "Uncertain" ELSE "RollbackSafe"
        /\ condemned' = (condemned \/ "Uncertain" \in present')
    BY <1>5, <1>k, <2>1 DEF QuiesceFailed, QuiesceErr, Finish, Return, ControllerRpcs
  <2>3. boundary /\ controller = "quiesce" /\ reply = "none"
    BY <1>z, <2>1 DEF QuiesceShape
  <2> QED
    BY <1>B, <2>2, <2>3, AnsweredCall
<1>6. CASE Ended(Resumed)
  <2>1. serving = "ResumeAfterFailedSnapshot" /\ steps # <<>> /\ Tail(steps) # <<>>
    BY <1>6, <1>s, <1>o DEF Resumed, ResumeOk, During, StepShape, Pre, Follows, Owner, Ends,
         OpShape
  <2>2. /\ UNCHANGED <<controller, boundary, notices, condemned, reply, input, lag, serving, worker>>
        /\ steps' = Tail(steps)
    BY <1>6, <1>k DEF Resumed, ResumeOk, Advance
  <2>3. boundary /\ ~Unanswered'
    BY <1>r, <2>1, <2>2 DEF ReleaseShape, Releasers, Unanswered, Aside, ControllerRpcs
  <2> QED
    BY <1>B, <2>1, <2>2, <2>3, NearSteps
<1>7. CASE Ended(ResumeFailed)
  <2>1. serving = "ResumeAfterFailedSnapshot" /\ steps # <<>>
    BY <1>7, <1>s, <1>o DEF ResumeFailed, ResumeErr, During, StepShape, Pre, Follows, Owner,
         Ends, OpShape
  <2>2. UNCHANGED <<controller, boundary, notices, input, lag>> /\ serving' = "none" /\ reply' = "err"
    BY <1>7, <1>k, <2>1 DEF ResumeFailed, Fail, Return, ControllerRpcs
  <2>3. boundary /\ controller = "rollback" /\ reply = "none"
    BY <1>r, <1>Q, <2>1 DEF ReleaseShape, Releasers, QueueInv, Awaited, ControllerRpcs
  <2> QED
    BY <1>B, <2>2, <2>3, AnsweredCall
<1>8. CASE Ended(StatefulOk)
  <2>1. serving \notin Releasers \cup {"ReadMemory", "none"}
    BY <1>8, <1>s, <1>o DEF StatefulOk, StatefulDone, During, StepShape, Pre, Follows, Owner,
         Ends, OpShape
  <2>2. UNCHANGED <<controller, boundary, notices, condemned, reply, input, lag, serving, worker>>
    BY <1>8, <1>k DEF StatefulOk, StatefulDone, Advance
  <2>3. CASE ~boundary
    BY <1>B, <1>U, <2>1, <2>2, <2>3, FarSteps DEF UnitInv
  <2>4. CASE boundary
    <3>1. serving = "QuiesceForSnapshot"
      BY <1>B, <2>1, <2>4 DEF BoundaryInv
    <3>2. ~Unanswered'
      BY <1>z, <2>2, <3>1 DEF QuiesceShape, Unanswered, Aside, ControllerRpcs
    <3> QED
      BY <1>B, <2>2, <2>4, <3>1, <3>2, NearSteps
  <2> QED
    BY <2>3, <2>4
<1>9. CASE Ended(StatefulFailed)
  <2>1. serving \notin Releasers \cup {"ReadMemory", "none"}
    BY <1>9, <1>s, <1>o DEF StatefulFailed, StatefulDone, During, StepShape, Pre, Follows,
         Owner, Ends, OpShape
  <2>2. /\ UNCHANGED <<controller, boundary, notices, condemned, input, lag>>
        /\ serving \in ControllerRpcs \/ reply' = reply
    BY <1>9, <1>k DEF StatefulFailed, StatefulDone, Fail, Return
  <2>3. CASE ~boundary
    BY <1>B, <1>U, <1>Q, <2>1, <2>2, <2>3, FarSteps DEF QueueInv, UnitInv
  <2>4. CASE boundary
    <3>1. serving = "QuiesceForSnapshot"
      BY <1>B, <2>1, <2>4 DEF BoundaryInv
    <3>2. serving' = "none" /\ reply' = "RollbackSafe"
      BY <1>9, <3>1 DEF StatefulFailed, Fail, Return, ControllerRpcs
    <3>3. controller = "quiesce" /\ reply = "none"
      BY <1>z, <3>1 DEF QuiesceShape
    <3> QED
      BY <1>B, <2>2, <2>4, <3>2, <3>3, AnsweredCall
  <2> QED
    BY <2>3, <2>4
<1>10. CASE SendInput
  <2>1. UNCHANGED <<controller, boundary, notices, condemned, reply, serving, steps, worker, input, vmRunning, unitsRunning, present>>
    BY <1>10, <1>k DEF SendInput
  <2>2. CASE ~boundary
    BY <1>10, <1>B, <1>U, <2>1, <2>2, FarSteps DEF SendInput, UnitInv
  <2>3. CASE boundary
    <3>1. serving \in Releasers /\ steps # <<>>
      BY <1>10, <1>s, <1>B, <2>3 DEF SendInput, BoundaryInv, StepShape, Pre, Follows, Owner,
           Ends
    <3>2. controller \in {"release", "rollback"} /\ reply = "none"
      BY <1>r, <3>1 DEF ReleaseShape
    <3> QED
      BY <1>B, <2>1, <2>3, <3>1, <3>2 DEF BoundaryInv, Aside, Unanswered, Up
  <2> QED
    BY <2>2, <2>3
<1>11. CASE Released
  <2>1. /\ UNCHANGED <<controller, notices, condemned, reply, serving>> /\ boundary' = FALSE
        /\ serving \in Releasers /\ steps # <<>> /\ steps' = <<>>
    BY <1>11, <1>k, <1>s DEF Released, Advance, StepShape, Pre, Follows, Owner, Ends
  <2>2. controller \in {"release", "rollback"} /\ reply = "none"
    BY <1>r, <2>1 DEF ReleaseShape
  <2> QED
    BY <1>B, <2>1, <2>2 DEF BoundaryInv, Aside
<1>12. CASE ReleaseFailed
  <2>1. serving \in Releasers /\ steps # <<>>
    BY <1>12, <1>s DEF ReleaseFailed, StepShape, Pre, Follows, Owner, Ends
  <2>2. /\ UNCHANGED <<controller, boundary, notices, condemned, input, lag>> /\ serving' = "none"
        /\ reply' = "err"
    BY <1>12, <1>k, <2>1 DEF ReleaseFailed, InputDone, Fail, Return, ControllerRpcs
  <2>3. boundary /\ controller \in {"release", "rollback"} /\ reply = "none"
    BY <1>r, <2>1 DEF ReleaseShape
  <2> QED
    BY <1>B, <2>2, <2>3, AnsweredCall
<1>13. CASE AtBoundary
  <2>1. /\ UNCHANGED <<controller, reply, condemned, input, lag, vmRunning, unitsRunning, present>>
        /\ boundary' = TRUE /\ notices' = notices + 1 /\ serving' = "none"
        /\ serving = "Boundary" /\ Taking({"vps"})
    BY <1>13, <1>k, <1>s DEF AtBoundary, Taking, StepShape, Pre, Follows, Owner, Ends
  <2>2. ~boundary /\ Aside /\ notices = 0
    BY <1>B, <2>1 DEF BoundaryInv
  <2>3. InputHeld /\ Up /\ present = {"Running"} /\ ~condemned
    BY <1>I, <1>U, <2>1, <2>2 DEF InputInv, UnitInv
  <2>4. Aside' /\ InputHeld' /\ Up' /\ present' = {"Running"} /\ ~condemned' /\ controller' # "quiesce"
    BY <2>1, <2>2, <2>3 DEF Aside, InputHeld, Up
  <2>5. notices' = 1
    BY SMTT(20), <2>1, <2>2
  <2> QED
    BY <2>1, <2>4, <2>5 DEF BoundaryInv
<1>14. CASE HostStep
  <2>1. serving \notin Releasers \cup {"ReadMemory", "none"}
    BY <1>14, <1>s DEF HostStep, StepShape, Pre, Follows, Owner, Ends
  <2>2. /\ UNCHANGED <<controller, boundary, notices, condemned, input, lag>>
        /\ serving \in ControllerRpcs \/ reply' = reply
    BY <1>14, <1>k DEF HostStep, Fail, Return, DropUnits
  <2>3. CASE ~boundary
    BY <1>B, <1>U, <1>Q, <2>1, <2>2, <2>3, FarSteps DEF QueueInv, UnitInv
  <2>4. CASE boundary
    <3>1. serving = "QuiesceForSnapshot"
      BY <1>B, <2>1, <2>4 DEF BoundaryInv
    <3>2. controller = "quiesce" /\ reply = "none"
      BY <1>z, <3>1 DEF QuiesceShape
    <3>3. CASE Fail
      <4>1. serving' = "none" /\ reply' = "RollbackSafe"
        BY <3>1, <3>3 DEF Fail, Return, ControllerRpcs
      <4> QED
        BY <1>B, <2>2, <2>4, <3>2, <4>1, AnsweredCall
    <3>4. CASE Advance /\ UNCHANGED channelVars
      <4>1. UNCHANGED <<serving, reply>>
        BY <3>4 DEF Advance
      <4>2. ~Unanswered'
        BY <2>2, <3>1, <3>2, <4>1 DEF Unanswered, Aside, ControllerRpcs
      <4> QED
        BY <1>B, <2>2, <2>4, <3>1, <4>1, <4>2, NearSteps
    <3> QED
      BY <1>14, <3>3, <3>4 DEF HostStep
  <2> QED
    BY <2>3, <2>4
<1>15. CASE FailStep
  <2>1. /\ UNCHANGED <<controller, boundary, notices, condemned, input, lag>> /\ serving' = "none"
        /\ serving \in ControllerRpcs \/ reply' = reply
    BY <1>15, <1>k DEF FailStep, Fail, Return
  <2>2. CASE ~boundary
    BY <1>15, <1>B, <1>U, <1>Q, <2>1, <2>2, FarSteps DEF QueueInv, FailStep, UnitInv
  <2>3. CASE boundary
    <3>1. serving \in Releasers /\ steps # <<>>
      BY <1>15, <1>s, <1>B, <2>3 DEF BoundaryInv, FailStep, StepShape, Pre, Follows, Owner, Ends
    <3>2. reply' = "err"
      BY <1>15, <3>1 DEF FailStep, Fail, Return, ControllerRpcs
    <3>3. controller \in {"release", "rollback"} /\ reply = "none"
      BY <1>r, <3>1 DEF ReleaseShape
    <3> QED
      BY <1>B, <2>1, <2>3, <3>2, <3>3, AnsweredCall
  <2> QED
    BY <2>2, <2>3
<1>16. CASE Complete
  <2>1. /\ UNCHANGED <<controller, boundary, notices, condemned, input, lag, worker, vmRunning, unitsRunning, present>>
        /\ serving' = "none" /\ steps = <<>>
        /\ reply' = IF serving \in ControllerRpcs THEN "ok" ELSE reply
    BY <1>16, <1>k DEF Complete, Return
  <2>2. CASE ~boundary /\ serving \notin Releasers
    BY <1>B, <1>U, <1>Q, <2>1, <2>2, FarSteps DEF QueueInv, UnitInv
  <2>3. CASE serving \in Releasers
    <3>1. controller \in {"release", "rollback"} /\ reply = "none" /\ reply' = "ok"
      BY <1>Q, <2>1, <2>3 DEF QueueInv, Awaited, ControllerRpcs
    <3>2. ~Aside /\ Aside'
      BY <2>1, <3>1 DEF Aside
    <3>3. ~boundary /\ notices = 0 /\ ~condemned
      BY <1>B, <2>1, <2>3, <3>1, <3>2 DEF BoundaryInv
    <3> QED
      BY <2>1, <3>1, <3>2, <3>3 DEF BoundaryInv
  <2>4. CASE serving = "QuiesceForSnapshot"
    <3>1. boundary /\ controller = "quiesce" /\ reply = "none" /\ reply' = "ok"
      BY <1>z, <2>1, <2>4 DEF QuiesceShape, ControllerRpcs
    <3> QED
      BY <1>B, <2>1, <3>1, AnsweredCall
  <2>5. CASE boundary /\ serving = "ReadMemory"
    <3>1. serving \notin ControllerRpcs /\ serving' \notin Releasers
      BY <2>1, <2>5 DEF ControllerRpcs
    <3>2. reply' = reply /\ (Unanswered' => Unanswered)
      BY <2>1, <3>1 DEF Unanswered, Aside
    <3> QED
      BY <1>B, <2>1, <2>5, <3>1, <3>2, NearSteps
  <2>6. serving # "none"
    BY <1>16 DEF Complete
  <2> QED
    BY <1>B, <2>2, <2>3, <2>4, <2>5, <2>6 DEF BoundaryInv
<1>17. CASE TakeRpc
  <2> DEFINE m == Head(rpcs)
  <2>1. /\ UNCHANGED <<controller, boundary, notices, condemned, input, lag, worker, vmRunning, unitsRunning>>
        /\ serving = "none" /\ m \in ClientRpcs \cup ControllerRpcs
        /\ m \in ControllerRpcs => m = Awaited /\ reply = "none"
        /\ m \in ControllerRpcs \/ reply' = reply
    BY <1>17, <1>k, <1>x DEF TakeRpc, RpcShape, AddUnit, DropUnits
  <2>2. CASE ~boundary
    <3>1. serving \notin Releasers
      BY <2>1
    <3>2. reply' = reply \/ reply = "none"
      BY <2>1
    <3> QED
      BY <1>B, <1>U, <2>1, <2>2, <3>1, <3>2, FarSteps DEF UnitInv
  <2>3. CASE boundary
    <3>1. microvm
      BY <1>P, <2>3 DEF ProfileInv
    <3>2. m = "QuiesceForSnapshot" => vmRunning
      BY <1>17, <1>x DEF TakeRpc, RpcShape
    <3>3. CASE m \in Releasers \cup {"ReadMemory", "QuiesceForSnapshot"}
      <4>1. Refusal(m) = "none"
        BY <2>3, <3>1, <3>2, <3>3 DEF Refusal, Filtered
      <4>2. /\ serving' = m /\ steps' = Script(m) /\ UNCHANGED <<reply, present>>
        BY <1>17, <3>3, <4>1 DEF TakeRpc
      <4>3. Unanswered' => Unanswered
        BY <2>1, <4>2, RpcSets DEF Unanswered, Aside
      <4> HIDE DEF m
      <4>4. m \in Releasers => Script(m) # <<>>
        BY ScriptChain
      <4> QED
        BY <1>B, <2>1, <2>3, <3>3, <4>2, <4>3, <4>4, NearSteps
    <3>4. CASE m \notin Releasers \cup {"ReadMemory", "QuiesceForSnapshot"}
      <4>1. Refusal(m) # "none"
        BY <2>3, <3>4 DEF Refusal, Filtered
      <4>2. UNCHANGED <<serving, steps, present>>
        BY <1>17, <4>1 DEF TakeRpc
      <4> HIDE DEF m
      <4>3. m \in ControllerRpcs => controller \in {"reset", "pausing", "saving"}
        BY <2>1, <3>4 DEF Awaited, ControllerRpcs
      <4>4. (Aside' <=> Aside) /\ (Unanswered' => Unanswered) /\ (controller = "quiesce" => reply' = reply)
        BY <2>1, <4>2, <4>3 DEF Aside, Unanswered
      <4>5. condemned => reply' = reply
        BY <1>B, <2>1, <4>3 DEF BoundaryInv
      <4> QED
        BY <1>B, <2>1, <2>3, <4>2, <4>4, <4>5 DEF BoundaryInv, InputHeld, Up
    <3> QED
      BY <3>3, <3>4
  <2> QED
    BY <2>2, <2>3
<1>18. CASE TakeOrder
  <2>1. /\ UNCHANGED <<controller, boundary, notices, condemned, reply, input, lag, vmRunning, unitsRunning, present>>
        /\ serving = "none"
    BY <1>18, <1>k DEF TakeOrder
  <2>2. CASE ~boundary
    <3>1. serving \notin Releasers
      BY <2>1
    <3> QED
      BY <1>B, <1>U, <2>1, <2>2, <3>1, FarSteps DEF UnitInv
  <2>3. CASE boundary
    <3>1. Head(orders) # "Restart"
      <4>1. 1 \in 1 .. Len(orders) /\ Head(orders) = orders[1]
        BY <1>18, <1>c, SMTT(20) DEF TakeOrder, ChannelType, Replies, ClientRpcs, ControllerRpcs
      <4> QED
        BY <1>P, <2>3, <4>1 DEF ProfileInv
    <3>2. serving' = "none" /\ worker' # "up" /\ serving' \notin Releasers
      BY <1>18, <3>1 DEF TakeOrder, Break
    <3> QED
      BY <1>B, <2>1, <2>3, <3>2, NearSteps
  <2> QED
    BY <2>2, <2>3
<1>19. CASE TakeRequest
  <2>1. /\ UNCHANGED <<controller, boundary, notices, condemned, reply, input, lag, vmRunning, unitsRunning, present>>
        /\ serving = "none"
    BY <1>19, <1>k DEF TakeRequest
  <2>2. CASE ~boundary
    <3>1. serving \notin Releasers
      BY <2>1
    <3> QED
      BY <1>B, <1>U, <2>1, <2>2, <3>1, FarSteps DEF UnitInv
  <2>3. CASE boundary
    <3>1. UNCHANGED <<serving, steps, worker>>
      BY <1>19, <2>3 DEF TakeRequest
    <3>2. serving' \notin Releasers /\ (Unanswered' => Unanswered)
      BY <2>1, <3>1 DEF Unanswered, Aside
    <3> QED
      BY <1>B, <2>1, <2>3, <3>1, <3>2, NearSteps
  <2> QED
    BY <2>2, <2>3
<1>20. CASE GateExpires
  <2>1. /\ UNCHANGED <<controller, boundary, notices, condemned, reply, input, lag, vmRunning, unitsRunning, present>>
        /\ serving = "none"
    BY <1>20, <1>k DEF GateExpires
  <2>2. CASE ~boundary
    <3>1. serving \notin Releasers
      BY <2>1
    <3> QED
      BY <1>B, <1>U, <2>1, <2>2, <3>1, FarSteps DEF UnitInv
  <2>3. CASE boundary
    <3>1. serving' = "none" /\ worker' # "up" /\ serving' \notin Releasers
      BY <1>20 DEF GateExpires, Break
    <3> QED
      BY <1>B, <2>1, <2>3, <3>1, NearSteps
  <2> QED
    BY <2>2, <2>3
<1>21. CASE HandleInput
  <2>1. /\ UNCHANGED <<controller, boundary, notices, condemned, reply, serving, steps, worker, vmRunning, unitsRunning, present>>
        /\ lag # <<>>
    BY <1>21, <1>k DEF HandleInput
  <2> QED
    BY <1>B, <2>1 DEF BoundaryInv, Aside, Unanswered, InputHeld, Up
<1>22. CASE UNCHANGED <<boundary, serving, reply, notices, steps, input, lag, worker,
     vmRunning, unitsRunning, present, condemned>>
  BY <1>22, <1>B, <1>k DEF BoundaryInv, Aside, Unanswered, InputHeld, Up
<1>23. CASE BeginStep \/ GuestWrite \/ PortPoll \/ InputTimeout \/ SendRestart
            \/ (\E m \in Clients : SendRpc(m))
  BY <1>23, <1>22 DEF BeginStep, BeginStop, BeginStart, BeginQuiesce, BeginResume,
       BeginStateful, EnterOp, EnterIf, Crash, MayStart, MayResume, Free, GuestWrite, Duplicate,
       GuestRuns, PortPoll, InputTimeout, SendRestart, SendRpc
<1> QED
  BY <1>1, <1>2, <1>3, <1>4, <1>5, <1>6, <1>7, <1>8, <1>9, <1>10, <1>11, <1>12, <1>13, <1>14,
       <1>15, <1>16, <1>17, <1>18, <1>19, <1>20, <1>21, <1>23, EndCases, LostSteps
            DEF WorkerNext, StepWorker, TakeEvent

-----------------------------------------------------------------------------
(* The capture. *)

(* Only a handler that ends well answers "ok". *)
LEMMA OnlyCompleteOk ==
  ASSUME Held, WorkerNext, reply' = "ok", reply # "ok"
  PROVE  Complete \/ Teardown
<1> USE DEF Ended, channelVars
<1>1. CASE RefuseStep \/ Ended(Unassigned) \/ Ended(StartFailed) \/ Ended(QuiesceFailed)
           \/ Ended(ResumeFailed) \/ Ended(StatefulFailed)
  BY <1>1 DEF RefuseStep, Fail, Return, Unassigned, StopOk, StartFailed, StartErr,
       QuiesceFailed, QuiesceErr, ResumeFailed, ResumeErr, StatefulFailed, StatefulDone
<1>7. CASE GateFailed
  BY <1>7 DEF GateFailed, Fail, Return
<1>8. CASE Ungated
  <2>1. serving = "Boundary"
    BY <1>8, StepFacts DEF StepShape, Owner, Ungated, At
  <2>2. serving \notin ControllerRpcs
    BY <2>1 DEF ControllerRpcs
  <2> QED
    BY <1>8, <2>2 DEF Ungated, Return
<1>9. CASE ReleaseFailed \/ HostStep \/ FailStep
  BY <1>9 DEF ReleaseFailed, Fail, Return, HostStep, Advance, FailStep
<1>12. CASE TakeRpc
  <2>1. Refusal(Head(rpcs)) # "ok"
    BY DEF Refusal
  <2> QED
    BY <1>12, <2>1 DEF TakeRpc
<1>13. CASE BeginStep \/ Serialize \/ UnitLost \/ SendInput \/ Gated \/ UngateFailed \/
     Released \/ AtBoundary \/ BoundaryFailed \/ Ready \/ Go \/ TakeOrder
  BY <1>13 DEF BeginStep, Serialize, UnitLost, SendInput, Gated, UngateFailed, Released,
       AtBoundary, BoundaryFailed, Ready, Go, TakeOrder
<1>14. CASE TakeRequest \/ GateExpires \/ GuestWrite \/ PortPoll \/ HandleInput \/
     InputTimeout \/ SendRestart \/ (\E m \in Clients : SendRpc(m))
  BY <1>14 DEF TakeRequest, GateExpires, GuestWrite, PortPoll, HandleInput, InputTimeout,
       SendRestart, SendRpc
<1>15. CASE Ended(Stopped) \/ Ended(Started) \/ Ended(Quiesced) \/ Ended(Resumed) \/
     Ended(StatefulOk)
  BY <1>15 DEF Stopped, Started, Quiesced, Resumed, StatefulOk
<1> QED
  BY <1>1, <1>7, <1>8, <1>9, <1>12, <1>13, <1>14, <1>15, EndCases DEF WorkerNext,
       StepWorker, TakeEvent

(* Between two steps the worker only takes events. *)
LEMMA OnlyEvents ==
  ASSUME Held, WorkerNext, Alive', steps = <<>>
  PROVE  \/ Complete \/ TakeEvent \/ GuestWrite \/ PortPoll \/ HandleInput \/ InputTimeout
         \/ SendRestart \/ \E m \in Clients : SendRpc(m)
<1>1. \A names : ~At(names)
  BY DEF At
<1>2. op = "idle"
  BY OpFacts DEF OpShape
<1>3. ~BeginStep /\ ~RefuseStep
  BY <1>1 DEF BeginStep, RefuseStep
<1>4. ~SendInput /\ ~Gated /\ ~GateFailed /\ ~Ungated /\ ~UngateFailed /\ ~Released /\ ~ReleaseFailed
  BY <1>1 DEF SendInput, Gated, GateFailed, Ungated, UngateFailed, Released, ReleaseFailed
<1>5. ~AtBoundary /\ ~BoundaryFailed /\ ~Ready /\ ~Go /\ ~HostStep /\ ~FailStep
  BY <1>1 DEF AtBoundary, BoundaryFailed, Ready, Go, HostStep, FailStep
<1>6. ~EndStep
  <2>1. \A kind \in Operations : ~During(kind)
    BY <1>2 DEF During, Operations, Stateful
  <2>2. {"start", "stop", "quiesce", "resume"} \subseteq Operations /\ Stateful \subseteq Operations
    BY DEF Operations
  <2>3. ~Stopped /\ ~Unassigned /\ ~Started /\ ~StartFailed /\ ~Quiesced /\ ~QuiesceFailed
    BY <2>1, <2>2 DEF Stopped, Unassigned, Started, StartFailed, Quiesced, QuiesceFailed,
       StopOk, StartOk, StartErr, QuiesceOk, QuiesceErr
  <2>4. ~Resumed /\ ~ResumeFailed /\ ~StatefulOk /\ ~StatefulFailed
    BY <2>1, <2>2 DEF Resumed, ResumeFailed, StatefulOk, StatefulFailed, ResumeOk, ResumeErr,
       StatefulDone
  <2> QED
    BY <2>3, <2>4 DEF EndStep
<1> QED
  BY <1>3, <1>4, <1>5, <1>6, LostSteps DEF WorkerNext, StepWorker

LEMMA CaptureKept ==
  ASSUME Held, WorkerNext, Alive', UNCHANGED <<storeVars, controllerVars>>
  PROVE  CaptureInv'
<1> DEFINE Due == controller = "publish" \/ (controller = "quiesce" /\ reply = "ok") \/ alias \/ place = "dest"
<1>k. UNCHANGED <<controller, publishing, outcome, alias, place>>
  BY DEF storeVars, controllerVars, publisherVars, directoryVars
<1>C. CaptureInv
  BY DEF Held, WorkerInv
<1> SUFFICES Due' => Captured'
  BY <1>k, <1>C DEF CaptureInv
<1>1. CASE Due
  <2>1. Captured /\ steps = <<>> /\ boundary /\ ~vmRunning /\ serving \in {"none", "ReadMemory"}
    BY <1>1, <1>C DEF CaptureInv, Captured, Down
  <2>2. Awaited = "none" \/ reply # "none"
    BY <1>1, <1>C DEF CaptureInv, Awaited
  <2>3. microvm
    BY <2>1 DEF Held, WorkerInv, ProfileInv
  <2>4. CASE Complete
    BY <2>4, <2>1 DEF Complete, Return, Captured, Down, lifecycleVars, flagVars
  <2>5. CASE TakeRpc
    <3> DEFINE m == Head(rpcs)
    <3>1. /\ m \in ClientRpcs \cup ControllerRpcs /\ m \notin ControllerRpcs
      BY <2>2, <2>5, RpcFacts DEF RpcShape, TakeRpc, Awaited, ControllerRpcs
    <3>2. UNCHANGED <<boundary, vmRunning>>
      BY <2>5 DEF TakeRpc, flagVars
    <3>3. CASE Refusal(m) # "none"
      BY <3>3, <2>1, <2>5, <3>2 DEF TakeRpc, Captured, Down, lifecycleVars
    <3>4. CASE Refusal(m) = "none"
      <4>1. m = "ReadMemory"
        BY <2>1, <3>1, <3>4 DEF Refusal, Filtered, ControllerRpcs
      <4>2. Script(m) = <<>>
        BY <4>1 DEF Script
      <4>3. serving' = m /\ steps' = <<>> /\ UNCHANGED lifecycleVars
        BY <2>5, <3>4, <4>1, <4>2 DEF TakeRpc
      <4> QED
        BY <2>1, <3>2, <4>1, <4>3 DEF Captured, Down, lifecycleVars
    <3> QED
      BY <3>3, <3>4
  <2>6. CASE Break /\ UNCHANGED <<lifecycleVars, flagVars>>
    <3>1. PauseSteps = <<>>
      BY <2>1 DEF PauseSteps
    <3> QED
      BY <2>1, <2>6, <3>1 DEF Break, Captured, Down, lifecycleVars, flagVars
  <2>7. CASE UNCHANGED <<boundary, vmRunning, unitsRunning, present, steps, serving>>
    BY <2>1, <2>7 DEF Captured, Down
  <2>8. CASE TakeOrder
    <3>1. Head(orders) # "Restart"
      <4>1. 1 \in 1 .. Len(orders) /\ Head(orders) = orders[1]
        BY SMTT(20), <2>8 DEF Held, Types, ChannelType, TakeOrder
      <4> QED
        BY <2>3, <4>1 DEF Held, WorkerInv, ProfileInv
    <3> QED
      BY <2>6, <2>8, <3>1 DEF TakeOrder
  <2>9. CASE GateExpires
    BY <2>9, <2>6 DEF GateExpires
  <2>10. CASE TakeRequest
    BY <2>10, <2>1, <2>7 DEF TakeRequest, lifecycleVars, flagVars
  <2>11. CASE GuestWrite \/ PortPoll \/ HandleInput \/ InputTimeout \/ SendRestart
             \/ \E m \in Clients : SendRpc(m)
    BY <2>7, <2>11 DEF GuestWrite, PortPoll, HandleInput, InputTimeout, SendRestart, SendRpc,
       lifecycleVars, flagVars, taskVars
  <2> QED
    BY <2>1, <2>4, <2>5, <2>8, <2>9, <2>10, <2>11, OnlyEvents DEF TakeEvent
<1>2. CASE ~Due /\ Due'
  <2>1. controller = "quiesce" /\ reply' = "ok" /\ reply # "ok"
    BY <1>k, <1>2
  <2>2. Complete
    BY <2>1, OnlyCompleteOk, LostSteps
  <2>3. serving \in ControllerRpcs /\ steps = <<>> /\ serving' = "none" /\ steps' = <<>>
    BY <2>1, <2>2 DEF Complete, Return
  <2>4. serving = "QuiesceForSnapshot"
    BY <2>1, <2>3 DEF Held, WorkerInv, QueueInv, Awaited
  <2>5. boundary /\ Down /\ present = {"Stopped"}
    BY <2>3, <2>4, QuiesceFacts DEF QuiesceShape, Held, WorkerInv, UnitInv, Taking
  <2> QED
    BY <2>2, <2>3, <2>5 DEF Complete, Captured, Down, lifecycleVars, flagVars
<1> QED
  BY <1>1, <1>2

-----------------------------------------------------------------------------
(* Types. *)

(* The port's numbers. *)
LEMMA PortNumbers ==
  /\ PortType => /\ MaxWrites \in Nat /\ written \in Nat /\ written <= MaxWrites /\ pending \in Nat
                  /\ 0 \in 0 .. written /\ pending \in 0 .. written
  /\ PortType /\ written < MaxWrites =>
        /\ written + 1 \in 0 .. MaxWrites /\ written + 1 \in 1 .. MaxWrites
        /\ pending \in 0 .. written + 1 /\ written + 1 \in 0 .. written + 1
<1>1. MaxWrites \in Nat
  BY WorkerAssumption
<1> SUFFICES ASSUME written \in 0 .. MaxWrites, pending \in 0 .. written
             PROVE  /\ written \in Nat /\ written <= MaxWrites /\ pending \in Nat /\ 0 \in 0 .. written
                    /\ written < MaxWrites =>
                          /\ written + 1 \in 0 .. MaxWrites /\ written + 1 \in 1 .. MaxWrites
                          /\ pending \in 0 .. written + 1 /\ written + 1 \in 0 .. written + 1
  BY <1>1 DEF PortType
<1> QED
  BY SMTT(20), <1>1

LEMMA PortStopType ==
  ASSUME PortType, UNCHANGED portVars \/ PortStop
  PROVE  PortType'
BY PortNumbers DEF PortType, PortStop, portVars

LEMMA InputTail ==
  ASSUME InputType, lag # <<>>
  PROVE  Tail(lag) \in Seq({"quiesce", "resume"}) /\ Head(lag) \in {"quiesce", "resume"}
BY SMTT(20) DEF InputType

LEMMA LifecycleTypeKept ==
  ASSUME Held, WorkerNext
  PROVE  LifecycleType'
<1>t. LifecycleType
  BY DEF Held, Types
<1> USE DEF LifecycleType, Settled, Operations, Stateful, Ended, lifecycleVars
<1>1. CASE BeginStep
  <2>1. /\ crashed' \in BOOLEAN /\ UNCHANGED <<present, unitsRunning, condemned>>
        /\ op' \in {op, "stop", "start", "quiesce", "resume", Head(steps)}
    BY <1>1, <1>t DEF BeginStep, BeginStop, BeginStart, BeginQuiesce, BeginResume, BeginStateful,
       EnterOp, EnterIf, Crash
  <2>2. op' = Head(steps) /\ op' # op => op' \in {"stop", "start", "quiesce", "resume"} \/ At(Stateful)
    BY <1>1 DEF BeginStep, BeginStop, BeginStart, BeginQuiesce, BeginResume, BeginStateful,
       EnterOp, EnterIf, Crash, At
  <2> QED
    BY <1>t, <2>1, <2>2 DEF At
<1>2. CASE HostStep \/ Serialize \/ UnitLost \/ TakeRpc
  BY <1>2, <1>t DEF HostStep, Advance, Fail, Return, DropUnits, Serialize, Crash, UnitLost,
       LoseUnit, TakeRpc, AddUnit
<1>5. CASE Ended(Stopped) \/ Ended(Unassigned) \/ Ended(Started) \/ Ended(StartFailed)
           \/ Ended(Quiesced) \/ Ended(QuiesceFailed)
  BY <1>5, <1>t DEF Stopped, StopOk, Finish, AllIn, Advance, Unassigned, Fail, Return, Started,
       StartOk, StartFailed, StartErr, Quiesced, QuiesceOk, QuiesceFailed, QuiesceErr
<1>7. CASE Ended(Resumed) \/ Ended(ResumeFailed) \/ Ended(StatefulOk) \/ Ended(StatefulFailed)
  BY <1>7, <1>t DEF Resumed, ResumeOk, Finish, AllIn, Advance, ResumeFailed, ResumeErr, Fail,
       Return, StatefulOk, StatefulDone, StatefulFailed
<1>9. CASE UNCHANGED lifecycleVars
  BY <1>9, <1>t
<1>10. CASE RefuseStep \/ SendInput \/ Gated \/ GateFailed \/ Ungated \/ UngateFailed \/
     Released \/ ReleaseFailed \/ AtBoundary
  BY <1>10, <1>9 DEF RefuseStep, Fail, Return, SendInput, Gated, InputDone, Advance,
       GateFailed, Ungated, UngateFailed, Break, Released, ReleaseFailed, AtBoundary
<1>11. CASE BoundaryFailed \/ Ready \/ Go \/ FailStep \/ Complete \/ TakeOrder \/
     TakeRequest \/ GateExpires \/ GuestWrite
  BY <1>11, <1>9 DEF BoundaryFailed, Break, Ready, Advance, Go, FailStep, Fail, Return,
       Complete, TakeOrder, TakeRequest, GateExpires, GuestWrite
<1>12. CASE PortPoll \/ HandleInput \/ InputTimeout \/ SendRestart \/
     (\E m \in Clients : SendRpc(m)) \/ Teardown
  BY <1>12, <1>9 DEF PortPoll, HandleInput, InputTimeout, SendRestart, SendRpc, Teardown
<1> QED
  BY <1>1, <1>2, <1>5, <1>7, <1>10, <1>11, <1>12, EndCases DEF WorkerNext, StepWorker,
       TakeEvent

LEMMA FlagTypeKept ==
  ASSUME Held, WorkerNext
  PROVE  FlagType'
<1>t. FlagType
  BY DEF Held, Types
<1> USE DEF FlagType, Ended, flagVars
<1>1. CASE Gated
  BY <1>1, <1>t DEF Gated, InputDone, Advance
<1>2. CASE Released \/ AtBoundary
  BY <1>2, <1>t DEF Released, InputDone, Advance, AtBoundary
<1>3. CASE Ready \/ Go
  BY <1>3, <1>t DEF Ready, Go, Advance
<1>4. CASE Ended(Stopped) \/ Ended(Unassigned) \/ Ended(Started) \/ Ended(StartFailed) \/
     Ended(Quiesced)
  <2>1. UNCHANGED <<microvm, boundary, gateTimeout, gateDeadline, inputGated, startGuard, readySink>>
    BY <1>4
  <2>2. /\ vmRunning' \in {vmRunning, TRUE, FALSE}
        /\ restartFailed' \in {restartFailed, restartFailed \/ serving = "Restart"}
    BY <1>4 DEF Stopped, Unassigned, Started, StartFailed, Quiesced, QuiesceFailed, Resumed,
       ResumeFailed, StatefulOk, StatefulFailed
  <2> QED
    BY <1>t, <2>1, <2>2
<1>5. CASE Ended(QuiesceFailed) \/ Ended(Resumed) \/ Ended(ResumeFailed) \/
     Ended(StatefulOk) \/ Ended(StatefulFailed)
  <2>1. UNCHANGED <<microvm, boundary, gateTimeout, gateDeadline, inputGated, startGuard, readySink>>
    BY <1>5
  <2>2. /\ vmRunning' \in {vmRunning, TRUE, FALSE}
        /\ restartFailed' \in {restartFailed, restartFailed \/ serving = "Restart"}
    BY <1>5 DEF Stopped, Unassigned, Started, StartFailed, Quiesced, QuiesceFailed, Resumed,
       ResumeFailed, StatefulOk, StatefulFailed
  <2> QED
    BY <1>t, <2>1, <2>2
<1>6. CASE UNCHANGED flagVars
  BY <1>6, <1>t
<1>7. CASE BeginStep \/ RefuseStep \/ SendInput \/ GateFailed \/ Ungated \/
     UngateFailed \/ ReleaseFailed \/ BoundaryFailed \/ HostStep
  BY <1>7, <1>6 DEF BeginStep, BeginStop, BeginStart, BeginQuiesce, BeginResume,
       BeginStateful, EnterOp, EnterIf, Crash, RefuseStep, Fail, Return, SendInput, GateFailed,
       InputDone, Ungated, UngateFailed, Break, ReleaseFailed, BoundaryFailed, HostStep,
       Advance, DropUnits
<1>8. CASE FailStep \/ Complete \/ TakeRpc \/ TakeOrder \/ TakeRequest \/ GateExpires \/
     GuestWrite \/ PortPoll \/ HandleInput
  BY <1>8, <1>6 DEF FailStep, Fail, Return, Complete, TakeRpc, AddUnit, DropUnits,
       TakeOrder, Break, TakeRequest, GateExpires, GuestWrite, PortPoll, HandleInput
<1>9. CASE InputTimeout \/ SendRestart \/ (\E m \in Clients : SendRpc(m)) \/ Serialize \/
     Teardown \/ UnitLost
  BY <1>9, <1>6 DEF InputTimeout, SendRestart, SendRpc, Serialize, Crash, Teardown,
       UnitLost, LoseUnit
<1> QED
  BY <1>1, <1>2, <1>3, <1>4, <1>5, <1>7, <1>8, <1>9, EndCases DEF WorkerNext, StepWorker, TakeEvent

LEMMA InputTypeKept ==
  ASSUME Held, WorkerNext
  PROVE  InputType'
<1>t. InputType
  BY DEF Held, Types
<1> USE DEF InputType, Ended, inputVars
<1>1. CASE HandleInput \/ InputTimeout \/ SendInput
  <2>1. CASE HandleInput
    BY <2>1, <1>t, InputTail DEF HandleInput
  <2>2. CASE InputTimeout
    BY <2>2, <1>t, InputTail DEF InputTimeout
  <2>3. CASE SendInput
    BY <2>3, <1>t, InputTail DEF SendInput
  <2> QED
    BY <1>1, <2>1, <2>2, <2>3
<1>4. CASE Gated \/ GateFailed \/ Ungated \/ UngateFailed \/ Released \/ ReleaseFailed
  BY <1>4, <1>t, InputTail DEF Gated, InputDone, Advance, GateFailed, Fail, Return, Ungated,
       UngateFailed, Break, Released, ReleaseFailed
<1>6. CASE UNCHANGED inputVars
  BY <1>6, <1>t
<1>7. CASE BeginStep \/ RefuseStep \/ Ended(Stopped) \/ Ended(Unassigned) \/
     Ended(Started) \/ Ended(StartFailed) \/ Ended(Quiesced) \/ Ended(QuiesceFailed) \/
     Ended(Resumed)
  BY <1>7, <1>6 DEF BeginStep, BeginStop, BeginStart, BeginQuiesce, BeginResume,
       BeginStateful, EnterOp, EnterIf, Crash, RefuseStep, Fail, Return, Stopped, StopOk,
       Finish, AllIn, Advance, Unassigned, Started, StartOk, StartFailed, StartErr, Quiesced,
       QuiesceOk, QuiesceFailed, QuiesceErr, Resumed, ResumeOk
<1>8. CASE Ended(ResumeFailed) \/ Ended(StatefulOk) \/ Ended(StatefulFailed) \/
     AtBoundary \/ BoundaryFailed \/ Ready \/ Go \/ HostStep \/ FailStep
  BY <1>8, <1>6 DEF ResumeFailed, ResumeErr, Finish, Fail, Return, StatefulOk,
       StatefulDone, Advance, StatefulFailed, AtBoundary, BoundaryFailed, Break, Ready, Go,
       HostStep, DropUnits, FailStep
<1>9. CASE Complete \/ TakeRpc \/ TakeOrder \/ TakeRequest \/ GateExpires \/ GuestWrite \/
     PortPoll \/ SendRestart \/ (\E m \in Clients : SendRpc(m))
  BY <1>9, <1>6 DEF Complete, Return, TakeRpc, AddUnit, DropUnits, TakeOrder, Break,
       TakeRequest, GateExpires, GuestWrite, PortPoll, SendRestart, SendRpc
<1>10. CASE Serialize \/ Teardown \/ UnitLost
  BY <1>10, <1>6 DEF Serialize, Crash, Teardown, UnitLost, LoseUnit
<1> QED
  BY <1>1, <1>4, <1>7, <1>8, <1>9, <1>10, EndCases DEF WorkerNext, StepWorker, TakeEvent

LEMMA PortTypeKept ==
  ASSUME Held, WorkerNext
  PROVE  PortType'
<1>t. PortType
  BY DEF Held, Types
<1>w. MaxWrites \in Nat /\ written \in Nat
  BY SMTT(20), <1>t, WorkerAssumption DEF PortType
<1> USE DEF PortType, Ended, portVars
<1>1. CASE GuestWrite
  <2>1. Append(requests, written + 1) \in Seq(1 .. MaxWrites)
    BY SMTT(20), <1>1, <1>t, PortNumbers DEF GuestWrite
  <2> QED
    BY <1>1, <1>t, <2>1, PortNumbers DEF GuestWrite
<1>2. CASE PortPoll
  BY <1>2, <1>t, PortNumbers DEF PortPoll
<1>3. CASE TakeRequest
  <2>1. Tail(requests) \in Seq(1 .. MaxWrites)
    BY SMTT(20), <1>3, <1>t DEF TakeRequest
  <2> QED
    BY <1>3, <1>t, <2>1 DEF TakeRequest
<1>4. CASE Ungated \/ UngateFailed \/ BoundaryFailed \/ Released \/ AtBoundary
  BY <1>4, <1>t, <1>w DEF Ungated, InputDone, Return, UngateFailed, Break, BoundaryFailed,
       Released, Advance, AtBoundary
<1>6. CASE Ended(Stopped) \/ Ended(Unassigned) \/ Ended(Started) \/ Ended(StartFailed) \/
     Ended(Quiesced) \/ Ended(QuiesceFailed) \/ Ended(Resumed) \/ Ended(ResumeFailed) \/
     Ended(StatefulOk) \/ Ended(StatefulFailed)
  BY <1>6, <1>t, PortStopType
<1>7. CASE UNCHANGED portVars
  BY <1>7, <1>t
<1>8. CASE BeginStep \/ RefuseStep \/ SendInput \/ Gated \/ GateFailed \/ ReleaseFailed \/
     Ready \/ Go \/ HostStep
  BY <1>8, <1>7 DEF BeginStep, BeginStop, BeginStart, BeginQuiesce, BeginResume,
       BeginStateful, EnterOp, EnterIf, Crash, RefuseStep, Fail, Return, SendInput, Gated,
       InputDone, Advance, GateFailed, ReleaseFailed, Ready, Go, HostStep, DropUnits
<1>9. CASE FailStep \/ Complete \/ TakeRpc \/ TakeOrder \/ GateExpires \/ HandleInput \/
     InputTimeout \/ SendRestart \/ (\E m \in Clients : SendRpc(m))
  BY <1>9, <1>7 DEF FailStep, Fail, Return, Complete, TakeRpc, AddUnit, DropUnits,
       TakeOrder, Break, GateExpires, HandleInput, InputTimeout, SendRestart, SendRpc
<1>10. CASE Serialize \/ Teardown \/ UnitLost
  BY <1>10, <1>7 DEF Serialize, Crash, Teardown, UnitLost, LoseUnit
<1> QED
  BY <1>1, <1>2, <1>3, <1>4, <1>6, <1>8, <1>9, <1>10, EndCases DEF WorkerNext,
       StepWorker, TakeEvent

LEMMA ChannelTypeKept ==
  ASSUME Held, WorkerNext
  PROVE  ChannelType'
<1>t. ChannelType
  BY DEF Held, Types
<1> USE DEF ChannelType, Replies, Ended, channelVars
<1>1. CASE (\E m \in Clients : SendRpc(m))
  <2>1. PICK m \in Clients : SendRpc(m)
    BY <1>1
  <2>2. m \in ClientRpcs
    BY WorkerAssumption
  <2> QED
    BY SMTT(20), <1>t, <2>1, <2>2 DEF SendRpc
<1>2. CASE SendRestart
  BY SMTT(20), <1>2, <1>t DEF SendRestart
<1>3. CASE Teardown
  BY SMTT(20), <1>3, <1>t DEF Teardown
<1>4. CASE AtBoundary
  BY SMTT(20), <1>4, <1>t DEF AtBoundary
<1>5. CASE TakeOrder
  BY SMTT(20), <1>5, <1>t DEF TakeOrder, Break
<1>6. CASE TakeRpc
  <2>1. /\ rpcs' = Tail(rpcs) /\ rpcs # <<>> /\ UNCHANGED <<orders, notices>>
        /\ client' \in {client, "idle"} /\ reply' \in {reply, Refusal(Head(rpcs))}
    BY <1>6 DEF TakeRpc
  <2> QED
    BY SMTT(20), <1>t, <2>1 DEF Refusal
<1>7. CASE RefuseStep \/ ReleaseFailed \/ FailStep \/ Ungated
  BY <1>7, <1>t DEF RefuseStep, Fail, Return, ReleaseFailed, InputDone, FailStep, Ungated
<1>8. CASE Complete \/ GateFailed \/ HostStep
  BY <1>8, <1>t DEF Complete, Return, GateFailed, InputDone, Fail, HostStep, Advance, DropUnits
<1>9. CASE Ended(Stopped) \/ Ended(Unassigned) \/ Ended(Started) \/ Ended(StartFailed) \/
     Ended(Quiesced)
  BY <1>9, <1>t DEF Stopped, StopOk, Finish, AllIn, Advance, Unassigned, Fail, Return, Started,
       StartOk, StartFailed, StartErr, Quiesced, QuiesceOk
<1>10. CASE Ended(QuiesceFailed) \/ Ended(Resumed) \/ Ended(ResumeFailed) \/
     Ended(StatefulOk) \/ Ended(StatefulFailed)
  BY <1>10, <1>t DEF QuiesceFailed, QuiesceErr, Finish, Return, Resumed, ResumeOk, AllIn,
       Advance, ResumeFailed, ResumeErr, Fail, StatefulOk, StatefulDone, StatefulFailed
<1>11. CASE UNCHANGED channelVars
  BY <1>11, <1>t
<1>12. CASE BeginStep \/ SendInput \/ Gated \/ UngateFailed \/ Released \/
     BoundaryFailed \/ Ready \/ Go \/ TakeRequest
  BY <1>12, <1>11 DEF BeginStep, BeginStop, BeginStart, BeginQuiesce, BeginResume,
       BeginStateful, EnterOp, EnterIf, Crash, SendInput, Gated, InputDone, Advance,
       UngateFailed, Break, Released, BoundaryFailed, Ready, Go, TakeRequest
<1>13. CASE GateExpires \/ GuestWrite \/ PortPoll \/ HandleInput \/ InputTimeout \/
     Serialize \/ UnitLost
  BY <1>13, <1>11 DEF GateExpires, Break, GuestWrite, PortPoll, HandleInput,
       InputTimeout, Serialize, Crash, UnitLost, LoseUnit
<1> QED
  BY <1>1, <1>2, <1>3, <1>4, <1>5, <1>6, <1>7, <1>8, <1>9, <1>10, <1>12, <1>13, EndCases DEF WorkerNext,
       StepWorker, TakeEvent

(* The steps that can lose a worker leave its task as it was. *)
LEMMA OnlyLostSteps ==
  ASSUME Held, WorkerNext, ~Alive'
  PROVE  BeginStep \/ Serialize \/ UnitLost \/ Teardown
<1>a. Alive
  BY DEF Held
<1> USE DEF Alive, Ended, taskVars, lifecycleVars
<1>1. CASE RefuseStep \/ Ended(Stopped) \/ Ended(Unassigned) \/ Ended(Started) \/
     Ended(StartFailed)
  BY <1>1, <1>a DEF RefuseStep, Fail, Return, Stopped, StopOk, Finish, AllIn, Advance,
       Unassigned, Started, StartOk, StartFailed, StartErr
<1>2. CASE Ended(Quiesced) \/ Ended(QuiesceFailed) \/ Ended(Resumed) \/
     Ended(ResumeFailed) \/ Ended(StatefulOk)
  BY <1>2, <1>a DEF Quiesced, QuiesceOk, Finish, AllIn, Advance, QuiesceFailed,
       QuiesceErr, Return, Resumed, ResumeOk, ResumeFailed, ResumeErr, Fail, StatefulOk,
       StatefulDone
<1>3. CASE Ended(StatefulFailed) \/ SendInput \/ Gated \/ GateFailed \/ Ungated
  BY <1>3, <1>a DEF StatefulFailed, StatefulDone, Finish, Fail, Return, SendInput, Gated,
       InputDone, Advance, GateFailed, Ungated
<1>4. CASE UngateFailed \/ Released \/ ReleaseFailed \/ AtBoundary \/ BoundaryFailed
  BY <1>4, <1>a DEF UngateFailed, InputDone, Break, Released, Advance, ReleaseFailed,
       Fail, Return, AtBoundary, BoundaryFailed
<1>5. CASE Ready \/ Go \/ HostStep \/ FailStep \/ Complete
  BY <1>5, <1>a DEF Ready, Advance, Go, HostStep, Fail, Return, DropUnits, FailStep,
       Complete
<1>6. CASE TakeRpc \/ TakeOrder \/ TakeRequest \/ GateExpires \/ GuestWrite
  BY <1>6, <1>a DEF TakeRpc, AddUnit, DropUnits, TakeOrder, Break, TakeRequest,
       GateExpires, GuestWrite
<1>7. CASE PortPoll \/ HandleInput \/ InputTimeout \/ SendRestart \/
     (\E m \in Clients : SendRpc(m))
  BY <1>7, <1>a DEF PortPoll, HandleInput, InputTimeout, SendRestart, SendRpc
<1> QED
  BY <1>1, <1>2, <1>3, <1>4, <1>5, <1>6, <1>7, EndCases DEF WorkerNext, StepWorker,
       TakeEvent

LEMMA OnlyLost ==
  ASSUME Held, WorkerNext, ~Alive'
  PROVE  UNCHANGED <<serving, steps>>
BY OnlyLostSteps DEF BeginStep, Serialize, UnitLost, Teardown, taskVars

LEMMA TaskTypeKept ==
  ASSUME Held, WorkerNext, Alive' => ScriptInv'
  PROVE  TaskType'
<1>t. TaskType /\ ChannelType
  BY DEF Held, Types
<1>1. steps' \in Seq(Steps)
  <2>1. CASE Alive'
    BY <2>1 DEF ScriptInv, Chain, Links
  <2>2. CASE ~Alive'
    <3>1. steps' = steps
      BY <2>2, OnlyLost
    <3> QED
      BY <1>t, <3>1 DEF TaskType
  <2> QED
    BY <2>1, <2>2
<1>2. CASE TakeRpc
  <2>1. serving' \in {serving, Head(rpcs)} /\ worker' = worker /\ rpcs # <<>>
    BY <1>2 DEF TakeRpc
  <2> QED
    BY SMTT(20), <1>t, <1>1, <2>1 DEF TaskType, ChannelType
<1>3. CASE /\ serving' \in {serving, "none", "Boundary", "Restart"}
           /\ worker' \in {worker, "ending", "gone"}
  BY <1>t, <1>1, <1>3 DEF TaskType

<1>4. CASE BeginStep \/ RefuseStep \/ Ended(Stopped) \/ Ended(Unassigned) \/
     Ended(Started) \/ Ended(StartFailed)
  BY <1>4, <1>3 DEF BeginStep, BeginStop, BeginStart, BeginQuiesce, BeginResume,
       BeginStateful, EnterOp, EnterIf, Crash, RefuseStep, Fail, Return, Stopped, StopOk,
       Finish, AllIn, Advance, Unassigned, Started, StartOk, StartFailed, StartErr, Ended,
       taskVars
<1>5. CASE Ended(Quiesced) \/ Ended(QuiesceFailed) \/ Ended(Resumed) \/
     Ended(ResumeFailed) \/ Ended(StatefulOk) \/ Ended(StatefulFailed)
  BY <1>5, <1>3 DEF Quiesced, QuiesceOk, Finish, AllIn, Advance, QuiesceFailed,
       QuiesceErr, Return, Resumed, ResumeOk, ResumeFailed, ResumeErr, Fail, StatefulOk,
       StatefulDone, StatefulFailed, Ended, taskVars
<1>6. CASE SendInput \/ Gated \/ GateFailed \/ Ungated \/ UngateFailed \/ Released
  BY <1>6, <1>3 DEF SendInput, Gated, InputDone, Advance, GateFailed, Fail, Return,
       Ungated, UngateFailed, Break, Released, Ended, taskVars
<1>7. CASE ReleaseFailed \/ AtBoundary \/ BoundaryFailed \/ Ready \/ Go \/ HostStep
  BY <1>7, <1>3 DEF ReleaseFailed, InputDone, Fail, Return, AtBoundary, BoundaryFailed,
       Break, Ready, Advance, Go, HostStep, DropUnits, Ended, taskVars
<1>8. CASE FailStep \/ Complete \/ TakeOrder \/ TakeRequest \/ GateExpires \/ GuestWrite
  BY <1>8, <1>3 DEF FailStep, Fail, Return, Complete, TakeOrder, Break, TakeRequest,
       GateExpires, GuestWrite, Ended, taskVars
<1>9. CASE PortPoll \/ HandleInput \/ InputTimeout \/ SendRestart \/
     (\E m \in Clients : SendRpc(m)) \/ Serialize
  BY <1>9, <1>3 DEF PortPoll, HandleInput, InputTimeout, SendRestart, SendRpc, Serialize,
       Crash, Ended, taskVars
<1>10. CASE Teardown \/ UnitLost
  BY <1>10, <1>3 DEF Teardown, UnitLost, LoseUnit, Crash, Ended, taskVars
<1> QED
  BY <1>2, <1>4, <1>5, <1>6, <1>7, <1>8, <1>9, <1>10, EndCases DEF WorkerNext,
       StepWorker, TakeEvent

LEMMA TypesKept ==
  ASSUME Held, WorkerNext, Alive' => ScriptInv'
  PROVE  Types'
BY LifecycleTypeKept, FlagTypeKept, InputTypeKept, PortTypeKept, ChannelTypeKept, TaskTypeKept
   DEF Types

=============================================================================
