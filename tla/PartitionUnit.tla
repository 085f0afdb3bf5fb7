--------------------------- MODULE PartitionUnit ----------------------------
(***************************************************************************)
(* The partition state unit (vmm_core/src/partition_unit.rs and its        *)
(* snapshot.rs and debug.rs): one task that owns the VP set and serves, in  *)
(* no particular order, the state changes of the VM worker, the worker's    *)
(* own requests, the halts raised by VPs and devices, and a debugger.       *)
(*                                                                         *)
(* The VPs may run while the unit is started, no halt is recorded and no   *)
(* stop reference is held.  Every await of the task on the VPs is a step of *)
(* its own here, so that the VPs, the devices and the worker interleave     *)
(* with it exactly where the code lets them.                               *)
(***************************************************************************)
EXTENDS VpSet

CONSTANTS
    Calls,       \* the calls the VM worker makes
    MaxGuards,   \* bound on the StopGuards the worker holds or just dropped
    HaltSources, \* the reasons devices halt the VM for
    AsyncHalts,  \* whether they also do so on their own account
    Debugger,    \* whether a debugger may connect
    Inspects     \* whether the unit is inspected

StateRequests == {"Start", "Stop", "Reset", "Save", "Restore"}
PartitionRequests == {"ClearHalt", "SetInitialRegs", "AcceptInitialPages", "StopVps",
                      "StopVpsAtIoBoundary", "Timers", "BuildDump"}

ASSUME PartitionAssumption ==
    /\ Calls \subseteq StateRequests \cup PartitionRequests \cup {"Teardown"}
    /\ MaxGuards \in Nat
    /\ HaltSources \subseteq Reasons
    /\ AsyncHalts \in BOOLEAN /\ Debugger \in BOOLEAN /\ Inspects \in BOOLEAN

VARIABLES
    (* PartitionUnitRunner *)
    pc,            \* what the task awaits; "loop" is its select
    inHand,        \* the halt reason being handled
    todo,          \* VPs a dump has yet to visit
    unitStarted, vpStopCount, needsReset,
    haltReason,    \* halt_reason is some reason
    hasRegs,       \* initial_regs is some state
    frozen,        \* the partition's reference time is frozen
    (* the VM worker *)
    call,          \* its outstanding call, or "none"
    guards,        \* the StopGuards of temporarily_stop_vps it holds
    startVps,      \* StartVps requests that dropped guards queued
    boundary,      \* the snapshot boundary's stop reference
    (* DebuggerState and the debugger's connection *)
    attached, haltReported,
    armed,         \* debug_notify_halt, and whether its receiver is there
    dbg,           \* what the debugger does next
    notice,        \* it was sent a stop reason it has not read
    (* observations *)
    seen           \* who was told of the recorded halt

taskVars == <<pc, inHand, todo>>
unitVars == <<unitStarted, vpStopCount, needsReset, haltReason, hasRegs, frozen>>
hostVars == <<call, guards, startVps, boundary>>
debugVars == <<attached, haltReported, armed, dbg, notice, seen>>
vars == <<vpSetVars, taskVars, unitVars, hostVars, debugVars>>

PcStates == {"loop", "halt", "replay", "stop", "drain", "drainReplay", "stopVps", "boundary",
             "reset", "save", "restore", "scrub", "setRegs", "timers", "dumpStop", "dump",
             "debug", "teardown", "ended"}

(* Every variable has its type; none of the counts goes below zero.        *)
TypeOK ==
    /\ VpTypeOK
    /\ pc \in PcStates
    /\ inHand \in Reasons \cup {"none"}
    /\ todo \subseteq VPs
    /\ unitStarted \in BOOLEAN /\ needsReset \in BOOLEAN /\ haltReason \in BOOLEAN
    /\ hasRegs \in BOOLEAN /\ frozen \in BOOLEAN
    /\ vpStopCount \in Nat /\ guards \in 0 .. MaxGuards /\ startVps \in Nat
    /\ call \in Calls \cup {"none"}
    /\ boundary \in {"none", "stopping", "held", "failed"}
    /\ attached \in BOOLEAN /\ haltReported \in BOOLEAN /\ notice \in BOOLEAN
    /\ armed \in {"none", "live", "dead"}
    /\ dbg \in {"off", "resume", "break", "running", "stopped"}
    /\ seen \subseteq {"client", "debugger"}

Init ==
    /\ VpInit
    /\ pc = "loop" /\ inHand = "none" /\ todo = {}
    /\ unitStarted = FALSE /\ vpStopCount = 0 /\ needsReset = FALSE
    /\ haltReason = FALSE /\ hasRegs = FALSE /\ frozen = FALSE
    /\ call = "none" /\ guards = 0 /\ startVps = 0 /\ boundary = "none"
    /\ attached = FALSE /\ haltReported = FALSE /\ armed = "none"
    /\ dbg = "off" /\ notice = FALSE /\ seen = {}

-----------------------------------------------------------------------------
(* Helpers of the handlers. *)

Reply == call' = "none"

(* Variant: the stop references are not consulted. *)
MayRunIgnoringStops(unit, halted, stops) == unit /\ ~halted

(* try_start: its condition, on the flags' new values, and its effect but   *)
(* for needs_reset, which the handlers set as well.                        *)
MayRun(unit, halted, stops) == unit /\ ~halted /\ stops = 0

TryStart(may) ==
    IF may
    THEN Start /\ frozen' = FALSE
    ELSE UNCHANGED <<started, queue, frozen>>

(* report_halt_to_debugger: it reports only through an armed notification, *)
(* which a debugger that went away does not receive.                       *)
ReportToDebugger ==
    /\ armed' = "none"
    /\ haltReported' = (haltReported \/ armed # "none")
    /\ notice' = (notice \/ armed = "live")
    /\ seen' = IF armed = "live" THEN {"debugger"} ELSE {}

(* record_halt *)
RecordHalt ==
    /\ haltReason' = TRUE
    /\ IF attached
       THEN ReportToDebugger
       ELSE seen' = {"client"} /\ UNCHANGED <<armed, haltReported, notice>>
    /\ UNCHANGED <<attached, dbg>>

(* PartitionUnitRunner::clear_halt *)
ClearHalt ==
    IF haltReason
    THEN /\ haltReason' = FALSE /\ seen' = {}
         /\ panic' = ~ClearHaltAsserts
         /\ haltCount' = haltCount - 1
         /\ TryStart(MayRun(unitStarted, FALSE, vpStopCount))
    ELSE UNCHANGED <<haltReason, seen, panic, haltCount, started, queue, frozen>>

ClearHaltStarts == haltReason /\ MayRun(unitStarted, FALSE, vpStopCount)

(* Clears the halt in hand without touching the recorded one. *)
DropHalt == panic' = ~ClearHaltAsserts /\ haltCount' = haltCount - 1

(* A request of the worker is served after the StartVps it sent before. *)
Requested(c) == pc = "loop" /\ call = c /\ startVps = 0

StateRequested(c) == pc = "loop" /\ call = c

VpsAnswered == awaiting = {}

-----------------------------------------------------------------------------
(* Halts. *)

(* "Wait for the VPs to stop before reporting this anywhere." *)
TakeHalt ==
    /\ pc = "loop" /\ haltQueue # <<>>
    /\ inHand' = Head(haltQueue) /\ haltQueue' = Tail(haltQueue)
    /\ pc' = "halt"
    /\ Stop
    /\ UNCHANGED <<callFailed, closed, vpVars, haltCount, ioVars, dirty, panic, todo,
                   unitVars, hostVars, debugVars>>

(* The flush of the halts that raced with a stop. *)
DrainHalt ==
    /\ pc = "drain" /\ inHand = "none" /\ haltQueue # <<>>
    /\ inHand' = Head(haltQueue) /\ haltQueue' = Tail(haltQueue)
    /\ UNCHANGED <<setVars, vpVars, haltCount, ioVars, dirty, panic, pc, todo,
                   unitVars, hostVars, debugVars>>

(* Variant: the VPs' answers are not awaited. *)
HandlingHaltUnstopped(reason) == pc \in {"halt", "drain"} /\ inHand = reason

HandlingHalt(reason) == pc \in {"halt", "drain"} /\ inHand = reason /\ VpsAnswered

HandledHalt == inHand' = "none" /\ pc' = IF pc \in {"halt", "replay"} THEN "loop" ELSE "drain"

(* handle_halt: only the first halt of a boot is recorded. *)
HandleHalt ==
    /\ HandlingHalt("Halt")
    /\ HandledHalt
    /\ IF haltReason
       THEN DropHalt /\ UNCHANGED <<haltReason, debugVars>>
       ELSE RecordHalt /\ UNCHANGED <<panic, haltCount>>
    /\ UNCHANGED <<setVars, vpVars, haltQueue, ioVars, dirty, todo, unitStarted, vpStopCount,
                   needsReset, hasRegs, frozen, hostVars>>

ReplayMtrrs ==
    /\ HandlingHalt("ReplayMtrrs") /\ hasRegs
    /\ pc' = IF pc = "halt" THEN "replay" ELSE "drainReplay"
    /\ Call(VPs)
    /\ UNCHANGED <<started, closed, vpVars, haltVars, ioVars, dirty, panic, inHand, todo,
                   unitVars, hostVars, debugVars>>

(* Variant: the replayed halt stays latched. *)
FinishReplayLatched ==
    /\ \/ HandlingHalt("ReplayMtrrs") /\ ~hasRegs
       \/ pc \in {"replay", "drainReplay"} /\ VpsAnswered
    /\ HandledHalt
    /\ TryStart(MayRun(unitStarted, haltReason, vpStopCount))
    /\ needsReset' = (needsReset \/ MayRun(unitStarted, haltReason, vpStopCount))
    /\ UNCHANGED <<awaiting, callFailed, closed, vpVars, haltVars, ioVars, dirty, panic, todo,
                   unitStarted, vpStopCount, haltReason, hasRegs, hostVars, debugVars>>

FinishReplay ==
    /\ \/ HandlingHalt("ReplayMtrrs") /\ ~hasRegs
       \/ pc \in {"replay", "drainReplay"} /\ VpsAnswered
    /\ HandledHalt
    /\ DropHalt
    /\ TryStart(MayRun(unitStarted, haltReason, vpStopCount))
    /\ needsReset' = (needsReset \/ MayRun(unitStarted, haltReason, vpStopCount))
    /\ UNCHANGED <<awaiting, callFailed, closed, vpVars, haltQueue, ioVars, dirty, todo,
                   unitStarted, vpStopCount, haltReason, hasRegs, hostVars, debugVars>>

-----------------------------------------------------------------------------
(* State changes: impl StateUnit for PartitionUnitRunner. *)

UnitStart ==
    /\ StateRequested("Start")
    /\ Reply
    /\ unitStarted' = TRUE
    /\ frozen' = FALSE
    /\ IF MayRun(TRUE, haltReason, vpStopCount)
       THEN Start /\ needsReset' = TRUE
       ELSE UNCHANGED <<started, queue, needsReset>>
    /\ UNCHANGED <<awaiting, callFailed, closed, vpVars, haltVars, ioVars, dirty, panic, taskVars,
                   vpStopCount, haltReason, hasRegs, guards, startVps, boundary, debugVars>>

(* A stop request, or the end of the request channel on a started unit. *)
UnitStop ==
    /\ StateRequested("Stop") \/ (StateRequested("Teardown") /\ unitStarted)
    /\ pc' = "stop"
    /\ Stop
    /\ UNCHANGED <<callFailed, closed, vpVars, haltVars, ioVars, dirty, panic, inHand, todo,
                   unitVars, hostVars, debugVars>>

UnitStopped ==
    /\ pc = "stop" /\ VpsAnswered
    /\ pc' = "drain"
    /\ frozen' = TRUE /\ unitStarted' = FALSE
    /\ UNCHANGED <<vpSetVars, inHand, todo, vpStopCount, needsReset, haltReason, hasRegs,
                   hostVars, debugVars>>

UnitDrained ==
    /\ pc = "drain" /\ inHand = "none" /\ haltQueue = <<>>
    /\ IF call = "Teardown"
       THEN pc' = "teardown" /\ closed' = TRUE /\ UNCHANGED call
       ELSE pc' = "loop" /\ Reply /\ UNCHANGED closed
    /\ UNCHANGED <<started, awaiting, callFailed, queue, vpVars, haltVars, ioVars, dirty, panic,
                   inHand, todo, unitVars, guards, startVps, boundary, debugVars>>

(* PartitionUnit::teardown of a stopped unit, up to the wait for the VPs. *)
Teardown ==
    /\ StateRequested("Teardown") /\ ~unitStarted
    /\ pc' = "teardown" /\ closed' = TRUE
    /\ UNCHANGED <<started, awaiting, callFailed, queue, vpVars, haltVars, ioVars, dirty, panic,
                   inHand, todo, unitVars, hostVars, debugVars>>

TornDown ==
    /\ pc = "teardown" /\ \A v \in VPs : phase[v] = "gone"
    /\ pc' = "ended" /\ Reply
    /\ UNCHANGED <<vpSetVars, inHand, todo, unitVars, guards, startVps, boundary, debugVars>>

(* The handlers that call every VP and finish when all answered or one     *)
(* failed.  VpSet asserts that the VPs are stopped, but for the timers,    *)
(* which report an error instead.                                          *)
CallAll(next) ==
    /\ pc' = next
    /\ Call(VPs)
    /\ panic' = started
    /\ UNCHANGED <<started, closed, vpVars, haltVars, ioVars, inHand, todo, unitStarted,
                   vpStopCount, haltReason, hasRegs, hostVars, debugVars>>

CallDone(at) == pc = at /\ VpsAnswered /\ pc' = "loop"

(* The partition's own part of a request failed, before any VP is called. *)
PartitionFails(c) ==
    /\ CallsFail /\ StateRequested(c) /\ (c = "SetInitialRegs" => startVps = 0 /\ needsReset)
    /\ Reply
    /\ needsReset' = (needsReset \/ c = "Restore")
    /\ UNCHANGED <<vpSetVars, taskVars, unitStarted, vpStopCount, haltReason, hasRegs, frozen,
                   guards, startVps, boundary, debugVars>>

UnitReset ==
    /\ StateRequested("Reset")
    /\ CallAll("reset")
    /\ UNCHANGED <<needsReset, frozen, dirty>>

ResetDone ==
    /\ CallDone("reset")
    /\ Reply
    /\ IF callFailed
       THEN UNCHANGED <<haltReason, seen, panic, haltCount, started, queue, needsReset, frozen, dirty>>
       ELSE ClearHalt /\ needsReset' = FALSE /\ dirty' = FALSE
    /\ UNCHANGED <<awaiting, callFailed, closed, vpVars, haltQueue, ioVars, inHand, todo,
                   unitStarted, vpStopCount, hasRegs, guards, startVps, boundary,
                   attached, haltReported, armed, dbg, notice>>

UnitSave ==
    /\ StateRequested("Save")
    /\ CallAll("save")
    /\ UNCHANGED <<needsReset, frozen, dirty>>

SaveDone ==
    /\ CallDone("save")
    /\ Reply
    /\ UNCHANGED <<vpSetVars, inHand, todo, unitVars, guards, startVps, boundary, debugVars>>

(* A restore refuses to merge the saved halt with an existing one. *)
RestoreRefused ==
    /\ StateRequested("Restore") /\ (haltReason \/ started \/ haltCount # 0)
    /\ Reply
    /\ needsReset' = TRUE
    /\ UNCHANGED <<vpSetVars, taskVars, unitStarted, vpStopCount, haltReason, hasRegs, frozen,
                   guards, startVps, boundary, debugVars>>

UnitRestore ==
    /\ StateRequested("Restore") /\ ~haltReason /\ ~started /\ haltCount = 0
    /\ CallAll("restore")
    /\ needsReset' = TRUE /\ dirty' = TRUE
    /\ UNCHANGED frozen

(* Variant: the restored latch is set and the restored reason forgotten. *)
RestoreDoneUnrecorded ==
    /\ CallDone("restore")
    /\ Reply
    /\ \/ UNCHANGED haltCount
       \/ ~callFailed /\ ~started /\ haltCount = 0 /\ MaxHalts > 0 /\ haltCount' = 1
    /\ UNCHANGED <<setVars, vpVars, haltQueue, ioVars, dirty, panic, inHand, todo, unitVars,
                   guards, startVps, boundary, debugVars>>

(* The saved state is halted or not; a halt that was raised meanwhile fails *)
(* the restore.                                                            *)
RestoreDone ==
    /\ CallDone("restore")
    /\ Reply
    /\ \/ UNCHANGED <<haltCount, haltReason, debugVars>>
       \/ /\ ~callFailed /\ ~started /\ haltCount = 0 /\ MaxHalts > 0
          /\ haltCount' = 1
          /\ RecordHalt
    /\ UNCHANGED <<setVars, vpVars, haltQueue, ioVars, dirty, panic, inHand, todo, unitStarted,
                   vpStopCount, needsReset, hasRegs, frozen, guards, startVps, boundary>>

-----------------------------------------------------------------------------
(* The worker's requests: PartitionRequest. *)

RequestClearHalt ==
    /\ Requested("ClearHalt")
    /\ Reply
    /\ ClearHalt
    /\ needsReset' = (needsReset \/ ClearHaltStarts)
    /\ UNCHANGED <<awaiting, callFailed, closed, vpVars, haltQueue, ioVars, dirty, taskVars,
                   unitStarted, vpStopCount, hasRegs, guards, startVps, boundary,
                   attached, haltReported, armed, dbg, notice>>

(* Writing "true" to the inspection node clears the halt as well. *)
InspectClearHalt ==
    /\ Inspects /\ pc = "loop" /\ haltReason
    /\ ClearHalt
    /\ needsReset' = (needsReset \/ ClearHaltStarts)
    /\ UNCHANGED <<awaiting, callFailed, closed, vpVars, haltQueue, ioVars, dirty, taskVars,
                   unitStarted, vpStopCount, hasRegs, hostVars,
                   attached, haltReported, armed, dbg, notice>>

(* Inspecting a VP pulls it out of the guest to answer. *)
InspectVp(v) ==
    /\ Inspects /\ pc = "loop" /\ queue[v] = <<>>
    /\ queue' = [queue EXCEPT ![v] = Append(@, "Unawaited")]
    /\ UNCHANGED <<started, awaiting, callFailed, closed, vpVars, haltVars, ioVars, dirty, panic,
                   taskVars, unitVars, hostVars, debugVars>>

(* set_initial_regs scrubs a VTL that ran, which may stop its clock, and    *)
(* sets the registers of a partition that takes them from the loader.      *)
RegsScrub ==
    /\ Requested("SetInitialRegs") /\ needsReset
    /\ pc' = "scrub"
    /\ Call(VPs)
    /\ panic' = (started \/ (unitStarted /\ vpStopCount = 0))
    /\ frozen' \in {frozen, TRUE}
    /\ UNCHANGED <<started, closed, vpVars, haltVars, ioVars, dirty, inHand, todo, unitStarted,
                   vpStopCount, needsReset, haltReason, hasRegs, hostVars, debugVars>>

RegsScrubbed ==
    /\ pc = "scrub" /\ VpsAnswered
    /\ IF callFailed
       THEN pc' = "loop" /\ Reply /\ UNCHANGED <<queue, awaiting, callFailed, needsReset, dirty>>
       ELSE pc' = "setRegs" /\ Call(VPs) /\ needsReset' = FALSE /\ dirty' = FALSE /\ UNCHANGED call
    /\ UNCHANGED <<started, closed, vpVars, haltVars, ioVars, panic, inHand, todo, unitStarted,
                   vpStopCount, haltReason, hasRegs, frozen, guards, startVps, boundary, debugVars>>

RegsSet ==
    /\ Requested("SetInitialRegs") /\ ~needsReset
    /\ pc' = "setRegs"
    /\ Call(VPs)
    /\ panic' = (unitStarted /\ vpStopCount = 0)
    /\ UNCHANGED <<started, closed, vpVars, haltVars, ioVars, dirty, inHand, todo, unitVars,
                   hostVars, debugVars>>

RegsDone ==
    /\ CallDone("setRegs")
    /\ Reply
    /\ hasRegs' = (hasRegs \/ ~callFailed)
    /\ UNCHANGED <<vpSetVars, inHand, todo, unitStarted, vpStopCount, needsReset, haltReason,
                   frozen, guards, startVps, boundary, debugVars>>

AcceptInitialPages ==
    /\ Requested("AcceptInitialPages")
    /\ Reply
    /\ panic' = unitStarted
    /\ UNCHANGED <<setVars, vpVars, haltVars, ioVars, dirty, taskVars, unitVars,
                   guards, startVps, boundary, debugVars>>

(* stop_vps, on behalf of a StopGuard or of a dump *)
StopVps ==
    /\ Requested("StopVps") \/ Requested("BuildDump")
    /\ pc' = IF call = "StopVps" THEN "stopVps" ELSE "dumpStop"
    /\ Stop
    /\ UNCHANGED <<callFailed, closed, vpVars, haltVars, ioVars, dirty, panic, inHand, todo,
                   unitVars, hostVars, debugVars>>

(* Variant: the guard that is handed out is not counted. *)
VpsStoppedUncounted ==
    /\ pc = "stopVps" /\ VpsAnswered
    /\ pc' = "loop" /\ Reply
    /\ guards' = guards + 1
    /\ UNCHANGED <<vpSetVars, inHand, todo, unitVars, startVps, boundary, debugVars>>

VpsStopped ==
    /\ pc = "stopVps" /\ VpsAnswered
    /\ pc' = "loop" /\ Reply
    /\ vpStopCount' = vpStopCount + 1 /\ guards' = guards + 1
    /\ UNCHANGED <<vpSetVars, inHand, todo, unitStarted, needsReset, haltReason, hasRegs, frozen,
                   startVps, boundary, debugVars>>

(* Variant: the start does not mark the VM as run. *)
ResumeVpsUnmarked ==
    /\ panic' = (vpStopCount = 0)
    /\ vpStopCount' = vpStopCount - 1
    /\ TryStart(MayRun(unitStarted, haltReason, vpStopCount - 1))
    /\ UNCHANGED needsReset

(* resume_vps *)
ResumeVps ==
    /\ panic' = (vpStopCount = 0)
    /\ vpStopCount' = vpStopCount - 1
    /\ TryStart(MayRun(unitStarted, haltReason, vpStopCount - 1))
    /\ needsReset' = (needsReset \/ MayRun(unitStarted, haltReason, vpStopCount - 1))

(* The StartVps request a dropped StopGuard sent. *)
StartVps ==
    /\ pc = "loop" /\ startVps > 0
    /\ startVps' = startVps - 1
    /\ ResumeVps
    /\ UNCHANGED <<awaiting, callFailed, closed, vpVars, haltVars, ioVars, dirty, taskVars,
                   unitStarted, haltReason, hasRegs, call, guards, boundary, debugVars>>

(* A dump visits the stopped VPs one after the other. *)
DumpStopped ==
    /\ pc = "dumpStop" /\ VpsAnswered
    /\ pc' = "dump" /\ todo' = VPs
    /\ vpStopCount' = vpStopCount + 1
    /\ callFailed' = FALSE
    /\ UNCHANGED <<started, awaiting, queue, closed, vpVars, haltVars, ioVars, dirty, panic, inHand,
                   unitStarted, needsReset, haltReason, hasRegs, frozen, hostVars, debugVars>>

DumpVp(v) ==
    /\ pc = "dump" /\ VpsAnswered /\ ~callFailed /\ v \in todo
    /\ todo' = todo \ {v}
    /\ Call({v})
    /\ UNCHANGED <<started, closed, vpVars, haltVars, ioVars, dirty, panic, pc, inHand,
                   unitVars, hostVars, debugVars>>

DumpDone ==
    /\ pc = "dump" /\ VpsAnswered /\ (callFailed \/ todo = {})
    /\ pc' = "loop" /\ todo' = {} /\ Reply
    /\ ResumeVps
    /\ UNCHANGED <<awaiting, callFailed, closed, vpVars, haltVars, ioVars, dirty, inHand,
                   unitStarted, haltReason, hasRegs, guards, startVps, boundary, debugVars>>

(* Variant: the write is released with no stop queued for the VPs. *)
BoundaryStopUnqueued ==
    /\ Requested("StopVpsAtIoBoundary")
    /\ pc' = "boundary" /\ boundary' = "stopping"
    /\ vpStopCount' = vpStopCount + 1
    /\ io' = "released"
    /\ UNCHANGED <<setVars, vpVars, haltVars, writer, dirty, panic, inHand, todo,
                   unitStarted, needsReset, haltReason, hasRegs, frozen,
                   call, guards, startVps, debugVars>>

(* handle_snapshot: the stop reference is taken first, every VP is sent its *)
(* stop, and only then is the deferred write released.                     *)
BoundaryStop ==
    /\ Requested("StopVpsAtIoBoundary")
    /\ pc' = "boundary" /\ boundary' = "stopping"
    /\ vpStopCount' = vpStopCount + 1
    /\ Stop
    /\ io' = "released"
    /\ UNCHANGED <<callFailed, closed, vpVars, haltVars, writer, dirty, panic, inHand, todo,
                   unitStarted, needsReset, haltReason, hasRegs, frozen,
                   call, guards, startVps, debugVars>>

(* A failed boundary keeps its stop reference. *)
BoundaryDone ==
    /\ pc = "boundary" /\ VpsAnswered /\ io \in {"done", "failed"}
    /\ pc' = "loop" /\ Reply
    /\ boundary' = IF io = "done" THEN "held" ELSE "failed"
    /\ UNCHANGED <<vpSetVars, inHand, todo, unitVars, guards, startVps, debugVars>>

(* check_one_shot_timers and advance_lapic_timers *)
Timers ==
    /\ Requested("Timers")
    /\ IF started
       THEN Reply /\ UNCHANGED <<pc, queue, awaiting, callFailed>>
       ELSE pc' = "timers" /\ Call(VPs) /\ UNCHANGED call
    /\ UNCHANGED <<started, closed, vpVars, haltVars, ioVars, dirty, panic, inHand, todo,
                   unitVars, guards, startVps, boundary, debugVars>>

TimersDone ==
    /\ CallDone("timers")
    /\ Reply
    /\ UNCHANGED <<vpSetVars, inHand, todo, unitVars, guards, startVps, boundary, debugVars>>

-----------------------------------------------------------------------------
(* The debugger: handle_gdb, and the requests debug_worker sends it.  A     *)
(* connection attaches, resumes and breaks; it then waits for the stop it  *)
(* resumed with, examines the VPs and resumes again, or goes away.         *)

DebugAttach ==
    /\ Debugger /\ pc = "loop" /\ dbg = "off"
    /\ attached' = TRUE /\ dbg' = "resume"
    /\ UNCHANGED <<vpSetVars, taskVars, unitVars, hostVars, haltReported, armed, notice, seen>>

(* Resume with no halt reported to the debugger arms the notification and  *)
(* reports at once a halt recorded already.                                *)
DebugResume ==
    /\ pc = "loop" /\ dbg \in {"resume", "stopped"} /\ ~haltReported
    /\ dbg' = IF dbg = "resume" THEN "break" ELSE "running"
    /\ IF haltReason /\ attached
       THEN armed' = "none" /\ haltReported' = TRUE /\ notice' = TRUE /\ seen' = seen \cup {"debugger"}
       ELSE armed' = "live" /\ UNCHANGED <<haltReported, notice, seen>>
    /\ UNCHANGED <<vpSetVars, taskVars, unitVars, hostVars, attached>>

(* Resume after a reported halt clears it. *)
DebugContinue ==
    /\ pc = "loop" /\ dbg \in {"resume", "stopped"} /\ haltReported
    /\ dbg' = IF dbg = "resume" THEN "break" ELSE "running"
    /\ armed' = "live" /\ haltReported' = FALSE
    /\ ClearHalt
    /\ needsReset' = (needsReset \/ ClearHaltStarts)
    /\ UNCHANGED <<awaiting, callFailed, closed, vpVars, haltQueue, ioVars, dirty, taskVars,
                   unitStarted, vpStopCount, hasRegs, hostVars, attached, notice>>

DebugBreak ==
    /\ pc = "loop" /\ dbg \in {"break", "running"}
    /\ dbg' = "running"
    /\ RaiseHalt("Halt")
    /\ UNCHANGED <<setVars, vpVars, ioVars, dirty, panic, taskVars, unitVars, hostVars,
                   attached, haltReported, armed, notice, seen>>

DebugReadStop ==
    /\ dbg = "running" /\ notice
    /\ dbg' = "stopped" /\ notice' = FALSE
    /\ UNCHANGED <<vpSetVars, taskVars, unitVars, hostVars, attached, haltReported, armed, seen>>

(* Reading or writing a VP's registers or memory; the VP may be running. *)
DebugVp(v) ==
    /\ pc = "loop" /\ dbg = "stopped"
    /\ pc' = "debug"
    /\ Call({v})
    /\ UNCHANGED <<started, closed, vpVars, haltVars, ioVars, dirty, panic, inHand, todo,
                   unitVars, hostVars, debugVars>>

DebugVpDone ==
    /\ CallDone("debug")
    /\ UNCHANGED <<vpSetVars, inHand, todo, unitVars, hostVars, debugVars>>

(* The connection ends.  debug_worker sends no Detach. *)
DebugDisconnect ==
    /\ dbg \in {"running", "stopped"}
    /\ dbg' = "off" /\ notice' = FALSE
    /\ armed' = IF armed = "live" THEN "dead" ELSE armed
    /\ UNCHANGED <<vpSetVars, taskVars, unitVars, hostVars, attached, haltReported, seen>>

-----------------------------------------------------------------------------
(* The VM worker: one call at a time, each where dispatch.rs makes it. *)

Allowed(c) ==
    CASE c = "Start" -> ~unitStarted
      [] c = "Stop" -> unitStarted
      [] c \in {"Reset", "Save", "Restore", "AcceptInitialPages"} -> ~unitStarted
      [] c = "SetInitialRegs" -> ~unitStarted \/ guards > 0
      [] c = "StopVps" -> guards + startVps < MaxGuards
      [] c = "StopVpsAtIoBoundary" -> io = "pending"
      [] OTHER -> TRUE

HostCall(c) ==
    /\ call = "none" /\ pc # "ended" /\ Allowed(c)
    /\ call' = c
    /\ UNCHANGED <<vpSetVars, taskVars, unitVars, guards, startVps, boundary, debugVars>>

(* impl Drop for StopGuard *)
DropGuard ==
    /\ call = "none" /\ guards > 0
    /\ guards' = guards - 1 /\ startVps' = startVps + 1
    /\ UNCHANGED <<vpSetVars, taskVars, unitVars, call, boundary, debugVars>>

(* release_snapshot_boundary: the transaction ends, then the guard drops. *)
ReleaseBoundary ==
    /\ call = "none" /\ boundary = "held"
    /\ boundary' = "none" /\ startVps' = startVps + 1
    /\ io' = "none" /\ writer' = {}
    /\ UNCHANGED <<setVars, vpVars, haltVars, dirty, panic, taskVars, unitVars, call, guards, debugVars>>

(* The worker drops the request unserved, or has no use for it. *)
RejectWrite ==
    /\ call = "none" /\ io = "pending"
    /\ Unblock
    /\ io' = "none" /\ writer' = {}
    /\ UNCHANGED <<setVars, vpState, stopping, stopAck, held, haltVars, dirty, panic,
                   taskVars, unitVars, hostVars, debugVars>>

Terminated == pc = "ended" /\ UNCHANGED vars

-----------------------------------------------------------------------------
(* The task's select, by source, and its progress past an await. *)
ServeState ==
    \/ UnitStart \/ UnitStop \/ Teardown \/ UnitReset \/ UnitSave \/ UnitRestore \/ RestoreRefused
    \/ \E c \in {"Reset", "Save", "Restore"} : PartitionFails(c)

ServeRequest ==
    \/ RequestClearHalt \/ RegsScrub \/ RegsSet \/ PartitionFails("SetInitialRegs")
    \/ AcceptInitialPages \/ StopVps \/ StartVps \/ BoundaryStop \/ Timers

ServeDebug ==
    \/ DebugAttach \/ DebugResume \/ DebugContinue \/ DebugBreak
    \/ \E v \in VPs : DebugVp(v)

ServeInspect == InspectClearHalt \/ \E v \in VPs : InspectVp(v)

Proceed ==
    \/ DrainHalt \/ HandleHalt \/ ReplayMtrrs \/ FinishReplay
    \/ UnitStopped \/ UnitDrained \/ TornDown \/ ResetDone \/ SaveDone \/ RestoreDone
    \/ RegsScrubbed \/ RegsDone \/ VpsStopped
    \/ DumpStopped \/ (\E v \in VPs : DumpVp(v)) \/ DumpDone
    \/ BoundaryDone \/ TimersDone \/ DebugVpDone

Host ==
    \/ \E c \in Calls : HostCall(c)
    \/ DropGuard \/ ReleaseBoundary \/ RejectWrite

Outside == UNCHANGED <<taskVars, unitVars, hostVars, debugVars>>

RunVp(v) == VpStep(v) /\ Outside

RunGuest(v) ==
    /\ GuestStep(v) \/ \E reason \in HaltSources : GuestIoHalts(v, reason)
    /\ Outside

RunDevice == CompleteWrite /\ Outside

HaltFromDevice == AsyncHalts /\ (\E reason \in HaltSources : DeviceHalts(reason)) /\ Outside

Next ==
    \/ TakeHalt \/ ServeState \/ ServeRequest \/ ServeDebug \/ ServeInspect \/ Proceed
    \/ Host \/ DebugReadStop \/ DebugDisconnect
    \/ \E v \in VPs : RunVp(v) \/ RunGuest(v)
    \/ RunDevice \/ HaltFromDevice
    \/ Terminated

Spec == Init /\ [][Next]_vars

(* The task and the VP threads keep running, the select serves every ready *)
(* source in the end because it picks among them at random, a VP that has  *)
(* an event is kicked out of the guest, and the device completes a write   *)
(* that was released.                                                      *)
Fairness ==
    /\ WF_vars(Proceed)
    /\ SF_vars(TakeHalt)
    /\ SF_vars(ServeState)
    /\ SF_vars(ServeRequest)
    /\ SF_vars((DebugResume \/ DebugContinue))
    /\ WF_vars(RunDevice)
    /\ \A v \in VPs : WF_vars(RunVp(v))

FairSpec == Spec /\ Fairness

-----------------------------------------------------------------------------
(* Safety *)

AsOne(b) == IF b THEN 1 ELSE 0

(* A processor is in the guest only while the set is started, or while the *)
(* task still waits for that processor's answer to a stop; and never while *)
(* the partition's time is frozen (PartitionUnitRunner::stop freezes time  *)
(* after VpSet::stop returned, try_start thaws it before VpSet::start).    *)
GuestRunsOnlyWhenStarted ==
    \A v \in VPs : phase[v] = "guest" =>
        /\ started \/ v \in awaiting
        /\ ~frozen

(* The VPs are started only while the unit is, with no halt recorded and no *)
(* stop reference held: the condition of try_start keeps holding, whatever *)
(* the worker, the halts, the debugger and the guards do after it.         *)
StartedOnlyWhenPermitted ==
    started => unitStarted /\ ~haltReason /\ vpStopCount = 0

(* A guest executes only while it may, or until the stop that ends its     *)
(* permission is answered.                                                 *)
GuestRunsOnlyWhenPermitted == GuestRunsOnlyWhenStarted /\ StartedOnlyWhenPermitted

(* The latch counts exactly the halts that are queued, in the task's hands *)
(* or recorded: a clear too many would panic ("too many halt clears"), a   *)
(* clear too few would keep the VPs halted for ever.                       *)
HaltAccounting ==
    haltCount = Len(haltQueue) + AsOne(inHand # "none") + AsOne(haltReason)

(* vp_stop_count counts the guards the worker holds, the StartVps they left *)
(* in the queue, the dump in progress and the boundary, including a failed *)
(* one, whose reference is kept until teardown.                            *)
StopReferences ==
    vpStopCount = guards + startVps + AsOne(pc = "dump") + AsOne(boundary # "none")

(* Neither count that keeps the VPs out of the guest is ever off by one.   *)
CountsBalance == HaltAccounting /\ StopReferences

(* The assertions of partition_unit.rs and vp_set.rs never fail: no start  *)
(* of a started VP, no stop of a stopped one, no halt cleared on running   *)
(* VPs, no resume without a stop, no register set on running VPs.          *)
NoPanic == ~panic

(* "Every VP has observed a queued stop event before the deferred I/O is   *)
(* completed, so the originating VP cannot re-enter guest execution": from *)
(* the boundary's stop to its release the writing VP stays out, and after  *)
(* a failed boundary it stays out for good.                                *)
WriterStaysAtBoundary ==
    boundary # "none" => \A v \in writer : phase[v] # "guest"

(* State is saved, restored, reset, scrubbed, replayed, dumped or advanced *)
(* only on VPs that left their run loop.                                   *)
AccessOnlyStoppedVps ==
    pc \in {"reset", "save", "restore", "scrub", "setRegs", "timers", "dump", "replay", "drainReplay"} =>
        \A v \in VPs : phase[v] = "top" /\ vpState[v] = "Stopped"

(* A recorded halt, the one clients are told of, means every VP stopped:   *)
(* "Wait for the VPs to stop before reporting this anywhere."              *)
HaltReportedAfterStop ==
    haltReason => \A v \in VPs : phase[v] \in {"top", "gone"} /\ vpState[v] = "Stopped"

(* Nobody is shown a VP, or told of a halt, before the VPs have stopped.   *)
StoppedWhenTouched == AccessOnlyStoppedVps /\ HaltReportedAfterStop

(* needs_reset is set whenever a VP ran, or was restored, since the last   *)
(* reset or scrub, so set_initial_regs scrubs before it loads.             *)
DirtyNeedsReset == dirty => needsReset

(* A halt nobody was told of waits for a debugger's Resume.                *)
UnseenHaltIsDebuggers == haltReason /\ seen = {} => attached

-----------------------------------------------------------------------------
(* Liveness *)

(* Every call of the worker is answered, and a teardown ends with every VP *)
(* thread gone.                                                            *)
CallsEnd == (call # "none") ~> (call = "none")

(* A halt is recorded or, being a replay, cleared again, unless the unit is *)
(* torn down first (Event::Halt, handle_halt).                             *)
HaltsAreHandled == (haltCount > 0) ~> (haltReason \/ haltCount = 0 \/ closed)

(* VpSet::stop "Stops all VPs." and returns: the VPs answer the stop.       *)
StopsEnd == (pc \in {"halt", "stop", "stopVps", "dumpStop"}) ~> (awaiting = {})

(* "Report the halt reason to the client since the debugger won't be there *)
(* to get it": with the debugger gone, the client hears of a recorded halt. *)
ClientHearsOfHalt ==
    (haltReason /\ dbg = "off") ~> ("client" \in seen \/ ~haltReason \/ dbg # "off")

=============================================================================
