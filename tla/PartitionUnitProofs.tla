------------------------ MODULE PartitionUnitProofs -------------------------
(* Proofs about the partition unit, for any number of VPs, halts and stop  *)
(* guards, and any set of calls: the ledger of its two counts, and what    *)
(* each step of a VP does to the channel between the VP and the unit.      *)
EXTENDS PartitionUnit, FiniteSetTheorems, TLAPS

(* The time a prover may take for one obligation. *)
USE ZenonT(20), SMTT(20)

(* What the ledger needs to know of the types. *)
LedgerTypes ==
    /\ haltCount \in Nat /\ haltQueue \in Seq(Reasons)
    /\ vpStopCount \in Nat /\ guards \in Nat /\ startVps \in Nat
    /\ started \in BOOLEAN /\ unitStarted \in BOOLEAN /\ haltReason \in BOOLEAN

(* From a stop of the VPs to the end of the handler that made it the VPs   *)
(* are not started, and a unit that drains its halts has been stopped.     *)
StoppedInHandlers ==
    /\ pc \in {"halt", "replay", "stop", "drain", "drainReplay", "stopVps", "boundary",
               "dumpStop", "dump"} => ~started
    /\ pc \in {"drain", "drainReplay"} => ~unitStarted
    /\ pc \in {"replay", "drainReplay"} => inHand # "none"
    /\ inHand # "none" => pc \in {"halt", "replay", "drain", "drainReplay"}

(* There is one boundary at a time, and its state follows the write's. *)
OneBoundary ==
    /\ boundary = "none" <=> io \in {"none", "pending"}
    /\ boundary = "stopping" <=> pc = "boundary"
    /\ call = "StopVpsAtIoBoundary" /\ pc # "boundary" => io = "pending"

Ledger ==
    /\ LedgerTypes /\ StoppedInHandlers /\ OneBoundary
    /\ HaltAccounting /\ StopReferences /\ StartedOnlyWhenPermitted

-----------------------------------------------------------------------------
(* What may happen to a halt, each keeping the latch's account.            *)

haltLedger == <<haltCount, haltQueue, inHand, haltReason>>

LEMMA HaltUntouched ==
  ASSUME HaltAccounting, UNCHANGED haltLedger
  PROVE  HaltAccounting'
  BY DEF HaltAccounting, haltLedger

LEMMA HaltRaised ==
  ASSUME LedgerTypes, HaltAccounting, NEW reason \in Reasons, RaiseHalt(reason),
         UNCHANGED <<inHand, haltReason>>
  PROVE  HaltAccounting' /\ haltCount' \in Nat /\ haltQueue' \in Seq(Reasons)
<1>1. haltQueue' \in Seq(Reasons) /\ Len(haltQueue') = Len(haltQueue) + 1
  BY SMTT(20) DEF LedgerTypes, RaiseHalt
<1>2. AsOne(inHand # "none")' = AsOne(inHand # "none") /\ AsOne(haltReason)' = AsOne(haltReason)
  OBVIOUS
<1>3. AsOne(inHand # "none") \in Nat /\ AsOne(haltReason) \in Nat /\ Len(haltQueue) \in Nat
  BY SMTT(20) DEF AsOne, LedgerTypes
<1> QED
  BY SMTT(20), <1>1, <1>2, <1>3 DEF LedgerTypes, HaltAccounting, RaiseHalt

LEMMA HaltTaken ==
  ASSUME LedgerTypes, HaltAccounting, inHand = "none", haltQueue # <<>>,
         inHand' = Head(haltQueue), haltQueue' = Tail(haltQueue), UNCHANGED <<haltCount, haltReason>>
  PROVE  HaltAccounting' /\ haltQueue' \in Seq(Reasons)
<1>1. haltQueue' \in Seq(Reasons) /\ Len(haltQueue') = Len(haltQueue) - 1 /\ inHand' \in Reasons
  BY SMTT(20) DEF LedgerTypes
<1>2. AsOne(inHand # "none") = 0 /\ AsOne(inHand # "none")' = 1
  BY <1>1 DEF AsOne, Reasons
<1>3. AsOne(haltReason)' = AsOne(haltReason) /\ AsOne(haltReason) \in Nat /\ Len(haltQueue) \in Nat
  BY SMTT(20) DEF AsOne, LedgerTypes
<1> QED
  BY SMTT(20), <1>1, <1>2, <1>3 DEF LedgerTypes, HaltAccounting

LEMMA HaltDropped ==
  ASSUME LedgerTypes, HaltAccounting, inHand # "none", inHand' = "none",
         haltCount' = haltCount - 1, UNCHANGED <<haltQueue, haltReason>>
  PROVE  HaltAccounting' /\ haltCount' \in Nat
<1>1. AsOne(inHand # "none") = 1 /\ AsOne(inHand # "none")' = 0
  BY DEF AsOne
<1>2. AsOne(haltReason)' = AsOne(haltReason) /\ AsOne(haltReason) \in Nat /\ Len(haltQueue) \in Nat
  BY SMTT(20) DEF AsOne, LedgerTypes
<1> QED
  BY SMTT(20), <1>1, <1>2 DEF LedgerTypes, HaltAccounting

LEMMA HaltRecorded ==
  ASSUME LedgerTypes, HaltAccounting, inHand # "none", inHand' = "none",
         ~haltReason, haltReason' = TRUE, UNCHANGED <<haltCount, haltQueue>>
  PROVE  HaltAccounting'
<1>1. AsOne(inHand # "none") = 1 /\ AsOne(inHand # "none")' = 0
  BY DEF AsOne
<1>2. AsOne(haltReason) = 0 /\ AsOne(haltReason)' = 1
  BY DEF AsOne
<1> QED
  BY SMTT(20), <1>1, <1>2 DEF LedgerTypes, HaltAccounting

LEMMA HaltCleared ==
  ASSUME LedgerTypes, HaltAccounting, ClearHalt, UNCHANGED <<haltQueue, inHand>>
  PROVE  HaltAccounting' /\ haltCount' \in Nat /\ haltReason' \in BOOLEAN
<1>1. CASE ~haltReason
  BY <1>1, HaltUntouched DEF ClearHalt, haltLedger, LedgerTypes
<1>2. CASE haltReason
  <2>1. haltReason' = FALSE /\ haltCount' = haltCount - 1
    BY <1>2 DEF ClearHalt
  <2>2. AsOne(haltReason) = 1 /\ AsOne(haltReason)' = 0
    BY <1>2, <2>1 DEF AsOne
  <2>3. AsOne(inHand # "none")' = AsOne(inHand # "none") /\ AsOne(inHand # "none") \in Nat
        /\ Len(haltQueue) \in Nat
    BY SMTT(20) DEF AsOne, LedgerTypes
  <2>4. HaltAccounting' /\ haltCount' \in Nat
    BY SMTT(20), <2>1, <2>2, <2>3 DEF LedgerTypes, HaltAccounting
  <2> QED
    BY <2>1, <2>4
<1> QED
  BY <1>1, <1>2

LEMMA HaltRestored ==
  ASSUME LedgerTypes, HaltAccounting, haltCount = 0, haltCount' = 1, haltReason' = TRUE,
         UNCHANGED <<haltQueue, inHand>>
  PROVE  HaltAccounting'
<1>1. AsOne(inHand # "none")' = AsOne(inHand # "none") /\ AsOne(inHand # "none") \in Nat
      /\ AsOne(haltReason) \in Nat /\ Len(haltQueue) \in Nat /\ AsOne(haltReason)' = 1
  BY SMTT(20) DEF AsOne, LedgerTypes
<1> QED
  BY SMTT(20), <1>1 DEF LedgerTypes, HaltAccounting

-----------------------------------------------------------------------------
(* The stop references.                                                    *)

stopLedger == <<vpStopCount, guards, startVps, boundary>>

LEMMA StopsUntouched ==
  ASSUME StopReferences, UNCHANGED stopLedger, pc = "dump" <=> pc' = "dump"
  PROVE  StopReferences'
  BY DEF StopReferences, stopLedger, AsOne

-----------------------------------------------------------------------------
(* Every step keeps the ledger: the handlers by the source they  *)
(* serve, with the effect on each account shown where there is one.        *)

LEMMA HaltKeepsLedger ==
  ASSUME Ledger, TakeHalt \/ DrainHalt \/ HandleHalt \/ ReplayMtrrs \/ FinishReplay
  PROVE  Ledger'
<1> USE DEF Ledger, setVars, vpVars, haltVars, ioVars, vpSetVars, taskVars, unitVars,
     hostVars, debugVars, vars
<1>1. CASE TakeHalt
  <2>1. HaltAccounting' /\ haltCount' \in Nat /\ haltQueue' \in Seq(Reasons) /\ haltReason' \in BOOLEAN
    BY <1>1, HaltTaken DEF TakeHalt, Stop, Broadcast, haltLedger, LedgerTypes,
         StoppedInHandlers
  <2>2. StopReferences' /\ vpStopCount' \in Nat /\ guards' \in Nat /\ startVps' \in Nat
    BY <1>1, StopsUntouched DEF TakeHalt, Stop, Broadcast, stopLedger, LedgerTypes,
         StoppedInHandlers
  <2>3. StoppedInHandlers' /\ OneBoundary' /\ StartedOnlyWhenPermitted'
        /\ started' \in BOOLEAN /\ unitStarted' \in BOOLEAN
    BY <1>1, <2>1, <2>2 DEF TakeHalt, Stop, Broadcast, LedgerTypes, StoppedInHandlers,
         OneBoundary, StartedOnlyWhenPermitted
  <2> QED
    BY <2>1, <2>2, <2>3 DEF LedgerTypes
<1>2. CASE DrainHalt
  <2>1. HaltAccounting' /\ haltCount' \in Nat /\ haltQueue' \in Seq(Reasons) /\ haltReason' \in BOOLEAN
    BY <1>2, HaltTaken DEF DrainHalt, haltLedger, LedgerTypes, StoppedInHandlers
  <2>2. StopReferences' /\ vpStopCount' \in Nat /\ guards' \in Nat /\ startVps' \in Nat
    BY <1>2, StopsUntouched DEF DrainHalt, stopLedger, LedgerTypes, StoppedInHandlers
  <2>3. StoppedInHandlers' /\ OneBoundary' /\ StartedOnlyWhenPermitted'
        /\ started' \in BOOLEAN /\ unitStarted' \in BOOLEAN
    BY <1>2, <2>1, <2>2 DEF DrainHalt, LedgerTypes, StoppedInHandlers, OneBoundary,
         StartedOnlyWhenPermitted
  <2> QED
    BY <2>1, <2>2, <2>3 DEF LedgerTypes
<1>3. CASE HandleHalt
  <2>1. HaltAccounting' /\ haltCount' \in Nat /\ haltQueue' \in Seq(Reasons) /\ haltReason' \in BOOLEAN
    BY <1>3, HaltDropped, HaltRecorded DEF HandleHalt, HandlingHalt, HandledHalt, DropHalt,
         RecordHalt, ReportToDebugger, VpsAnswered, haltLedger, LedgerTypes,
         StoppedInHandlers
  <2>2. StopReferences' /\ vpStopCount' \in Nat /\ guards' \in Nat /\ startVps' \in Nat
    BY <1>3, StopsUntouched DEF HandleHalt, HandlingHalt, HandledHalt, DropHalt, RecordHalt,
         ReportToDebugger, VpsAnswered, stopLedger, LedgerTypes, StoppedInHandlers
  <2>3. StoppedInHandlers' /\ OneBoundary' /\ StartedOnlyWhenPermitted'
        /\ started' \in BOOLEAN /\ unitStarted' \in BOOLEAN
    BY <1>3, <2>1, <2>2 DEF HandleHalt, HandlingHalt, HandledHalt, DropHalt, RecordHalt,
         ReportToDebugger, VpsAnswered, LedgerTypes, StoppedInHandlers, OneBoundary,
         StartedOnlyWhenPermitted
  <2> QED
    BY <2>1, <2>2, <2>3 DEF LedgerTypes
<1>4. CASE ReplayMtrrs
  BY <1>4 DEF ReplayMtrrs, HandlingHalt, Call, VpsAnswered, LedgerTypes, StoppedInHandlers,
       OneBoundary, HaltAccounting, StopReferences, StartedOnlyWhenPermitted, AsOne
<1>5. CASE FinishReplay
  <2>1. HaltAccounting' /\ haltCount' \in Nat /\ haltQueue' \in Seq(Reasons) /\ haltReason' \in BOOLEAN
    BY <1>5, HaltDropped DEF FinishReplay, HandlingHalt, HandledHalt, DropHalt, TryStart,
         MayRun, Start, Broadcast, VpsAnswered, haltLedger, LedgerTypes, StoppedInHandlers
  <2>2. StopReferences' /\ vpStopCount' \in Nat /\ guards' \in Nat /\ startVps' \in Nat
    BY <1>5, StopsUntouched, SMTT(30) DEF FinishReplay, HandlingHalt, HandledHalt, DropHalt, TryStart,
         MayRun, Start, Broadcast, VpsAnswered, stopLedger, LedgerTypes, StoppedInHandlers
  <2>3. StoppedInHandlers' /\ OneBoundary' /\ StartedOnlyWhenPermitted'
        /\ started' \in BOOLEAN /\ unitStarted' \in BOOLEAN
    BY <1>5, <2>1, <2>2 DEF FinishReplay, HandlingHalt, HandledHalt, DropHalt, TryStart,
         MayRun, Start, Broadcast, VpsAnswered, LedgerTypes, StoppedInHandlers, OneBoundary,
         StartedOnlyWhenPermitted
  <2> QED
    BY <2>1, <2>2, <2>3 DEF LedgerTypes
<1> QED
  BY <1>1, <1>2, <1>3, <1>4, <1>5

LEMMA StateKeepsLedger ==
  ASSUME Ledger, UnitStart \/ UnitStop \/ UnitStopped \/ UnitDrained \/ Teardown \/ TornDown \/ UnitReset
         \/ ResetDone \/ UnitSave \/ SaveDone \/ RestoreRefused \/ UnitRestore \/ RestoreDone
  PROVE  Ledger'
<1> USE DEF Ledger, setVars, vpVars, haltVars, ioVars, vpSetVars, taskVars, unitVars,
     hostVars, debugVars, vars
<1>1. CASE UnitStart
  BY <1>1 DEF UnitStart, StateRequested, MayRun, Start, Reply, Broadcast, LedgerTypes,
       StoppedInHandlers, OneBoundary, HaltAccounting, StopReferences,
       StartedOnlyWhenPermitted, AsOne
<1>2. CASE UnitStop
  BY <1>2 DEF UnitStop, StateRequested, Stop, Broadcast, LedgerTypes, StoppedInHandlers,
       OneBoundary, HaltAccounting, StopReferences, StartedOnlyWhenPermitted, AsOne
<1>3. CASE UnitStopped
  BY <1>3 DEF UnitStopped, VpsAnswered, LedgerTypes, StoppedInHandlers, OneBoundary,
       HaltAccounting, StopReferences, StartedOnlyWhenPermitted, AsOne
<1>4. CASE UnitDrained
  BY <1>4 DEF UnitDrained, Reply, LedgerTypes, StoppedInHandlers, OneBoundary,
       HaltAccounting, StopReferences, StartedOnlyWhenPermitted, AsOne
<1>5. CASE Teardown
  BY <1>5 DEF Teardown, StateRequested, LedgerTypes, StoppedInHandlers, OneBoundary,
       HaltAccounting, StopReferences, StartedOnlyWhenPermitted, AsOne
<1>6. CASE TornDown
  BY <1>6 DEF TornDown, Reply, LedgerTypes, StoppedInHandlers, OneBoundary, HaltAccounting,
       StopReferences, StartedOnlyWhenPermitted, AsOne
<1>7. CASE UnitReset
  BY <1>7 DEF UnitReset, StateRequested, CallAll, Call, LedgerTypes, StoppedInHandlers,
       OneBoundary, HaltAccounting, StopReferences, StartedOnlyWhenPermitted, AsOne
<1>8. CASE ResetDone
  <2>1. HaltAccounting' /\ haltCount' \in Nat /\ haltQueue' \in Seq(Reasons) /\ haltReason' \in BOOLEAN
    BY <1>8, HaltCleared, HaltUntouched DEF ResetDone, CallDone, VpsAnswered, Reply,
         ClearHalt, TryStart, MayRun, Start, Broadcast, haltLedger, LedgerTypes,
         StoppedInHandlers
  <2>2. StopReferences' /\ vpStopCount' \in Nat /\ guards' \in Nat /\ startVps' \in Nat
    BY <1>8, StopsUntouched, SMTT(30) DEF ResetDone, CallDone, VpsAnswered, Reply, ClearHalt, TryStart,
         MayRun, Start, Broadcast, stopLedger, LedgerTypes, StoppedInHandlers
  <2>3. StoppedInHandlers' /\ OneBoundary' /\ StartedOnlyWhenPermitted'
        /\ started' \in BOOLEAN /\ unitStarted' \in BOOLEAN
    BY <1>8, <2>1, <2>2 DEF ResetDone, CallDone, VpsAnswered, Reply, ClearHalt, TryStart,
         MayRun, Start, Broadcast, LedgerTypes, StoppedInHandlers, OneBoundary,
         StartedOnlyWhenPermitted
  <2> QED
    BY <2>1, <2>2, <2>3 DEF LedgerTypes
<1>9. CASE UnitSave
  BY <1>9 DEF UnitSave, StateRequested, CallAll, Call, LedgerTypes, StoppedInHandlers,
       OneBoundary, HaltAccounting, StopReferences, StartedOnlyWhenPermitted, AsOne
<1>10. CASE SaveDone
  BY <1>10 DEF SaveDone, CallDone, VpsAnswered, Reply, LedgerTypes, StoppedInHandlers,
       OneBoundary, HaltAccounting, StopReferences, StartedOnlyWhenPermitted, AsOne
<1>11. CASE RestoreRefused
  BY <1>11 DEF RestoreRefused, StateRequested, Reply, LedgerTypes, StoppedInHandlers,
       OneBoundary, HaltAccounting, StopReferences, StartedOnlyWhenPermitted, AsOne
<1>12. CASE UnitRestore
  BY <1>12 DEF UnitRestore, StateRequested, CallAll, Call, LedgerTypes, StoppedInHandlers,
       OneBoundary, HaltAccounting, StopReferences, StartedOnlyWhenPermitted, AsOne
<1>13. CASE RestoreDone
  <2>1. HaltAccounting' /\ haltCount' \in Nat /\ haltQueue' \in Seq(Reasons) /\ haltReason' \in BOOLEAN
    <3>1. UNCHANGED <<haltQueue, inHand>>
      BY <1>13 DEF RestoreDone
    <3>2. CASE UNCHANGED <<haltCount, haltReason, debugVars>>
      BY <3>1, <3>2, HaltUntouched DEF haltLedger, LedgerTypes
    <3>3. CASE ~started /\ haltCount = 0 /\ haltCount' = 1 /\ RecordHalt
      BY <3>1, <3>3, HaltRestored, SMTT(30) DEF RecordHalt, LedgerTypes
    <3> QED
      BY <1>13, <3>2, <3>3 DEF RestoreDone
  <2>2. StopReferences' /\ vpStopCount' \in Nat /\ guards' \in Nat /\ startVps' \in Nat
    BY <1>13, StopsUntouched, SMTT(30) DEF RestoreDone, CallDone, VpsAnswered, Reply, RecordHalt,
         ReportToDebugger, stopLedger, LedgerTypes, StoppedInHandlers
  <2>3. StoppedInHandlers' /\ OneBoundary' /\ StartedOnlyWhenPermitted'
        /\ started' \in BOOLEAN /\ unitStarted' \in BOOLEAN
    BY <1>13, <2>1, <2>2, SMTT(30) DEF RestoreDone, CallDone, VpsAnswered, Reply, RecordHalt,
         ReportToDebugger, LedgerTypes, StoppedInHandlers, OneBoundary,
         StartedOnlyWhenPermitted
  <2> QED
    BY <2>1, <2>2, <2>3 DEF LedgerTypes
<1> QED
  BY <1>1, <1>2, <1>3, <1>4, <1>5, <1>6, <1>7, <1>8, <1>9, <1>10, <1>11, <1>12, <1>13

LEMMA RequestKeepsLedger ==
  ASSUME Ledger, RequestClearHalt \/ InspectClearHalt \/ RegsScrub \/ RegsScrubbed \/ RegsSet \/ RegsDone
         \/ AcceptInitialPages \/ StopVps \/ VpsStopped \/ StartVps \/ DumpStopped \/ DumpDone
         \/ BoundaryStop \/ BoundaryDone \/ Timers \/ TimersDone
  PROVE  Ledger'
<1> USE DEF Ledger, setVars, vpVars, haltVars, ioVars, vpSetVars, taskVars, unitVars,
     hostVars, debugVars, vars
<1>1. CASE RequestClearHalt
  <2>1. HaltAccounting' /\ haltCount' \in Nat /\ haltQueue' \in Seq(Reasons) /\ haltReason' \in BOOLEAN
    BY <1>1, HaltCleared DEF RequestClearHalt, Requested, Reply, ClearHalt, TryStart, MayRun,
         Start, Broadcast, haltLedger, LedgerTypes, StoppedInHandlers
  <2>2. StopReferences' /\ vpStopCount' \in Nat /\ guards' \in Nat /\ startVps' \in Nat
    BY <1>1, StopsUntouched, SMTT(30) DEF RequestClearHalt, Requested, Reply, ClearHalt, TryStart,
         MayRun, Start, Broadcast, stopLedger, LedgerTypes, StoppedInHandlers
  <2>3. StoppedInHandlers' /\ OneBoundary' /\ StartedOnlyWhenPermitted'
        /\ started' \in BOOLEAN /\ unitStarted' \in BOOLEAN
    BY <1>1, <2>1, <2>2 DEF RequestClearHalt, Requested, Reply, ClearHalt, TryStart, MayRun,
         Start, Broadcast, LedgerTypes, StoppedInHandlers, OneBoundary,
         StartedOnlyWhenPermitted
  <2> QED
    BY <2>1, <2>2, <2>3, SMTT(30) DEF LedgerTypes
<1>2. CASE InspectClearHalt
  <2>1. HaltAccounting' /\ haltCount' \in Nat /\ haltQueue' \in Seq(Reasons) /\ haltReason' \in BOOLEAN
    BY <1>2, HaltCleared DEF InspectClearHalt, ClearHalt, TryStart, MayRun, Start, Broadcast,
         haltLedger, LedgerTypes, StoppedInHandlers
  <2>2. StopReferences' /\ vpStopCount' \in Nat /\ guards' \in Nat /\ startVps' \in Nat
    BY <1>2, StopsUntouched, SMTT(30) DEF InspectClearHalt, ClearHalt, TryStart, MayRun, Start,
         Broadcast, stopLedger, LedgerTypes, StoppedInHandlers
  <2>3. StoppedInHandlers' /\ OneBoundary' /\ StartedOnlyWhenPermitted'
        /\ started' \in BOOLEAN /\ unitStarted' \in BOOLEAN
    BY <1>2, <2>1, <2>2 DEF InspectClearHalt, ClearHalt, TryStart, MayRun, Start, Broadcast,
         LedgerTypes, StoppedInHandlers, OneBoundary, StartedOnlyWhenPermitted
  <2> QED
    BY <2>1, <2>2, <2>3 DEF LedgerTypes
<1>3. CASE RegsScrub
  BY <1>3 DEF RegsScrub, Requested, Call, LedgerTypes, StoppedInHandlers, OneBoundary,
       HaltAccounting, StopReferences, StartedOnlyWhenPermitted, AsOne
<1>4. CASE RegsScrubbed
  BY <1>4 DEF RegsScrubbed, VpsAnswered, Reply, Call, LedgerTypes, StoppedInHandlers,
       OneBoundary, HaltAccounting, StopReferences, StartedOnlyWhenPermitted, AsOne
<1>5. CASE RegsSet
  BY <1>5 DEF RegsSet, Requested, Call, LedgerTypes, StoppedInHandlers, OneBoundary,
       HaltAccounting, StopReferences, StartedOnlyWhenPermitted, AsOne
<1>6. CASE RegsDone
  BY <1>6 DEF RegsDone, CallDone, VpsAnswered, Reply, LedgerTypes, StoppedInHandlers,
       OneBoundary, HaltAccounting, StopReferences, StartedOnlyWhenPermitted, AsOne
<1>7. CASE AcceptInitialPages
  BY <1>7 DEF AcceptInitialPages, Requested, Reply, LedgerTypes, StoppedInHandlers,
       OneBoundary, HaltAccounting, StopReferences, StartedOnlyWhenPermitted, AsOne
<1>8. CASE StopVps
  BY <1>8 DEF StopVps, Requested, Stop, Broadcast, LedgerTypes, StoppedInHandlers,
       OneBoundary, HaltAccounting, StopReferences, StartedOnlyWhenPermitted, AsOne
<1>9. CASE VpsStopped
  <2>1. HaltAccounting' /\ haltCount' \in Nat /\ haltQueue' \in Seq(Reasons) /\ haltReason' \in BOOLEAN
    BY <1>9, HaltUntouched DEF VpsStopped, VpsAnswered, Reply, haltLedger, LedgerTypes,
         StoppedInHandlers
  <2>2. StopReferences' /\ vpStopCount' \in Nat /\ guards' \in Nat /\ startVps' \in Nat
    BY <1>9, SMTT(30) DEF VpsStopped, VpsAnswered, Reply, StopReferences, AsOne, LedgerTypes,
         OneBoundary
  <2>3. StoppedInHandlers' /\ OneBoundary' /\ StartedOnlyWhenPermitted'
        /\ started' \in BOOLEAN /\ unitStarted' \in BOOLEAN
    BY <1>9, <2>1, <2>2, SMTT(30) DEF VpsStopped, VpsAnswered, Reply, LedgerTypes, StoppedInHandlers,
         OneBoundary, StartedOnlyWhenPermitted, StopReferences, AsOne
  <2> QED
    BY <2>1, <2>2, <2>3 DEF LedgerTypes
<1>10. CASE StartVps
  <2>1. HaltAccounting' /\ haltCount' \in Nat /\ haltQueue' \in Seq(Reasons) /\ haltReason' \in BOOLEAN
    BY <1>10, HaltUntouched, SMTT(30) DEF StartVps, ResumeVps, TryStart, MayRun, Start, Broadcast,
         haltLedger, LedgerTypes, StoppedInHandlers
  <2>2. StopReferences' /\ vpStopCount' \in Nat /\ guards' \in Nat /\ startVps' \in Nat
    BY SMTT(20), <1>10 DEF StartVps, ResumeVps, TryStart, MayRun, Start, Broadcast, StopReferences,
         AsOne, LedgerTypes, OneBoundary
  <2>3. vpStopCount # 0 /\ ~started
    BY <1>10, SMTT(30) DEF StartVps, StopReferences, AsOne, LedgerTypes, StartedOnlyWhenPermitted
  <2>4. StoppedInHandlers' /\ OneBoundary' /\ StartedOnlyWhenPermitted'
        /\ started' \in BOOLEAN /\ unitStarted' \in BOOLEAN
    BY <1>10, <2>3 DEF StartVps, ResumeVps, TryStart, MayRun, Start, Broadcast,
         LedgerTypes, StoppedInHandlers, OneBoundary, StartedOnlyWhenPermitted
  <2> QED
    BY <2>1, <2>2, <2>4 DEF LedgerTypes
<1>11. CASE DumpStopped
  <2>1. HaltAccounting' /\ haltCount' \in Nat /\ haltQueue' \in Seq(Reasons) /\ haltReason' \in BOOLEAN
    BY <1>11, HaltUntouched, SMTT(30) DEF DumpStopped, VpsAnswered, haltLedger, LedgerTypes,
         StoppedInHandlers
  <2>2. StopReferences' /\ vpStopCount' \in Nat /\ guards' \in Nat /\ startVps' \in Nat
    BY <1>11, SMTT(30) DEF DumpStopped, VpsAnswered, StopReferences, AsOne, LedgerTypes, OneBoundary
  <2>3. StoppedInHandlers' /\ OneBoundary' /\ StartedOnlyWhenPermitted'
        /\ started' \in BOOLEAN /\ unitStarted' \in BOOLEAN
    BY <1>11, <2>1, <2>2, SMTT(30) DEF DumpStopped, VpsAnswered, LedgerTypes, StoppedInHandlers,
         OneBoundary, StartedOnlyWhenPermitted, StopReferences, AsOne
  <2> QED
    BY <2>1, <2>2, <2>3 DEF LedgerTypes
<1>12. CASE DumpDone
  <2>1. HaltAccounting' /\ haltCount' \in Nat /\ haltQueue' \in Seq(Reasons) /\ haltReason' \in BOOLEAN
    BY <1>12, HaltUntouched, SMTT(30) DEF DumpDone, VpsAnswered, Reply, ResumeVps, TryStart, MayRun,
         Start, Broadcast, haltLedger, LedgerTypes, StoppedInHandlers
  <2>2. StopReferences' /\ vpStopCount' \in Nat /\ guards' \in Nat /\ startVps' \in Nat
    BY <1>12, SMTT(30) DEF DumpDone, VpsAnswered, Reply, ResumeVps, TryStart, MayRun, Start, Broadcast,
         StopReferences, AsOne, LedgerTypes, OneBoundary
  <2>3. StoppedInHandlers' /\ OneBoundary' /\ StartedOnlyWhenPermitted'
        /\ started' \in BOOLEAN /\ unitStarted' \in BOOLEAN
    BY <1>12, <2>1, <2>2 DEF DumpDone, VpsAnswered, Reply, ResumeVps, TryStart, MayRun,
         Start, Broadcast, LedgerTypes, StoppedInHandlers, OneBoundary,
         StartedOnlyWhenPermitted, StopReferences, AsOne
  <2> QED
    BY <2>1, <2>2, <2>3 DEF LedgerTypes
<1>13. CASE BoundaryStop
  <2>1. HaltAccounting' /\ haltCount' \in Nat /\ haltQueue' \in Seq(Reasons) /\ haltReason' \in BOOLEAN
    BY <1>13, HaltUntouched, SMTT(30) DEF BoundaryStop, Requested, Stop, Broadcast, haltLedger,
         LedgerTypes, StoppedInHandlers
  <2>2. StopReferences' /\ vpStopCount' \in Nat /\ guards' \in Nat /\ startVps' \in Nat
    BY SMTT(20), <1>13 DEF BoundaryStop, Requested, Stop, Broadcast, StopReferences, AsOne,
         LedgerTypes, OneBoundary
  <2>3. StoppedInHandlers' /\ OneBoundary' /\ StartedOnlyWhenPermitted'
        /\ started' \in BOOLEAN /\ unitStarted' \in BOOLEAN
    BY <1>13, <2>1, <2>2 DEF BoundaryStop, Requested, Stop, Broadcast, LedgerTypes,
         StoppedInHandlers, OneBoundary, StartedOnlyWhenPermitted, StopReferences, AsOne
  <2> QED
    BY <2>1, <2>2, <2>3 DEF LedgerTypes
<1>14. CASE BoundaryDone
  <2>1. HaltAccounting' /\ haltCount' \in Nat /\ haltQueue' \in Seq(Reasons) /\ haltReason' \in BOOLEAN
    BY <1>14, HaltUntouched DEF BoundaryDone, VpsAnswered, Reply, haltLedger, LedgerTypes,
         StoppedInHandlers
  <2>2. StopReferences' /\ vpStopCount' \in Nat /\ guards' \in Nat /\ startVps' \in Nat
    BY <1>14, SMTT(30) DEF BoundaryDone, VpsAnswered, Reply, StopReferences, AsOne, LedgerTypes,
         OneBoundary
  <2>3. StoppedInHandlers' /\ OneBoundary' /\ StartedOnlyWhenPermitted'
        /\ started' \in BOOLEAN /\ unitStarted' \in BOOLEAN
    BY <1>14, <2>1, <2>2, SMTT(30) DEF BoundaryDone, VpsAnswered, Reply, LedgerTypes,
         StoppedInHandlers, OneBoundary, StartedOnlyWhenPermitted, StopReferences, AsOne
  <2> QED
    BY <2>1, <2>2, <2>3 DEF LedgerTypes
<1>15. CASE Timers
  BY <1>15 DEF Timers, Requested, Reply, Call, LedgerTypes, StoppedInHandlers, OneBoundary,
       HaltAccounting, StopReferences, StartedOnlyWhenPermitted, AsOne
<1>16. CASE TimersDone
  BY <1>16 DEF TimersDone, CallDone, VpsAnswered, Reply, LedgerTypes, StoppedInHandlers,
       OneBoundary, HaltAccounting, StopReferences, StartedOnlyWhenPermitted, AsOne
<1> QED
  BY <1>1, <1>2, <1>3, <1>4, <1>5, <1>6, <1>7, <1>8, <1>9, <1>10, <1>11, <1>12, <1>13, <1>14,
       <1>15, <1>16

LEMMA HostKeepsLedger ==
  ASSUME Ledger, DropGuard \/ ReleaseBoundary \/ RejectWrite
  PROVE  Ledger'
<1> USE DEF Ledger, setVars, vpVars, haltVars, ioVars, vpSetVars, taskVars, unitVars,
     hostVars, debugVars, vars
<1>1. CASE DropGuard
  <2>1. HaltAccounting' /\ haltCount' \in Nat /\ haltQueue' \in Seq(Reasons) /\ haltReason' \in BOOLEAN
    BY <1>1, HaltUntouched, SMTT(30) DEF DropGuard, haltLedger, LedgerTypes, StoppedInHandlers
  <2>2. StopReferences' /\ vpStopCount' \in Nat /\ guards' \in Nat /\ startVps' \in Nat
    BY <1>1, SMTT(30) DEF DropGuard, StopReferences, AsOne, LedgerTypes, OneBoundary
  <2>3. StoppedInHandlers' /\ OneBoundary' /\ StartedOnlyWhenPermitted'
        /\ started' \in BOOLEAN /\ unitStarted' \in BOOLEAN
    BY <1>1, <2>1, <2>2, SMTT(30) DEF DropGuard, LedgerTypes, StoppedInHandlers, OneBoundary,
         StartedOnlyWhenPermitted, StopReferences, AsOne
  <2> QED
    BY <2>1, <2>2, <2>3 DEF LedgerTypes
<1>2. CASE ReleaseBoundary
  <2>1. HaltAccounting' /\ haltCount' \in Nat /\ haltQueue' \in Seq(Reasons) /\ haltReason' \in BOOLEAN
    BY <1>2, HaltUntouched DEF ReleaseBoundary, haltLedger, LedgerTypes, StoppedInHandlers
  <2>2. StopReferences' /\ vpStopCount' \in Nat /\ guards' \in Nat /\ startVps' \in Nat
    BY <1>2, SMTT(30) DEF ReleaseBoundary, StopReferences, AsOne, LedgerTypes, OneBoundary
  <2>3. StoppedInHandlers' /\ OneBoundary' /\ StartedOnlyWhenPermitted'
        /\ started' \in BOOLEAN /\ unitStarted' \in BOOLEAN
    BY <1>2, <2>1, <2>2, SMTT(30) DEF ReleaseBoundary, LedgerTypes, StoppedInHandlers, OneBoundary,
         StartedOnlyWhenPermitted, StopReferences, AsOne
  <2> QED
    BY <2>1, <2>2, <2>3 DEF LedgerTypes
<1>3. CASE RejectWrite
  BY <1>3 DEF RejectWrite, Unblock, LedgerTypes, StoppedInHandlers, OneBoundary,
       HaltAccounting, StopReferences, StartedOnlyWhenPermitted, AsOne
<1> QED
  BY <1>1, <1>2, <1>3

LEMMA DebugKeepsLedger ==
  ASSUME Ledger, DebugAttach \/ DebugResume \/ DebugContinue \/ DebugBreak \/ DebugReadStop \/ DebugVpDone
         \/ DebugDisconnect
  PROVE  Ledger'
<1> USE DEF Ledger, setVars, vpVars, haltVars, ioVars, vpSetVars, taskVars, unitVars,
     hostVars, debugVars, vars
<1>1. CASE DebugAttach
  BY <1>1 DEF DebugAttach, LedgerTypes, StoppedInHandlers, OneBoundary, HaltAccounting,
       StopReferences, StartedOnlyWhenPermitted, AsOne
<1>2. CASE DebugResume
  BY <1>2 DEF DebugResume, LedgerTypes, StoppedInHandlers, OneBoundary, HaltAccounting,
       StopReferences, StartedOnlyWhenPermitted, AsOne
<1>3. CASE DebugContinue
  <2>1. HaltAccounting' /\ haltCount' \in Nat /\ haltQueue' \in Seq(Reasons) /\ haltReason' \in BOOLEAN
    BY <1>3, HaltCleared DEF DebugContinue, ClearHalt, TryStart, MayRun, Start, Broadcast,
         haltLedger, LedgerTypes, StoppedInHandlers
  <2>2. StopReferences' /\ vpStopCount' \in Nat /\ guards' \in Nat /\ startVps' \in Nat
    BY <1>3, StopsUntouched, SMTT(30) DEF DebugContinue, ClearHalt, TryStart, MayRun, Start, Broadcast,
         stopLedger, LedgerTypes, StoppedInHandlers
  <2>3. StoppedInHandlers' /\ OneBoundary' /\ StartedOnlyWhenPermitted'
        /\ started' \in BOOLEAN /\ unitStarted' \in BOOLEAN
    BY <1>3, <2>1, <2>2 DEF DebugContinue, ClearHalt, TryStart, MayRun, Start, Broadcast,
         LedgerTypes, StoppedInHandlers, OneBoundary, StartedOnlyWhenPermitted
  <2> QED
    BY <2>1, <2>2, <2>3 DEF LedgerTypes
<1>4. CASE DebugBreak
  <2>1. HaltAccounting' /\ haltCount' \in Nat /\ haltQueue' \in Seq(Reasons) /\ haltReason' \in BOOLEAN
    BY <1>4, HaltRaised, SMTT(30) DEF DebugBreak, Reasons, LedgerTypes
  <2>2. StopReferences' /\ vpStopCount' \in Nat /\ guards' \in Nat /\ startVps' \in Nat
    BY <1>4, StopsUntouched, SMTT(30) DEF DebugBreak, RaiseHalt, stopLedger, LedgerTypes,
         StoppedInHandlers
  <2>3. StoppedInHandlers' /\ OneBoundary' /\ StartedOnlyWhenPermitted'
        /\ started' \in BOOLEAN /\ unitStarted' \in BOOLEAN
    BY <1>4, <2>1, <2>2, SMTT(30) DEF DebugBreak, RaiseHalt, LedgerTypes, StoppedInHandlers,
         OneBoundary, StartedOnlyWhenPermitted
  <2> QED
    BY <2>1, <2>2, <2>3 DEF LedgerTypes
<1>5. CASE DebugReadStop
  BY <1>5 DEF DebugReadStop, LedgerTypes, StoppedInHandlers, OneBoundary, HaltAccounting,
       StopReferences, StartedOnlyWhenPermitted, AsOne
<1>6. CASE DebugVpDone
  BY <1>6 DEF DebugVpDone, CallDone, VpsAnswered, LedgerTypes, StoppedInHandlers,
       OneBoundary, HaltAccounting, StopReferences, StartedOnlyWhenPermitted, AsOne
<1>7. CASE DebugDisconnect
  BY <1>7 DEF DebugDisconnect, LedgerTypes, StoppedInHandlers, OneBoundary, HaltAccounting,
       StopReferences, StartedOnlyWhenPermitted, AsOne
<1> QED
  BY <1>1, <1>2, <1>3, <1>4, <1>5, <1>6, <1>7

(* The steps that are taken for one call or one VP. *)
LEMMA IndexedKeepsLedger ==
  ASSUME Ledger,
         \/ \E c \in {"Reset", "Save", "Restore", "SetInitialRegs"} : PartitionFails(c)
         \/ \E c \in Calls : HostCall(c)
         \/ \E v \in VPs : InspectVp(v) \/ DebugVp(v) \/ DumpVp(v)
  PROVE  Ledger'
<1> USE DEF Ledger, setVars, vpVars, haltVars, ioVars, vpSetVars, taskVars, unitVars, hostVars,
     debugVars, LedgerTypes, StoppedInHandlers, OneBoundary, HaltAccounting, StopReferences,
     StartedOnlyWhenPermitted
<1>1. ASSUME NEW c \in {"Reset", "Save", "Restore", "SetInitialRegs"}, PartitionFails(c)
      PROVE  Ledger'
  BY <1>1 DEF PartitionFails, StateRequested, Reply
<1>2. ASSUME NEW c \in Calls, HostCall(c)
      PROVE  Ledger'
  BY <1>2, SMTT(30) DEF HostCall, Allowed
<1>3. ASSUME NEW v \in VPs, InspectVp(v) PROVE Ledger'
  BY <1>3 DEF InspectVp
<1>4. ASSUME NEW v \in VPs, DebugVp(v) PROVE Ledger'
  BY <1>4 DEF DebugVp, Call, AsOne
<1>5. ASSUME NEW v \in VPs, DumpVp(v) PROVE Ledger'
  BY <1>5 DEF DumpVp, Call
<1> QED
  BY <1>1, <1>2, <1>3, <1>4, <1>5

(* The VPs and the devices reach the ledger only by raising a halt, and by *)
(* a write to the snapshot port.                                           *)
LEMMA OutsideKeepsLedger ==
  ASSUME Ledger, Outside, UNCHANGED started,
         boundary = "none" => io' \in {"none", "pending"} /\ (io = "pending" => io' = io),
         boundary # "none" => io' \notin {"none", "pending"},
         UNCHANGED haltVars \/ \E reason \in Reasons : RaiseHalt(reason)
  PROVE  Ledger'
<1> USE DEF Outside, taskVars, unitVars, hostVars
<1>1. HaltAccounting' /\ haltCount' \in Nat /\ haltQueue' \in Seq(Reasons)
  BY HaltRaised, HaltUntouched DEF Ledger, LedgerTypes, haltVars, haltLedger
<1>2. StopReferences'
  BY StopsUntouched DEF Ledger, stopLedger
<1>3. OneBoundary'
  BY DEF Ledger, OneBoundary
<1> QED
  BY <1>1, <1>2, <1>3 DEF Ledger, LedgerTypes, StoppedInHandlers, StartedOnlyWhenPermitted

LEMMA VpKeepsLedger ==
  ASSUME Ledger, NEW v \in VPs, RunVp(v) \/ RunGuest(v)
  PROVE  Ledger'
<1> USE DEF setVars, vpVars, haltVars, ioVars
<1>1. Outside
  BY DEF RunVp, RunGuest
<1>2. CASE VpStep(v)
  <2>1. UNCHANGED <<started, haltVars, io>>
    BY <1>2 DEF VpStep, WaitStart, WaitStop, WaitState, WaitTeardown, EnterLoop, PollChannel,
       PollHalt, Yield, VpStopped, LeaveLoop
  <2> QED
    BY <1>1, <2>1, OutsideKeepsLedger, SMTT(30) DEF Ledger, OneBoundary
<1>3. CASE SnapshotWrite(v)
  <2>1. UNCHANGED <<started, haltVars>> /\ io = "none" /\ io' = "pending"
    BY <1>3, SMTT(30) DEF SnapshotWrite
  <2> QED
    BY <1>1, <2>1, OutsideKeepsLedger DEF Ledger, OneBoundary
<1>4. CASE EnterGuest(v) \/ Cancelled(v)
  <2>1. UNCHANGED <<started, haltVars, io>>
    BY <1>4 DEF EnterGuest, Cancelled, LeaveLoop
  <2> QED
    BY <1>1, <2>1, OutsideKeepsLedger DEF Ledger, OneBoundary
<1>5. CASE GuestHalts(v) \/ \E reason \in HaltSources : GuestIoHalts(v, reason)
  <2>1. UNCHANGED <<started, io>> /\ \E reason \in Reasons : RaiseHalt(reason)
    BY <1>5, PartitionAssumption DEF GuestHalts, GuestIoHalts, LeaveLoop, Reasons
  <2> QED
    BY <1>1, <2>1, OutsideKeepsLedger, SMTT(30) DEF Ledger, OneBoundary
<1> QED
  BY <1>2, <1>3, <1>4, <1>5 DEF RunVp, RunGuest, GuestStep

LEMMA DeviceKeepsLedger ==
  ASSUME Ledger, RunDevice \/ HaltFromDevice
  PROVE  Ledger'
<1> USE DEF setVars, ioVars, haltVars
<1>1. CASE RunDevice
  <2>1. Outside /\ UNCHANGED <<started, haltVars>> /\ io = "released" /\ io' \in {"done", "failed"}
    BY <1>1 DEF RunDevice, CompleteWrite
  <2> QED
    BY <2>1, OutsideKeepsLedger DEF Ledger, OneBoundary
<1>2. CASE HaltFromDevice
  <2>1. Outside /\ UNCHANGED <<started, io>> /\ \E reason \in Reasons : RaiseHalt(reason)
    BY <1>2, PartitionAssumption DEF HaltFromDevice, DeviceHalts
  <2> QED
    BY <2>1, OutsideKeepsLedger DEF Ledger, OneBoundary
<1> QED
  BY <1>1, <1>2

-----------------------------------------------------------------------------

LEMMA InitLedger == Init => Ledger
<1> SUFFICES ASSUME Init PROVE Ledger
  OBVIOUS
<1> USE DEF Init, VpInit
<1>1. LedgerTypes
  <2>1. haltQueue \in Seq(Reasons)
    BY SMTT(20)
  <2>2. started \in BOOLEAN /\ unitStarted \in BOOLEAN /\ haltReason \in BOOLEAN
    OBVIOUS
  <2> QED
    BY <2>1, <2>2 DEF LedgerTypes
<1>2. HaltAccounting /\ StopReferences
  BY SMTT(20) DEF HaltAccounting, StopReferences, AsOne
<1> QED
  BY <1>1, <1>2 DEF Ledger, StoppedInHandlers, OneBoundary, StartedOnlyWhenPermitted

LEMMA StutterKeepsLedger == Ledger /\ UNCHANGED vars => Ledger'
  BY SMTT(20), HaltUntouched, StopsUntouched DEF vars, vpSetVars, setVars, haltVars, ioVars, taskVars,
     unitVars, hostVars, haltLedger, stopLedger, Ledger, LedgerTypes, StoppedInHandlers,
     OneBoundary, StartedOnlyWhenPermitted

LEMMA NextKeepsLedger == Ledger /\ [Next]_vars => Ledger'
<1> SUFFICES ASSUME Ledger, [Next]_vars PROVE Ledger'
  OBVIOUS
<1>1. CASE TakeHalt
  BY <1>1, HaltKeepsLedger
<1>2. CASE ServeState
  BY <1>2, StateKeepsLedger, IndexedKeepsLedger DEF ServeState
<1>3. CASE ServeRequest
  BY <1>3, RequestKeepsLedger, IndexedKeepsLedger DEF ServeRequest
<1>4. CASE ServeDebug
  BY <1>4, DebugKeepsLedger, IndexedKeepsLedger DEF ServeDebug
<1>5. CASE ServeInspect
  BY <1>5, RequestKeepsLedger, IndexedKeepsLedger DEF ServeInspect
<1>6. CASE Proceed
  BY <1>6, HaltKeepsLedger, StateKeepsLedger, RequestKeepsLedger, DebugKeepsLedger,
     IndexedKeepsLedger DEF Proceed
<1>7. CASE Host
  BY <1>7, HostKeepsLedger, IndexedKeepsLedger DEF Host
<1>8. CASE DebugReadStop \/ DebugDisconnect
  BY <1>8, DebugKeepsLedger
<1>9. CASE \E v \in VPs : RunVp(v) \/ RunGuest(v)
  BY <1>9, VpKeepsLedger
<1>10. CASE RunDevice \/ HaltFromDevice
  BY <1>10, DeviceKeepsLedger
<1>11. CASE Terminated \/ UNCHANGED vars
  BY <1>11, StutterKeepsLedger DEF Terminated
<1> QED
  BY <1>1, <1>2, <1>3, <1>4, <1>5, <1>6, <1>7, <1>8, <1>9, <1>10, <1>11 DEF Next

(* The ledger of halts and stops holds: every handler of the partition     *)
(* unit's run loop, and every halt raised from a VP, a device or a client, *)
(* changes both sides of it together.                                      *)
THEOREM LedgerHolds == Spec => []Ledger
  BY InitLedger, NextKeepsLedger, PTL DEF Spec

(* The two counts balance, whatever the VPs, devices, clients and debuggers *)
(* do: halt_count (Halt::halt_internal, clear_halt) is the number of halts  *)
(* queued, in the task's hands and recorded, and vp_stop_count (stop_vps,   *)
(* resume_vps) the references that were taken and not given back.           *)
THEOREM CountsAreKept == Spec => []CountsBalance
<1>1. Ledger => CountsBalance
  BY DEF Ledger, CountsBalance
<1> QED
  BY <1>1, LedgerHolds, PTL

(***************************************************************************)
(* The channel of a VP.                                                    *)
(***************************************************************************)

None(q, e) == \A i \in 1 .. Len(q) : q[i] # e
One(q, e) == \E i \in 1 .. Len(q) : q[i] = e /\ \A j \in 1 .. Len(q) : q[j] = e => j = i
Ordered(q) == \A i, j \in 1 .. Len(q) : q[i] = "Start" /\ q[j] = "Stop" => i < j

LEMMA EmptyChannel ==
  ASSUME NEW q, q = <<>>, NEW e
  PROVE  None(q, e) /\ ~One(q, e) /\ Ordered(q)
  BY SMTT(20) DEF None, One, Ordered

(* What an event sent to the channel does. *)
LEMMA Sent ==
  ASSUME NEW q \in Seq(Events), NEW f \in Events, NEW e \in Events
  PROVE  /\ Append(q, f) \in Seq(Events)
         /\ None(q, f) => One(Append(q, f), f)
         /\ e # f => (None(q, e) => None(Append(q, f), e)) /\ (One(q, e) => One(Append(q, f), e))
         /\ Ordered(q) /\ (f # "Start" \/ None(q, "Stop")) => Ordered(Append(q, f))
<1> DEFINE r == Append(q, f)
<1>1. r \in Seq(Events) /\ Len(r) = Len(q) + 1 /\ Len(q) \in Nat /\ r[Len(q) + 1] = f
      /\ \A i \in 1 .. Len(q) : r[i] = q[i]
  BY SMTT(20)
<1>2. \A i \in 1 .. Len(r) : i = Len(q) + 1 \/ i \in 1 .. Len(q)
  BY SMTT(20), <1>1
<1> HIDE DEF r
<1>3. None(q, f) => One(r, f)
  <2> SUFFICES ASSUME None(q, f) PROVE One(r, f)
    OBVIOUS
  <2>1. Len(q) + 1 \in 1 .. Len(r) /\ r[Len(q) + 1] = f
    BY SMTT(20), <1>1
  <2>2. \A j \in 1 .. Len(r) : r[j] = f => j = Len(q) + 1
    BY <1>1, <1>2 DEF None
  <2> QED
    BY <2>1, <2>2 DEF One
<1>4. e # f /\ None(q, e) => None(r, e)
  BY <1>1, <1>2 DEF None
<1>5. e # f /\ One(q, e) => One(r, e)
  <2> SUFFICES ASSUME e # f, One(q, e) PROVE One(r, e)
    OBVIOUS
  <2>1. PICK i \in 1 .. Len(q) : q[i] = e /\ \A j \in 1 .. Len(q) : q[j] = e => j = i
    BY DEF One
  <2>2. i \in 1 .. Len(r) /\ r[i] = e
    BY SMTT(20), <1>1, <2>1
  <2>3. \A j \in 1 .. Len(r) : r[j] = e => j = i
    BY <1>1, <1>2, <2>1
  <2> QED
    BY <2>2, <2>3 DEF One
<1>6. Ordered(q) /\ (f # "Start" \/ None(q, "Stop")) => Ordered(r)
  BY SMTT(20), <1>1, <1>2 DEF Ordered, None
<1> QED
  BY <1>1, <1>3, <1>4, <1>5, <1>6 DEF r

(* What receiving the first event leaves. *)
LEMMA Received ==
  ASSUME NEW q \in Seq(Events), q # <<>>, NEW e \in Events
  PROVE  /\ Tail(q) \in Seq(Events) /\ Head(q) \in Events
         /\ None(q, e) => Head(q) # e /\ None(Tail(q), e)
         /\ One(q, e) => IF Head(q) = e THEN None(Tail(q), e) ELSE One(Tail(q), e)
         /\ Ordered(q) => Ordered(Tail(q))
         /\ Ordered(q) /\ One(q, "Start") => Head(q) # "Stop"
<1> DEFINE r == Tail(q)
<1>1. r \in Seq(Events) /\ Len(r) = Len(q) - 1 /\ Len(q) \in Nat \ {0} /\ Head(q) = q[1]
      /\ q[1] \in Events /\ \A i \in 1 .. Len(r) : r[i] = q[i + 1] /\ i + 1 \in 1 .. Len(q)
  BY SMTT(20)
<1>2. \A j \in 1 .. Len(q) : j = 1 \/ (j - 1 \in 1 .. Len(r) /\ r[j - 1] = q[j])
  BY SMTT(20), <1>1
<1> HIDE DEF r
<1>3. None(q, e) => q[1] # e /\ None(r, e)
  BY SMTT(20), <1>1 DEF None
<1>4. ASSUME One(q, e), q[1] = e PROVE None(r, e)
  BY SMTT(20), <1>1, <1>4 DEF One, None
<1>5. ASSUME One(q, e), q[1] # e PROVE One(r, e)
  <2>1. PICK i \in 1 .. Len(q) : q[i] = e /\ \A j \in 1 .. Len(q) : q[j] = e => j = i
    BY <1>5 DEF One
  <2>2. i - 1 \in 1 .. Len(r) /\ r[i - 1] = e
    BY <1>2, <1>5, <2>1
  <2>3. \A j \in 1 .. Len(r) : r[j] = e => j = i - 1
    BY SMTT(20), <1>1, <2>1
  <2> QED
    BY <2>2, <2>3 DEF One
<1>6. Ordered(q) => Ordered(r)
  BY SMTT(20), <1>1 DEF Ordered
<1>7. Ordered(q) /\ One(q, "Start") => q[1] # "Stop"
  BY SMTT(20), <1>1 DEF Ordered, One
<1> QED
  BY <1>1, <1>3, <1>4, <1>5, <1>6, <1>7 DEF r

Deserted(q) == [i \in 1 .. Len(q) |-> IF q[i] = "State" THEN "Unawaited" ELSE q[i]]

(* What a caller that gives up leaves. *)
LEMMA Abandoned ==
  ASSUME NEW q \in Seq(Events), NEW e \in {"Start", "Stop"}
  PROVE  /\ Deserted(q) \in Seq(Events)
         /\ None(Deserted(q), "State")
         /\ None(q, e) => None(Deserted(q), e)
         /\ One(q, e) => One(Deserted(q), e)
         /\ Ordered(q) => Ordered(Deserted(q))
<1> DEFINE r == Deserted(q)
<1>1. Len(q) \in Nat /\ \A i \in 1 .. Len(q) : q[i] \in Events
  BY SMTT(20)
<1>2. r \in [1 .. Len(q) -> Events]
  BY <1>1 DEF Deserted, Events
<1>3. r \in Seq(Events) /\ Len(r) = Len(q)
  BY SMTT(20), <1>1, <1>2
<1>4. \A i \in 1 .. Len(q) : r[i] = IF q[i] = "State" THEN "Unawaited" ELSE q[i]
  BY DEF Deserted
<1> HIDE DEF r
<1>5. None(r, "State")
  BY <1>3, <1>4 DEF None
<1>6. None(q, e) => None(r, e)
  BY <1>3, <1>4 DEF None
<1>7. One(q, e) => One(r, e)
  BY <1>3, <1>4 DEF One
<1>8. Ordered(q) => Ordered(r)
  BY <1>3, <1>4 DEF Ordered
<1> QED
  BY <1>3, <1>5, <1>6, <1>7, <1>8 DEF r

-----------------------------------------------------------------------------
(* What a VP and the unit's task know of each other. *)

StopPcs == {"halt", "stop", "stopVps", "dumpStop", "boundary"}
CallPcs == {"replay", "drainReplay", "reset", "save", "restore", "scrub", "setRegs", "timers",
            "dump", "debug"}

(* The task awaits the VP's answer to a stop, or to a state request. *)
Due(v) == pc \in StopPcs /\ v \in awaiting
Asked(v) == pc \in CallPcs /\ v \in awaiting

VpTypes ==
    /\ awaiting \subseteq VPs
    /\ queue \in [VPs -> Seq(Events)]
    /\ vpState \in [VPs -> VpStates]
    /\ phase \in [VPs -> {"top", "select", "guest", "io", "gone"}]
    /\ stopping \in [VPs -> BOOLEAN]
    /\ stopAck \in [VPs -> BOOLEAN]
    /\ held \in [VPs -> BOOLEAN]

(* Where the runner is decides what its locals hold. *)
LoopInv(v) ==
    /\ phase[v] \in {"select", "guest", "io"} => vpState[v] = "Running"
    /\ stopAck[v] \/ held[v] => phase[v] \in {"select", "io"} /\ stopping[v]
    /\ phase[v] = "guest" => ~stopping[v]
    /\ phase[v] = "gone" => closed

(* One stop is on its way to a VP the task awaits, one start to a VP that  *)
(* is to run and does not, in this order, and nothing to any other VP,     *)
(* which is stopped.                                                       *)
ControlInv(v) ==
    /\ Ordered(queue[v])
    /\ started => ~stopAck[v] /\ None(queue[v], "Stop")
    /\ Due(v) => /\ ~started
                 /\ IF stopAck[v] THEN None(queue[v], "Stop") /\ None(queue[v], "Start")
                                  ELSE One(queue[v], "Stop")
    /\ started \/ Due(v) => IF vpState[v] = "Stopped" THEN One(queue[v], "Start")
                                                       ELSE None(queue[v], "Start")
    /\ ~started /\ ~Due(v) =>
         /\ None(queue[v], "Start") /\ None(queue[v], "Stop") /\ ~stopAck[v]
         /\ vpState[v] = "Stopped" /\ phase[v] \in {"top", "gone"}

(* An awaited state request is in the channel or in the runner's hands. *)
ReplyInv(v) ==
    IF Asked(v)
    THEN IF held[v] THEN None(queue[v], "State") ELSE One(queue[v], "State")
    ELSE ~held[v] /\ None(queue[v], "State")

VpInv(v) == LoopInv(v) /\ ControlInv(v) /\ ReplyInv(v)

Channels == VpTypes /\ \A v \in VPs : VpInv(v)

-----------------------------------------------------------------------------
(* What the task does to the VPs. *)

Untouched ==
    /\ UNCHANGED <<started, queue, awaiting, vpVars>>
    /\ pc' = pc \/ awaiting = {}
    /\ closed => closed'

Starting == awaiting = {} /\ Start /\ UNCHANGED <<awaiting, closed, vpVars>>

Stopping == awaiting = {} /\ Stop /\ pc' \in StopPcs /\ UNCHANGED <<closed, vpVars>>

Calling ==
    /\ awaiting = {} /\ pc' \in CallPcs
    /\ \E targets \in SUBSET VPs : Call(targets)
    /\ UNCHANGED <<started, closed, vpVars>>

LEMMA UntouchedKeeps ==
  ASSUME Channels, Untouched
  PROVE  Channels'
<1>1. VpTypes'
  BY DEF Channels, Untouched, VpTypes, vpVars
<1>2. ASSUME NEW v \in VPs PROVE VpInv(v)'
  BY <1>2 DEF Channels, Untouched, VpInv, LoopInv, ControlInv, ReplyInv, Due, Asked, vpVars
<1> QED
  BY <1>1, <1>2 DEF Channels

LEMMA StartingKeeps ==
  ASSUME Channels, Starting
  PROVE  Channels'
<1>1. CASE started
  <2>1. Untouched
    BY <1>1 DEF Starting, Start, Untouched
  <2> QED
    BY <2>1, UntouchedKeeps
<1>2. CASE ~started
  <2>1. queue' = [v \in VPs |-> Append(queue[v], "Start")] /\ started' /\ awaiting = {}
        /\ UNCHANGED <<awaiting, closed, vpState, phase, stopping, stopAck, held>>
    BY <1>2 DEF Starting, Start, Broadcast, vpVars
  <2>2. ASSUME NEW v \in VPs
        PROVE  /\ queue'[v] \in Seq(Events) /\ Ordered(queue'[v]) /\ One(queue'[v], "Start")
               /\ None(queue'[v], "Stop") /\ None(queue'[v], "State")
    <3>1. queue[v] \in Seq(Events) /\ VpInv(v) /\ queue'[v] = Append(queue[v], "Start")
      BY <2>1 DEF Channels, VpTypes
    <3>2. Ordered(queue[v]) /\ None(queue[v], "Start") /\ None(queue[v], "Stop") /\ None(queue[v], "State")
      BY <1>2, <2>1, <3>1 DEF VpInv, ControlInv, ReplyInv, Due, Asked
    <3>3. "Start" \in Events /\ "Stop" \in Events /\ "State" \in Events
      BY DEF Events
    <3> QED
      BY <3>1, <3>2, <3>3, Sent
  <2>3. VpTypes'
    <3>1. queue' \in [VPs -> Seq(Events)]
      BY <2>1, <2>2
    <3> QED
      BY <2>1, <3>1 DEF Channels, VpTypes
  <2>4. ASSUME NEW v \in VPs PROVE VpInv(v)'
    <3>1. VpInv(v)
      BY DEF Channels
    <3> QED
      BY <1>2, <2>1, <2>2, <3>1 DEF VpInv, LoopInv, ControlInv, ReplyInv, Due, Asked
  <2> QED
    BY <2>3, <2>4 DEF Channels
<1> QED
  BY <1>1, <1>2

LEMMA StoppingKeeps ==
  ASSUME Channels, Stopping
  PROVE  Channels'
<1>1. CASE ~started
  <2>1. Untouched
    BY <1>1 DEF Stopping, Stop, Untouched
  <2> QED
    BY <2>1, UntouchedKeeps
<1>2. CASE started
  <2>1. queue' = [v \in VPs |-> Append(queue[v], "Stop")] /\ ~started' /\ awaiting = {} /\ awaiting' = VPs
        /\ pc' \in StopPcs /\ UNCHANGED <<closed, vpState, phase, stopping, stopAck, held>>
    BY <1>2 DEF Stopping, Stop, Broadcast, vpVars
  <2>2. ASSUME NEW v \in VPs
        PROVE  /\ queue'[v] \in Seq(Events) /\ Ordered(queue'[v]) /\ One(queue'[v], "Stop")
               /\ None(queue[v], "Start") => None(queue'[v], "Start")
               /\ One(queue[v], "Start") => One(queue'[v], "Start")
               /\ None(queue'[v], "State")
    <3>1. queue[v] \in Seq(Events) /\ VpInv(v) /\ queue'[v] = Append(queue[v], "Stop")
      BY <2>1 DEF Channels, VpTypes
    <3>2. Ordered(queue[v]) /\ None(queue[v], "Stop") /\ None(queue[v], "State")
      BY <1>2, <2>1, <3>1 DEF VpInv, ControlInv, ReplyInv, Asked
    <3>3. "Start" \in Events /\ "Stop" \in Events /\ "State" \in Events
      BY DEF Events
    <3> QED
      BY <3>1, <3>2, <3>3, Sent
  <2>3. VpTypes'
    <3>1. queue' \in [VPs -> Seq(Events)]
      BY <2>1, <2>2
    <3> QED
      BY <2>1, <3>1 DEF Channels, VpTypes
  <2>4. ASSUME NEW v \in VPs PROVE VpInv(v)'
    <3>1. VpInv(v)
      BY DEF Channels
    <3>2. Due(v)' /\ ~Asked(v)' /\ ~Asked(v)
      BY <2>1 DEF Due, Asked, StopPcs, CallPcs
    <3> QED
      BY <1>2, <2>1, <2>2, <3>1, <3>2 DEF VpInv, LoopInv, ControlInv, ReplyInv
  <2> QED
    BY <2>3, <2>4 DEF Channels
<1> QED
  BY <1>1, <1>2

LEMMA CallingKeeps ==
  ASSUME Channels, Calling
  PROVE  Channels'
<1>1. PICK targets \in SUBSET VPs : Call(targets)
  BY DEF Calling
<1>2. queue' = [v \in VPs |-> IF v \in targets THEN Append(queue[v], "State") ELSE queue[v]]
      /\ awaiting = {} /\ awaiting' = targets /\ pc' \in CallPcs
      /\ UNCHANGED <<started, closed, vpState, phase, stopping, stopAck, held>>
  BY <1>1 DEF Call, Calling, vpVars
<1>3. ASSUME NEW v \in VPs
      PROVE  /\ queue'[v] \in Seq(Events)
             /\ Ordered(queue[v]) => Ordered(queue'[v])
             /\ None(queue[v], "Start") => None(queue'[v], "Start")
             /\ One(queue[v], "Start") => One(queue'[v], "Start")
             /\ None(queue[v], "Stop") => None(queue'[v], "Stop")
             /\ One(queue[v], "Stop") => One(queue'[v], "Stop")
             /\ IF v \in targets THEN One(queue'[v], "State") ELSE None(queue'[v], "State")
  <2>1. queue[v] \in Seq(Events) /\ VpInv(v)
        /\ queue'[v] = IF v \in targets THEN Append(queue[v], "State") ELSE queue[v]
    BY <1>2 DEF Channels, VpTypes
  <2>2. None(queue[v], "State")
    BY <1>2, <2>1 DEF VpInv, ReplyInv, Asked
  <2>3. "Start" \in Events /\ "Stop" \in Events /\ "State" \in Events
    BY DEF Events
  <2> QED
    BY <2>1, <2>2, <2>3, Sent
<1>4. VpTypes'
  <2>1. queue' \in [VPs -> Seq(Events)]
    BY <1>2, <1>3
  <2> QED
    BY <1>2, <2>1 DEF Channels, VpTypes
<1>5. ASSUME NEW v \in VPs PROVE VpInv(v)'
  <2>1. VpInv(v)
    BY DEF Channels
  <2>2. ~Due(v)' /\ ~Due(v) /\ ~Asked(v) /\ (Asked(v)' <=> v \in targets)
    BY <1>2 DEF Due, Asked, StopPcs, CallPcs
  <2> QED
    BY <1>2, <1>3, <2>1, <2>2 DEF VpInv, LoopInv, ControlInv, ReplyInv
<1> QED
  BY <1>4, <1>5 DEF Channels

-----------------------------------------------------------------------------
(* What a VP does. *)

(* A step of one VP leaves the others alone. *)
Elsewhere(v) ==
    /\ UNCHANGED <<started, closed, pc>>
    /\ \A w \in VPs \ {v} :
         /\ queue'[w] = queue[w] /\ vpState'[w] = vpState[w] /\ phase'[w] = phase[w]
         /\ stopping'[w] = stopping[w] /\ stopAck'[w] = stopAck[w] /\ held'[w] = held[w]
         /\ w \in awaiting' <=> w \in awaiting

LEMMA OthersKeep ==
  ASSUME Channels, NEW v \in VPs, Elsewhere(v), VpTypes', VpInv(v)'
  PROVE  Channels'
<1>1. ASSUME NEW w \in VPs \ {v} PROVE VpInv(w)'
  <2>1. VpInv(w)
    BY DEF Channels
  <2>2. Due(w)' = Due(w) /\ Asked(w)' = Asked(w)
    BY DEF Elsewhere, Due, Asked
  <2> QED
    BY <2>1, <2>2 DEF Elsewhere, VpInv, LoopInv, ControlInv, ReplyInv
<1> QED
  BY <1>1 DEF Channels

(* The first event of the channel is received. *)
LEMMA Pop ==
  ASSUME Channels, NEW v \in VPs, queue[v] # <<>>, NEW q, q = Tail(queue[v])
  PROVE  /\ Popped(v) \in [VPs -> Seq(Events)] /\ Popped(v)[v] = q
         /\ \A w \in VPs \ {v} : Popped(v)[w] = queue[w]
         /\ q \in Seq(Events) /\ Head(queue[v]) \in Events
         /\ Ordered(queue[v]) => Ordered(q)
         /\ Ordered(queue[v]) /\ One(queue[v], "Start") => Head(queue[v]) # "Stop"
         /\ \A e \in Events :
              /\ None(queue[v], e) => Head(queue[v]) # e /\ None(q, e)
              /\ One(queue[v], e) => IF Head(queue[v]) = e THEN None(q, e) ELSE One(q, e)
<1>1. queue \in [VPs -> Seq(Events)] /\ queue[v] \in Seq(Events)
  BY DEF Channels, VpTypes
<1>2. q \in Seq(Events)
  BY SMTT(20), <1>1
<1>3. Popped(v) \in [VPs -> Seq(Events)] /\ Popped(v)[v] = q /\ \A w \in VPs \ {v} : Popped(v)[w] = queue[w]
  BY <1>1, <1>2 DEF Popped
<1>4. "Start" \in Events
  BY DEF Events
<1> QED
  BY SMTT(20), <1>1, <1>2, <1>3, <1>4, Received

LEMMA WaitStartKeeps ==
  ASSUME Channels, NEW v \in VPs, WaitStart(v), UNCHANGED pc
  PROVE  Channels' /\ ~panic'
<1> DEFINE q == Tail(queue[v])
<1>1. queue[v] # <<>> /\ Head(queue[v]) = "Start" /\ queue' = Popped(v) /\ phase[v] = "top"
      /\ vpState' = [vpState EXCEPT ![v] = "Running"] /\ panic' = (vpState[v] # "Stopped")
      /\ UNCHANGED <<started, awaiting, closed, phase, stopping, stopAck, held>>
  BY DEF WaitStart, Waiting, Receives
<1>2. VpTypes /\ VpInv(v)
  BY DEF Channels
<1>3. "Start" \in Events /\ "Stop" \in Events /\ "State" \in Events /\ "Running" \in VpStates
  BY DEF Events, VpStates
<1>4. /\ Popped(v) \in [VPs -> Seq(Events)] /\ Popped(v)[v] = q
      /\ \A w \in VPs \ {v} : Popped(v)[w] = queue[w]
      /\ Ordered(queue[v]) => Ordered(q)
      /\ \A e \in Events :
           /\ None(queue[v], e) => Head(queue[v]) # e /\ None(q, e)
           /\ One(queue[v], e) => IF Head(queue[v]) = e THEN None(q, e) ELSE One(q, e)
  BY <1>1, Pop
<1> HIDE DEF q
<1>5. (started \/ Due(v)) /\ vpState[v] = "Stopped" /\ One(queue[v], "Start")
  BY <1>1, <1>2, <1>3, <1>4 DEF VpInv, ControlInv
<1>6. VpTypes' /\ Elsewhere(v)
  BY <1>1, <1>2, <1>3, <1>4 DEF VpTypes, Elsewhere
<1>7. vpState'[v] = "Running" /\ queue'[v] = q /\ Due(v)' = Due(v) /\ Asked(v)' = Asked(v)
  BY <1>1, <1>2, <1>4 DEF VpTypes, Due, Asked
<1>8. ~stopAck[v] /\ ~held[v]
  BY <1>1, <1>2 DEF VpInv, LoopInv
<1>9. VpInv(v)'
  BY <1>1, <1>2, <1>3, <1>4, <1>5, <1>7, <1>8 DEF VpInv, LoopInv, ControlInv, ReplyInv
<1> QED
  BY <1>1, <1>5, <1>6, <1>9, OthersKeep

LEMMA WaitStopKeeps ==
  ASSUME Channels, NEW v \in VPs, WaitStop(v), UNCHANGED pc
  PROVE  Channels' /\ ~panic'
<1> DEFINE q == Tail(queue[v])
<1>1. queue[v] # <<>> /\ Head(queue[v]) = "Stop" /\ queue' = Popped(v)
      /\ phase[v] = "top" /\ vpState[v] # "Running"
      /\ vpState' = [vpState EXCEPT ![v] = "Stopped"] /\ panic' = (vpState[v] # "Halted")
      /\ awaiting' = awaiting \ {v}
      /\ UNCHANGED <<started, closed, phase, stopping, stopAck, held>>
  BY DEF WaitStop, Waiting, Receives
<1>2. VpTypes /\ VpInv(v)
  BY DEF Channels
<1>3. "Start" \in Events /\ "Stop" \in Events /\ "State" \in Events /\ "Stopped" \in VpStates
  BY DEF Events, VpStates
<1>4. /\ Popped(v) \in [VPs -> Seq(Events)] /\ Popped(v)[v] = q
      /\ \A w \in VPs \ {v} : Popped(v)[w] = queue[w]
      /\ Ordered(queue[v]) => Ordered(q)
      /\ Ordered(queue[v]) /\ One(queue[v], "Start") => Head(queue[v]) # "Stop"
      /\ \A e \in Events :
           /\ None(queue[v], e) => Head(queue[v]) # e /\ None(q, e)
           /\ One(queue[v], e) => IF Head(queue[v]) = e THEN None(q, e) ELSE One(q, e)
  BY <1>1, Pop
<1> HIDE DEF q
<1>5. Due(v) /\ ~started /\ ~stopAck[v] /\ One(queue[v], "Stop")
  BY <1>1, <1>2, <1>3, <1>4 DEF VpInv, ControlInv
<1>6. vpState[v] = "Halted" /\ None(queue[v], "Start")
  BY <1>1, <1>2, <1>4, <1>5 DEF VpInv, ControlInv, VpTypes, VpStates
<1>7. VpTypes' /\ Elsewhere(v)
  BY <1>1, <1>2, <1>3, <1>4 DEF VpTypes, Elsewhere
<1>8. vpState'[v] = "Stopped" /\ queue'[v] = q /\ ~Due(v)' /\ ~Asked(v)' /\ ~Asked(v)
  BY <1>1, <1>2, <1>4, <1>5 DEF VpTypes, Due, Asked, StopPcs, CallPcs
<1>9. VpInv(v)'
  BY <1>1, <1>2, <1>3, <1>4, <1>5, <1>6, <1>8 DEF VpInv, LoopInv, ControlInv, ReplyInv
<1> QED
  BY <1>1, <1>6, <1>7, <1>9, OthersKeep

LEMMA PollChannelKeeps ==
  ASSUME Channels, NEW v \in VPs, PollChannel(v), UNCHANGED pc
  PROVE  Channels' /\ ~panic'
<1> DEFINE q == Tail(queue[v])
           h == Head(queue[v])
<1>1. queue[v] # <<>> /\ queue' = Popped(v) /\ phase[v] \in {"select", "io"} /\ panic' = (h = "Start")
      /\ stopping' = [stopping EXCEPT ![v] = TRUE]
      /\ stopAck' = [stopAck EXCEPT ![v] = @ \/ h = "Stop"]
      /\ held' = [held EXCEPT ![v] = @ \/ h = "State"]
      /\ UNCHANGED <<started, awaiting, closed, phase, vpState>>
  BY DEF PollChannel, Polling
<1>2. VpTypes /\ VpInv(v)
  BY DEF Channels
<1>3. "Start" \in Events /\ "Stop" \in Events /\ "State" \in Events
  BY DEF Events
<1>4. /\ Popped(v) \in [VPs -> Seq(Events)] /\ Popped(v)[v] = q
      /\ \A w \in VPs \ {v} : Popped(v)[w] = queue[w]
      /\ Ordered(queue[v]) => Ordered(q)
      /\ \A e \in Events :
           /\ None(queue[v], e) => h # e /\ None(q, e)
           /\ One(queue[v], e) => IF h = e THEN None(q, e) ELSE One(q, e)
  BY <1>1, Pop
<1> HIDE DEF q, h
<1>5. vpState[v] = "Running" /\ (started \/ Due(v)) /\ None(queue[v], "Start") /\ h # "Start"
  BY <1>1, <1>2, <1>3, <1>4 DEF VpInv, LoopInv, ControlInv
<1>6. VpTypes' /\ Elsewhere(v)
  BY <1>1, <1>2, <1>4 DEF VpTypes, Elsewhere
<1>7. /\ queue'[v] = q /\ Due(v)' = Due(v) /\ Asked(v)' = Asked(v) /\ stopping'[v]
      /\ stopAck'[v] = (stopAck[v] \/ h = "Stop") /\ held'[v] = (held[v] \/ h = "State")
  BY <1>1, <1>2, <1>4 DEF VpTypes, Due, Asked
<1>8. LoopInv(v)' /\ ControlInv(v)'
  BY <1>1, <1>2, <1>3, <1>4, <1>5, <1>7 DEF VpInv, LoopInv, ControlInv
<1>9. ReplyInv(v)'
  BY <1>1, <1>2, <1>3, <1>4, <1>7 DEF VpInv, ReplyInv
<1> QED
  BY <1>1, <1>5, <1>6, <1>8, <1>9, OthersKeep DEF VpInv

(* The answer to a state request, or the failure that ends the call for    *)
(* every VP.                                                               *)
LEMMA Replied ==
  ASSUME Channels, NEW v \in VPs, Asked(v), NEW queues \in [VPs -> Seq(Events)],
         \A w \in VPs \ {v} : queues[w] = queue[w],
         ReplyState(v, queues), None(queues[v], "State"), UNCHANGED <<started, closed, pc, stopping>>,
         \A w \in VPs \ {v} : vpState'[w] = vpState[w] /\ phase'[w] = phase[w] /\ stopAck'[w] = stopAck[w]
  PROVE  /\ queue' \in [VPs -> Seq(Events)] /\ awaiting' \subseteq awaiting /\ held' \in [VPs -> BOOLEAN]
         /\ v \notin awaiting' /\ ~held'[v] /\ None(queue'[v], "State")
         /\ Ordered(queues[v]) => Ordered(queue'[v])
         /\ \A e \in {"Start", "Stop"} : /\ None(queues[v], e) => None(queue'[v], e)
                                         /\ One(queues[v], e) => One(queue'[v], e)
         /\ \A w \in VPs \ {v} : VpInv(w)'
<1>1. VpTypes /\ pc \in CallPcs /\ queues[v] \in Seq(Events)
  BY DEF Channels, Asked
<1>2. \A w \in VPs : ~Due(w) /\ ~Due(w)' /\ VpInv(w)
  BY <1>1 DEF Channels, Due, StopPcs, CallPcs
<1>3. CASE awaiting' = awaiting \ {v} /\ held' = [held EXCEPT ![v] = FALSE] /\ queue' = queues
  <2>1. held' \in [VPs -> BOOLEAN] /\ ~held'[v] /\ \A w \in VPs \ {v} : held'[w] = held[w]
    BY <1>1, <1>3 DEF VpTypes
  <2>2. ASSUME NEW w \in VPs \ {v} PROVE VpInv(w)'
    <3>1. Asked(w)' = Asked(w) /\ queue'[w] = queue[w]
      BY <1>3 DEF Asked
    <3> QED
      BY <1>2, <2>1, <3>1 DEF VpInv, LoopInv, ControlInv, ReplyInv
  <2> QED
    BY <1>3, <2>1, <2>2
<1>4. CASE awaiting' = {} /\ held' = [w \in VPs |-> FALSE] /\ queue' = Abandon(queues)
  <2>1. held' \in [VPs -> BOOLEAN] /\ \A w \in VPs : ~held'[w]
    BY <1>4
  <2>2. \A w \in VPs : queue'[w] = Deserted(queues[w]) /\ queues[w] \in Seq(Events)
    BY <1>4 DEF Abandon, Deserted
  <2>3. \A w \in VPs : /\ Deserted(queues[w]) \in Seq(Events) /\ None(Deserted(queues[w]), "State")
                       /\ Ordered(queues[w]) => Ordered(Deserted(queues[w]))
                       /\ \A e \in {"Start", "Stop"} :
                            /\ None(queues[w], e) => None(Deserted(queues[w]), e)
                            /\ One(queues[w], e) => One(Deserted(queues[w]), e)
    BY <2>2, Abandoned
  <2>4. queue' \in [VPs -> Seq(Events)]
    <3>1. queue' = [w \in VPs |-> Deserted(queues[w])]
      BY <1>4 DEF Abandon, Deserted
    <3> QED
      BY <2>3, <3>1
  <2>5. ASSUME NEW w \in VPs \ {v} PROVE VpInv(w)'
    <3>1. ~Asked(w)' /\ queues[w] = queue[w]
      BY <1>4 DEF Asked
    <3> QED
      BY <1>2, <2>1, <2>2, <2>3, <3>1, ZenonT(40) DEF VpInv, LoopInv, ControlInv, ReplyInv
  <2> QED
    BY <1>4, <2>1, <2>2, <2>3, <2>4, <2>5
<1> QED
  BY <1>3, <1>4 DEF ReplyState

LEMMA WaitStateKeeps ==
  ASSUME Channels, NEW v \in VPs, WaitState(v), UNCHANGED pc
  PROVE  Channels' /\ awaiting' \subseteq awaiting
<1> DEFINE q == Tail(queue[v])
<1>1. queue[v] # <<>> /\ phase[v] = "top" /\ Head(queue[v]) \in {"State", "Unawaited"}
      /\ UNCHANGED <<started, closed, phase, vpState, stopping, stopAck>>
  BY DEF WaitState, Waiting, Receives
<1>2. VpTypes /\ VpInv(v)
  BY DEF Channels
<1>3. "Start" \in Events /\ "Stop" \in Events /\ "State" \in Events
  BY DEF Events
<1>4. /\ Popped(v) \in [VPs -> Seq(Events)] /\ Popped(v)[v] = q
      /\ \A w \in VPs \ {v} : Popped(v)[w] = queue[w]
      /\ Ordered(queue[v]) => Ordered(q)
      /\ \A e \in Events :
           /\ None(queue[v], e) => Head(queue[v]) # e /\ None(q, e)
           /\ One(queue[v], e) => IF Head(queue[v]) = e THEN None(q, e) ELSE One(q, e)
  BY <1>1, Pop
<1> HIDE DEF q
<1>5. CASE Head(queue[v]) = "State" /\ ReplyState(v, Popped(v))
  <2>1. Asked(v) /\ ~held[v] /\ None(q, "State")
    BY <1>1, <1>2, <1>3, <1>4, <1>5 DEF VpInv, LoopInv, ReplyInv
  <2>2. /\ queue' \in [VPs -> Seq(Events)] /\ awaiting' \subseteq awaiting /\ held' \in [VPs -> BOOLEAN]
        /\ v \notin awaiting' /\ ~held'[v] /\ None(queue'[v], "State")
        /\ Ordered(q) => Ordered(queue'[v])
        /\ \A e \in {"Start", "Stop"} : /\ None(q, e) => None(queue'[v], e)
                                        /\ One(q, e) => One(queue'[v], e)
        /\ \A w \in VPs \ {v} : VpInv(w)'
    BY <1>1, <1>4, <1>5, <2>1, Replied
  <2>3. VpTypes'
    BY <1>1, <1>2, <2>2 DEF VpTypes
  <2>4. ~Due(v) /\ ~Due(v)' /\ ~Asked(v)'
    BY <2>1, <2>2 DEF Due, Asked, StopPcs, CallPcs
  <2>5. VpInv(v)'
    BY <1>1, <1>2, <1>3, <1>4, <1>5, <2>2, <2>4 DEF VpInv, LoopInv, ControlInv, ReplyInv
  <2> QED
    BY <2>2, <2>3, <2>5 DEF Channels
<1>6. CASE Head(queue[v]) = "Unawaited" /\ queue' = Popped(v) /\ UNCHANGED <<awaiting, callFailed, held>>
  <2>1. VpTypes' /\ Elsewhere(v)
    BY <1>1, <1>2, <1>4, <1>6 DEF VpTypes, Elsewhere
  <2>2. queue'[v] = q /\ Due(v)' = Due(v) /\ Asked(v)' = Asked(v)
    BY <1>4, <1>6 DEF Due, Asked
  <2>3. VpInv(v)'
    BY <1>1, <1>2, <1>3, <1>4, <1>6, <2>2 DEF VpInv, LoopInv, ControlInv, ReplyInv
  <2> QED
    BY <1>6, <2>1, <2>3, OthersKeep
<1> QED
  BY <1>5, <1>6 DEF WaitState, Receives

(* A step of one VP that touches neither its channel nor the replies. *)
LEMMA LocalStep ==
  ASSUME Channels, NEW v \in VPs, VpTypes', Elsewhere(v), UNCHANGED <<setVars, stopAck, held>>,
         LoopInv(v)', vpState'[v] = "Stopped" <=> vpState[v] = "Stopped",
         phase'[v] \in {"top", "gone"} \/ started \/ Due(v)
  PROVE  Channels'
<1>1. VpInv(v)
  BY DEF Channels
<1>2. Due(v)' = Due(v) /\ Asked(v)' = Asked(v) /\ UNCHANGED <<started, queue>>
  BY DEF Due, Asked, setVars, Elsewhere
<1>3. ControlInv(v)'
  BY <1>1, <1>2 DEF VpInv, ControlInv
<1>4. ReplyInv(v)'
  BY <1>1, <1>2 DEF VpInv, ReplyInv
<1> QED
  BY <1>3, <1>4, OthersKeep DEF VpInv

LEMMA LoopStepKeeps ==
  ASSUME Channels, NEW v \in VPs, UNCHANGED pc,
         \/ WaitTeardown(v) \/ EnterLoop(v) \/ PollHalt(v) \/ EnterGuest(v) \/ Yield(v)
         \/ SnapshotWrite(v) \/ \E reason \in HaltSources : GuestIoHalts(v, reason)
  PROVE  Channels'
<1>1. VpTypes /\ LoopInv(v) /\ ControlInv(v)
  BY DEF Channels, VpInv
<1>2. UNCHANGED <<setVars, stopAck, held>>
  BY DEF WaitTeardown, EnterLoop, PollHalt, EnterGuest, Yield, SnapshotWrite, GuestIoHalts
<1>3. vpState[v] = "Running" => started \/ Due(v)
  BY <1>1 DEF ControlInv
<1>4. CASE WaitTeardown(v)
  <2>1. VpTypes' /\ Elsewhere(v)
    BY <1>1, <1>2, <1>4 DEF VpTypes, Elsewhere, WaitTeardown, setVars
  <2>2. phase[v] = "top" /\ phase'[v] = "gone" /\ closed /\ closed' = closed /\ UNCHANGED <<vpState, stopping>>
    BY <1>1, <1>4 DEF VpTypes, WaitTeardown, Waiting, setVars
  <2>3. LoopInv(v)'
    BY <1>1, <1>2, <2>2 DEF LoopInv
  <2> QED
    BY <1>2, <2>1, <2>2, <2>3, LocalStep
<1>5. CASE EnterLoop(v)
  <2>1. VpTypes' /\ Elsewhere(v)
    BY <1>1, <1>2, <1>5 DEF VpTypes, VpStates, Elsewhere, EnterLoop, setVars
  <2>2. /\ phase[v] = "top" /\ vpState[v] = "Running"
        /\ \/ phase'[v] = "top" /\ vpState'[v] = "Halted"
           \/ phase'[v] = "select" /\ vpState'[v] = "Running"
    BY <1>1, <1>5 DEF VpTypes, EnterLoop
  <2>3. LoopInv(v)'
    BY <1>1, <1>2, <2>2 DEF LoopInv
  <2> QED
    BY <1>2, <1>3, <2>1, <2>2, <2>3, LocalStep
<1>6. CASE PollHalt(v)
  <2>1. VpTypes' /\ Elsewhere(v)
    BY <1>1, <1>2, <1>6 DEF VpTypes, Elsewhere, PollHalt, setVars
  <2>2. phase[v] \in {"select", "io"} /\ stopping'[v] /\ UNCHANGED <<vpState, phase, closed>>
    BY <1>1, <1>6 DEF VpTypes, PollHalt, Polling, setVars
  <2>3. LoopInv(v)' /\ vpState[v] = "Running"
    BY <1>1, <1>2, <2>2 DEF LoopInv
  <2> QED
    BY <1>2, <1>3, <2>1, <2>2, <2>3, LocalStep
<1>7. CASE EnterGuest(v) \/ Yield(v) \/ SnapshotWrite(v) \/ \E reason \in HaltSources : GuestIoHalts(v, reason)
  <2>1. PICK p \in {"select", "guest", "io"} :
          /\ phase' = [phase EXCEPT ![v] = p] /\ phase[v] \in {"select", "guest"}
          /\ p = "guest" => ~stopping[v]
          /\ p # "guest" => phase[v] = "guest"
          /\ UNCHANGED <<vpState, stopping>>
    BY <1>7 DEF EnterGuest, Yield, SnapshotWrite, GuestIoHalts
  <2>2. VpTypes' /\ Elsewhere(v) /\ phase'[v] = p
    BY <1>1, <1>2, <2>1 DEF VpTypes, Elsewhere, setVars
  <2>3. LoopInv(v)' /\ vpState[v] = "Running"
    BY <1>1, <1>2, <2>1, <2>2 DEF LoopInv
  <2> QED
    BY <1>2, <1>3, <2>1, <2>2, <2>3, LocalStep
<1> QED
  BY <1>4, <1>5, <1>6, <1>7

LEMMA LeaveLoopKeeps ==
  ASSUME Channels, NEW v \in VPs, LeaveLoop(v), phase[v] \in {"select", "guest"}, UNCHANGED pc
  PROVE  Channels' /\ awaiting' \subseteq awaiting
<1>1. VpTypes /\ VpInv(v) /\ vpState[v] = "Running"
  BY DEF Channels, VpInv, LoopInv
<1>2. /\ phase' = [phase EXCEPT ![v] = "top"]
      /\ stopAck' = [stopAck EXCEPT ![v] = FALSE]
      /\ vpState' = IF stopAck[v] THEN [vpState EXCEPT ![v] = "Stopped"] ELSE vpState
      /\ UNCHANGED <<started, closed, stopping>>
  BY DEF LeaveLoop
<1>3. /\ phase'[v] = "top" /\ ~stopAck'[v]
      /\ vpState'[v] = IF stopAck[v] THEN "Stopped" ELSE "Running"
      /\ \A w \in VPs \ {v} : vpState'[w] = vpState[w] /\ phase'[w] = phase[w] /\ stopAck'[w] = stopAck[w]
      /\ vpState' \in [VPs -> VpStates] /\ stopAck' \in [VPs -> BOOLEAN]
      /\ phase' \in [VPs -> {"top", "select", "guest", "io", "gone"}]
  BY <1>1, <1>2 DEF VpTypes, VpStates
<1>4. stopAck[v] => Due(v) /\ ~started
  BY <1>1 DEF VpInv, ControlInv
<1>5. CASE held[v] /\ ReplyState(v, queue)
  <2>1. Asked(v) /\ None(queue[v], "State") /\ queue \in [VPs -> Seq(Events)]
    BY <1>1, <1>5 DEF VpInv, ReplyInv, VpTypes
  <2>2. ~Due(v) /\ ~Due(v)' /\ ~stopAck[v] /\ started
    BY <1>1, <1>4, <2>1 DEF Due, Asked, StopPcs, CallPcs, VpInv, ControlInv
  <2>3. /\ queue' \in [VPs -> Seq(Events)] /\ awaiting' \subseteq awaiting /\ held' \in [VPs -> BOOLEAN]
        /\ v \notin awaiting' /\ ~held'[v] /\ None(queue'[v], "State")
        /\ Ordered(queue[v]) => Ordered(queue'[v])
        /\ \A e \in {"Start", "Stop"} : /\ None(queue[v], e) => None(queue'[v], e)
                                        /\ One(queue[v], e) => One(queue'[v], e)
        /\ \A w \in VPs \ {v} : VpInv(w)'
    BY <1>2, <1>3, <1>5, <2>1, Replied
  <2>4. VpTypes'
    BY <1>1, <1>2, <1>3, <2>3 DEF VpTypes
  <2>5. VpInv(v)'
    BY <1>1, <1>2, <1>3, <2>2, <2>3 DEF VpInv, LoopInv, ControlInv, ReplyInv, Asked
  <2> QED
    BY <2>3, <2>4, <2>5 DEF Channels
<1>6. CASE ~held[v] /\ awaiting' = (IF stopAck[v] THEN awaiting \ {v} ELSE awaiting)
           /\ UNCHANGED <<queue, callFailed, held>>
  <2>1. VpTypes' /\ Elsewhere(v)
    BY <1>1, <1>2, <1>3, <1>6 DEF VpTypes, Elsewhere
  <2>2. CASE stopAck[v]
    <3>1. ~Due(v)' /\ ~Asked(v)' /\ ~Asked(v)
      BY <1>4, <1>6, <2>2 DEF Due, Asked, StopPcs, CallPcs
    <3> QED
      BY <1>1, <1>2, <1>3, <1>4, <1>6, <2>1, <2>2, <3>1, OthersKeep DEF VpInv, LoopInv, ControlInv, ReplyInv
  <2>3. CASE ~stopAck[v]
    <3>1. Due(v)' = Due(v) /\ Asked(v)' = Asked(v)
      BY <1>6, <2>3 DEF Due, Asked
    <3> QED
      BY <1>1, <1>2, <1>3, <1>6, <2>1, <2>3, <3>1, OthersKeep DEF VpInv, LoopInv, ControlInv, ReplyInv
  <2>4. awaiting' \subseteq awaiting
    BY <1>6
  <2> QED
    BY <2>2, <2>3, <2>4
<1> QED
  BY <1>5, <1>6 DEF LeaveLoop

(* The device's answer to a deferred write. *)
LEMMA UnblockKeeps ==
  ASSUME Channels, Unblock, UNCHANGED <<setVars, pc, vpState, stopping, stopAck, held>>
  PROVE  Channels'
<1>1. VpTypes'
  BY DEF Channels, VpTypes, Unblock, setVars
<1>2. ASSUME NEW v \in VPs PROVE VpInv(v)'
  <2>1. VpInv(v) /\ Due(v)' = Due(v) /\ Asked(v)' = Asked(v)
    BY DEF Channels, Due, Asked, setVars
  <2>2. phase'[v] = phase[v] \/ (phase[v] = "io" /\ phase'[v] = "select")
    BY DEF Unblock
  <2> QED
    BY <2>1, <2>2 DEF VpInv, LoopInv, ControlInv, ReplyInv, setVars
<1> QED
  BY <1>1, <1>2 DEF Channels

-----------------------------------------------------------------------------
(* What the unit's task knows of itself. *)

(* Answers are awaited only in a handler, the VPs a handler examines are   *)
(* stopped, and no stop is on its way while time is frozen or a halt is    *)
(* recorded.                                                               *)
HandlerInv ==
    /\ awaiting # {} => pc \in StopPcs \cup CallPcs
    /\ pc \in CallPcs \ {"debug"} => ~started
    /\ closed <=> pc \in {"teardown", "ended"}
    /\ frozen => ~started
    /\ (frozen \/ haltReason) /\ pc \in StopPcs => awaiting = {}

(* What the worker established before its call stays so until the answer. *)
CallInv ==
    /\ call \in {"Reset", "Save", "Restore", "AcceptInitialPages"} => ~unitStarted
    /\ call = "SetInitialRegs" => ~unitStarted \/ guards > 0
    /\ call = "StopVps" => guards + startVps < MaxGuards
    /\ pc \in {"reset", "save", "restore"} => call \in {"Reset", "Save", "Restore"}
    /\ pc \in {"scrub", "setRegs"} => call = "SetInitialRegs"
    /\ pc = "stopVps" => call = "StopVps"
    /\ guards <= MaxGuards

(* A VM that may run is marked as run, and no assertion failed. *)
RunInv == (started => needsReset) /\ (dirty => needsReset) /\ ~panic

(* The writer waits for its pending write, and stays out after it. *)
WriterInv ==
    /\ writer \subseteq VPs
    /\ io = "pending" => \A v \in writer : phase[v] = "io"
    /\ WriterStaysAtBoundary

Controlled == Channels /\ HandlerInv /\ CallInv /\ RunInv /\ WriterInv

LEMMA UnitIdle ==
  ASSUME HandlerInv, pc \in {"loop", "drain", "teardown", "ended"} \/ VpsAnswered
  PROVE  awaiting = {}
  BY DEF HandlerInv, VpsAnswered, StopPcs, CallPcs

-----------------------------------------------------------------------------
(* The handlers of the task keep every VP under control, and the safety    *)
(* properties that follow.                                                 *)

(* What the ledger's two counts exclude. *)
LEMMA Permits ==
  ASSUME Ledger
  PROVE  /\ started => unitStarted /\ ~haltReason /\ vpStopCount = 0
         /\ vpStopCount = 0 => guards = 0 /\ startVps = 0 /\ pc # "dump" /\ boundary = "none"
         /\ haltReason \/ inHand # "none" => haltCount > 0
<1>1. PICK d \in 0 .. 1, b \in 0 .. 1 :
        /\ vpStopCount = guards + startVps + d + b
        /\ (pc = "dump" => d = 1) /\ (boundary # "none" => b = 1)
  BY SMTT(20) DEF Ledger, StopReferences, AsOne
<1>2. PICK i \in 0 .. 1, r \in 0 .. 1 :
        /\ haltCount = Len(haltQueue) + i + r
        /\ (inHand # "none" => i = 1) /\ (haltReason => r = 1)
  <2>1. CASE haltReason
    BY SMTT(20), <2>1 DEF Ledger, HaltAccounting, AsOne
  <2>2. CASE ~haltReason
    BY SMTT(20), <2>2 DEF Ledger, HaltAccounting, AsOne
  <2> QED
    BY <2>1, <2>2
<1>3. guards \in Nat /\ startVps \in Nat /\ Len(haltQueue) \in Nat
  BY SMTT(20) DEF Ledger, LedgerTypes
<1>4. vpStopCount = 0 => guards = 0 /\ startVps = 0 /\ pc # "dump" /\ boundary = "none"
  BY SMTT(20), <1>1, <1>3
<1>5. haltReason \/ inHand # "none" => haltCount > 0
  BY SMTT(20), <1>2, <1>3
<1> QED
  BY <1>4, <1>5 DEF Ledger, StartedOnlyWhenPermitted

(* Registers are set on a stopped unit, or on one that a guard keeps stopped. *)
LEMMA RegsAllowed ==
  ASSUME Ledger, CallInv, call = "SetInitialRegs"
  PROVE  ~started /\ ~(unitStarted /\ vpStopCount = 0)
  BY SMTT(20), Permits DEF CallInv, Ledger, LedgerTypes

(* The write's state, as the handlers that are not about it leave it. *)
IoSettled == UNCHANGED <<phase, writer, io>> /\ (boundary' # "none" => boundary # "none")

LEMMA Settled ==
  ASSUME WriterInv, IoSettled
  PROVE  WriterInv'
  BY DEF WriterInv, WriterStaysAtBoundary, IoSettled

(* The handlers that leave the VPs alone. *)
LEMMA QuietHandlers ==
  ASSUME Ledger, HandlerInv, CallInv, RunInv,
         DrainHalt \/ HandleHalt \/ UnitStopped \/ UnitDrained \/ Teardown \/ TornDown \/ SaveDone
         \/ RestoreRefused \/ RestoreDone \/ RegsDone \/ AcceptInitialPages \/ VpsStopped
         \/ DumpStopped \/ BoundaryDone \/ TimersDone \/ DebugBreak \/ DebugVpDone \/ DropGuard
  PROVE  Untouched /\ IoSettled /\ HandlerInv' /\ CallInv' /\ RunInv'
<1> USE Permits, UnitIdle, PartitionAssumption DEF setVars, vpVars, haltVars, ioVars, vpSetVars,
   taskVars, unitVars, hostVars, debugVars, Ledger, LedgerTypes, StoppedInHandlers, OneBoundary,
   HandlerInv, CallInv, RunInv, StopPcs, CallPcs, VpsAnswered, Reply, IoSettled, Untouched
<1>1. CASE DrainHalt
  BY <1>1 DEF DrainHalt
<1>2. CASE HandleHalt
  BY <1>2 DEF HandleHalt, HandlingHalt, HandledHalt, DropHalt, RecordHalt, ClearHaltAsserts
<1>3. CASE UnitStopped
  BY <1>3 DEF UnitStopped
<1>4. CASE UnitDrained
  BY <1>4 DEF UnitDrained
<1>5. CASE Teardown
  BY <1>5 DEF Teardown, StateRequested
<1>6. CASE TornDown
  BY <1>6 DEF TornDown
<1>7. CASE SaveDone
  BY <1>7 DEF SaveDone, CallDone
<1>8. CASE RestoreRefused
  BY <1>8 DEF RestoreRefused, StateRequested
<1>9. CASE RestoreDone
  BY <1>9 DEF RestoreDone, CallDone, RecordHalt
<1>10. CASE RegsDone
  BY <1>10 DEF RegsDone, CallDone
<1>11. CASE AcceptInitialPages
  BY <1>11 DEF AcceptInitialPages, Requested
<1>12. CASE VpsStopped
  <2>1. /\ pc = "stopVps" /\ VpsAnswered /\ pc' = "loop" /\ Reply /\ guards' = guards + 1
        /\ UNCHANGED <<vpSetVars, unitStarted, needsReset, haltReason, frozen, startVps, boundary>>
    BY <1>12 DEF VpsStopped
  <2>2. call = "StopVps" /\ call' = "none" /\ awaiting = {} /\ guards + startVps < MaxGuards
    BY <2>1
  <2>3. guards' <= MaxGuards
    BY SMTT(20), <2>1, <2>2
  <2>4. CallInv'
    BY <2>1, <2>2, <2>3
  <2>5. Untouched /\ IoSettled /\ HandlerInv' /\ RunInv'
    BY <2>1, <2>2
  <2> QED
    BY <2>4, <2>5
<1>13. CASE DumpStopped
  BY <1>13 DEF DumpStopped
<1>14. CASE BoundaryDone
  BY <1>14 DEF BoundaryDone
<1>15. CASE TimersDone
  BY <1>15 DEF TimersDone, CallDone
<1>16. CASE DebugBreak
  BY <1>16 DEF DebugBreak
<1>17. CASE DebugVpDone
  BY <1>17 DEF DebugVpDone, CallDone
<1>18. CASE DropGuard
  <2>1. /\ call = "none" /\ call' = "none" /\ guards' = guards - 1 /\ guards > 0
        /\ UNCHANGED <<vpSetVars, taskVars, unitVars, boundary>>
    BY <1>18 DEF DropGuard
  <2>2. guards' <= MaxGuards
    BY SMTT(20), <2>1
  <2>3. CallInv'
    BY <2>1, <2>2
  <2>4. Untouched /\ IoSettled /\ HandlerInv' /\ RunInv'
    BY <2>1
  <2> QED
    BY <2>3, <2>4
<1> QED
  BY <1>1, <1>2, <1>3, <1>4, <1>5, <1>6, <1>7, <1>8, <1>9, <1>10, <1>11, <1>12, <1>13, <1>14,
     <1>15, <1>16, <1>17, <1>18

(* The handlers that may start the VPs. *)
LEMMA StartingHandlers ==
  ASSUME Ledger, HandlerInv, CallInv, RunInv,
         FinishReplay \/ UnitStart \/ ResetDone \/ RequestClearHalt \/ InspectClearHalt \/ StartVps
         \/ DumpDone \/ DebugContinue
  PROVE  (Starting \/ Untouched) /\ IoSettled /\ HandlerInv' /\ CallInv' /\ RunInv'
<1> USE Permits, UnitIdle, PartitionAssumption DEF setVars, vpVars, haltVars, ioVars, vpSetVars,
   taskVars, unitVars, hostVars, debugVars, Ledger, LedgerTypes, StoppedInHandlers, OneBoundary,
   HandlerInv, CallInv, RunInv, StopPcs, CallPcs, VpsAnswered, Reply, IoSettled, Starting,
   Untouched
<1>1. CASE FinishReplay
  BY <1>1 DEF FinishReplay, HandlingHalt, HandledHalt, TryStart, MayRun, Start, ClearHaltAsserts,
     DropHalt
<1>2. CASE UnitStart
  BY <1>2 DEF UnitStart, StateRequested, MayRun, Start
<1>3. CASE ResetDone
  BY <1>3 DEF ResetDone, CallDone, ClearHalt, TryStart, MayRun, Start, ClearHaltAsserts,
     ClearHaltStarts
<1>4. CASE RequestClearHalt
  BY <1>4 DEF RequestClearHalt, Requested, ClearHalt, TryStart, MayRun, Start, ClearHaltAsserts,
     ClearHaltStarts
<1>5. CASE InspectClearHalt
  BY <1>5 DEF InspectClearHalt, ClearHalt, TryStart, MayRun, Start, ClearHaltAsserts,
     ClearHaltStarts
<1>6. CASE StartVps
  <2>1. vpStopCount # 0 /\ ~started
    BY SMTT(20), <1>6 DEF StartVps
  <2>2. (Starting \/ Untouched) /\ IoSettled /\ HandlerInv'
    BY <1>6, <2>1 DEF StartVps, ResumeVps, TryStart, MayRun, Start
  <2>3. CallInv'
    BY SMTT(20), <1>6 DEF StartVps
  <2>4. RunInv'
    BY <1>6, <2>1 DEF StartVps, ResumeVps, TryStart, MayRun, Start
  <2> QED
    BY <2>2, <2>3, <2>4
<1>7. CASE DumpDone
  BY <1>7 DEF DumpDone, ResumeVps, TryStart, MayRun, Start, Broadcast
<1>8. CASE DebugContinue
  BY <1>8 DEF DebugContinue, ClearHalt, TryStart, MayRun, Start, ClearHaltAsserts, ClearHaltStarts
<1> QED
  BY <1>1, <1>2, <1>3, <1>4, <1>5, <1>6, <1>7, <1>8

(* The handlers that stop the VPs. *)
LEMMA StoppingHandlers ==
  ASSUME Ledger, HandlerInv, CallInv, RunInv,
         TakeHalt \/ UnitStop \/ StopVps
  PROVE  Stopping /\ IoSettled /\ HandlerInv' /\ CallInv' /\ RunInv'
<1> USE Permits, UnitIdle, PartitionAssumption DEF setVars, vpVars, haltVars, ioVars, vpSetVars,
   taskVars, unitVars, hostVars, debugVars, Ledger, LedgerTypes, StoppedInHandlers, OneBoundary,
   HandlerInv, CallInv, RunInv, StopPcs, CallPcs, VpsAnswered, Reply, IoSettled, Stopping
<1>1. CASE TakeHalt
  BY <1>1 DEF TakeHalt, Stop
<1>2. CASE UnitStop
  BY <1>2 DEF UnitStop, StateRequested, Stop
<1>3. CASE StopVps
  BY <1>3 DEF StopVps, Requested, Stop
<1> QED
  BY <1>1, <1>2, <1>3

(* The handlers that call the VPs. *)
LEMMA CallingHandlers ==
  ASSUME Ledger, HandlerInv, CallInv, RunInv,
         ReplayMtrrs \/ UnitReset \/ UnitSave \/ UnitRestore \/ RegsScrub \/ RegsSet \/ Timers
         \/ RegsScrubbed
  PROVE  (Calling \/ Untouched) /\ IoSettled /\ HandlerInv' /\ CallInv' /\ RunInv'
<1> USE Permits, UnitIdle, PartitionAssumption DEF setVars, vpVars, haltVars, ioVars, vpSetVars,
   taskVars, unitVars, hostVars, debugVars, Ledger, LedgerTypes, StoppedInHandlers, OneBoundary,
   HandlerInv, CallInv, RunInv, StopPcs, CallPcs, VpsAnswered, Reply, IoSettled, Calling,
   Untouched
<1>1. CASE ReplayMtrrs
  BY <1>1 DEF ReplayMtrrs, HandlingHalt, Call
<1>2. CASE UnitReset
  BY <1>2 DEF UnitReset, StateRequested, CallAll, Call
<1>3. CASE UnitSave
  BY <1>3 DEF UnitSave, StateRequested, CallAll, Call
<1>4. CASE UnitRestore
  BY <1>4 DEF UnitRestore, StateRequested, CallAll, Call
<1>5. CASE RegsScrub
  BY <1>5, RegsAllowed DEF RegsScrub, Requested, Call
<1>6. CASE RegsSet
  BY <1>6, RegsAllowed DEF RegsSet, Requested, Call
<1>7. CASE Timers
  BY <1>7 DEF Timers, Requested, Call
<1>8. CASE RegsScrubbed
  BY <1>8 DEF RegsScrubbed, Call
<1> QED
  BY <1>1, <1>2, <1>3, <1>4, <1>5, <1>6, <1>7, <1>8

(* The steps that leave all but the debugger's state alone. *)
LEMMA StillKeeps ==
  ASSUME Controlled, UNCHANGED <<vpSetVars, taskVars, unitVars, hostVars>>
  PROVE  Controlled'
<1>1. UNCHANGED <<setVars, vpVars, ioVars, dirty, panic, pc, unitStarted, needsReset, haltReason, frozen,
                  call, guards, startVps, boundary>>
  BY DEF vpSetVars, taskVars, unitVars, hostVars
<1>2. Channels'
  BY <1>1, UntouchedKeeps DEF Controlled, Untouched, setVars
<1>3. HandlerInv' /\ CallInv' /\ RunInv'
  BY <1>1 DEF Controlled, HandlerInv, CallInv, RunInv, setVars
<1>4. WriterInv'
  BY <1>1, Settled DEF Controlled, IoSettled, vpVars, ioVars
<1> QED
  BY <1>2, <1>3, <1>4 DEF Controlled

(* The worker's calls, and the handlers made for one call or one VP. *)
LEMMA IndexedHandlers ==
  ASSUME Ledger, Controlled,
         \/ \E c \in {"Reset", "Save", "Restore", "SetInitialRegs"} : PartitionFails(c)
         \/ \E c \in Calls : HostCall(c)
         \/ \E v \in VPs : DebugVp(v) \/ DumpVp(v)
  PROVE  Controlled'
<1> USE UnitIdle DEF Controlled, setVars, vpVars, haltVars, ioVars, vpSetVars, taskVars, unitVars, hostVars,
     debugVars, IoSettled
<1>1. ASSUME NEW c \in {"Reset", "Save", "Restore", "SetInitialRegs"}, PartitionFails(c) PROVE Controlled'
  <2>1. Untouched /\ IoSettled
    BY <1>1 DEF PartitionFails, Untouched
  <2>2. HandlerInv' /\ CallInv' /\ RunInv'
    BY <1>1 DEF PartitionFails, StateRequested, Reply, HandlerInv, CallInv, RunInv
  <2> QED
    BY <2>1, <2>2, UntouchedKeeps, Settled
<1>2. ASSUME NEW c \in Calls, HostCall(c) PROVE Controlled'
  <2>1. Untouched /\ IoSettled
    BY <1>2 DEF HostCall, Untouched
  <2>2. HandlerInv' /\ RunInv'
    BY <1>2 DEF HostCall, HandlerInv, RunInv
  <2>3. CallInv'
    BY <1>2 DEF HostCall, Allowed, CallInv, StateRequests, PartitionRequests
  <2> QED
    BY <2>1, <2>2, <2>3, UntouchedKeeps, Settled
<1>3. ASSUME NEW v \in VPs, DebugVp(v) \/ DumpVp(v) PROVE Controlled'
  <2>1. Calling /\ IoSettled
    BY <1>3 DEF DebugVp, DumpVp, VpsAnswered, Calling, CallPcs
  <2>2. /\ pc' \in {"debug", "dump"} /\ (pc' = "dump" => ~started)
        /\ UNCHANGED <<started, closed, unitStarted, frozen, haltReason, needsReset, dirty, panic,
                       call, guards, startVps>>
        /\ pc \in {"loop", "dump"}
    BY <1>3 DEF DebugVp, DumpVp, Ledger, StoppedInHandlers
  <2>3. HandlerInv' /\ CallInv' /\ RunInv'
    BY <2>2 DEF HandlerInv, CallInv, RunInv, StopPcs, CallPcs
  <2> QED
    BY <2>1, <2>3, CallingKeeps, Settled
<1> QED
  BY <1>1, <1>2, <1>3

LEMMA InspectKeeps ==
  ASSUME Controlled, NEW v \in VPs, InspectVp(v)
  PROVE  Controlled'
<1>1. /\ queue' = [queue EXCEPT ![v] = Append(@, "Unawaited")]
      /\ UNCHANGED <<started, awaiting, closed, vpVars, ioVars, dirty, panic, taskVars, unitVars, hostVars>>
  BY DEF InspectVp
<1>2. VpTypes /\ VpInv(v) /\ queue[v] \in Seq(Events) /\ queue'[v] = Append(queue[v], "Unawaited")
  BY <1>1 DEF Controlled, Channels, VpTypes
<1>3. /\ queue'[v] \in Seq(Events) /\ (Ordered(queue[v]) => Ordered(queue'[v]))
      /\ \A e \in {"Start", "Stop", "State"} : /\ None(queue[v], e) => None(queue'[v], e)
                                               /\ One(queue[v], e) => One(queue'[v], e)
  BY <1>2, Sent DEF Events
<1>4. VpTypes' /\ Elsewhere(v)
  BY <1>1, <1>2, <1>3 DEF VpTypes, Elsewhere, vpVars, taskVars
<1>5. Due(v)' = Due(v) /\ Asked(v)' = Asked(v)
  BY <1>1 DEF Due, Asked, taskVars
<1>6. VpInv(v)'
  BY <1>1, <1>2, <1>3, <1>5 DEF VpInv, LoopInv, ControlInv, ReplyInv, vpVars
<1>7. HandlerInv' /\ CallInv' /\ RunInv'
  BY <1>1 DEF Controlled, HandlerInv, CallInv, RunInv, taskVars, unitVars, hostVars
<1>8. WriterInv'
  BY <1>1, Settled DEF Controlled, IoSettled, vpVars, ioVars, hostVars
<1> QED
  BY <1>4, <1>6, <1>7, <1>8, OthersKeep DEF Controlled

-----------------------------------------------------------------------------
(* The snapshot write: its stop, its completion, its release and its       *)
(* rejection.                                                              *)
LEMMA WriteKeeps ==
  ASSUME Ledger, Controlled, BoundaryStop \/ ReleaseBoundary \/ RejectWrite \/ RunDevice
  PROVE  Controlled'
<1> USE DEF Controlled, setVars, vpVars, haltVars, ioVars, taskVars, unitVars, hostVars
<1>1. CASE BoundaryStop
  <2>1. io = "pending" /\ io' = "released" /\ boundary' # "none" /\ UNCHANGED <<phase, writer>>
    BY <1>1 DEF BoundaryStop, Requested, Ledger, OneBoundary
  <2>2. WriterInv'
    BY <2>1 DEF WriterInv, WriterStaysAtBoundary
  <2>3. Stopping /\ HandlerInv' /\ CallInv' /\ RunInv'
    BY <1>1, UnitIdle, Permits DEF BoundaryStop, Requested, Stop, Stopping, HandlerInv, CallInv, RunInv,
       StopPcs, CallPcs
  <2> QED
    BY <2>2, <2>3, StoppingKeeps
<1>2. CASE ReleaseBoundary
  <2>1. Untouched /\ WriterInv'
    BY <1>2 DEF ReleaseBoundary, Untouched, WriterInv, WriterStaysAtBoundary
  <2>2. HandlerInv' /\ CallInv' /\ RunInv'
    BY <1>2 DEF ReleaseBoundary, HandlerInv, CallInv, RunInv
  <2> QED
    BY <2>1, <2>2, UntouchedKeeps
<1>3. CASE RejectWrite
  <2>1. WriterInv' /\ HandlerInv' /\ CallInv' /\ RunInv'
    BY <1>3 DEF RejectWrite, WriterInv, WriterStaysAtBoundary, HandlerInv, CallInv, RunInv
  <2> QED
    BY <1>3, <2>1, UnblockKeeps DEF RejectWrite
<1>4. CASE RunDevice
  <2>1. HandlerInv' /\ CallInv' /\ RunInv'
    BY <1>4 DEF RunDevice, CompleteWrite, Outside, HandlerInv, CallInv, RunInv
  <2>2. io' # "pending" /\ Unblock /\ UNCHANGED <<writer, boundary>>
    BY <1>4 DEF RunDevice, CompleteWrite, Outside
  <2>3. WriterInv'
    BY <2>2 DEF WriterInv, WriterStaysAtBoundary, Unblock
  <2>4. Channels'
    BY <1>4, UnblockKeeps DEF RunDevice, CompleteWrite, Outside
  <2> QED
    BY <2>1, <2>3, <2>4
<1> QED
  BY <1>1, <1>2, <1>3, <1>4

-----------------------------------------------------------------------------
(* The VPs' own steps. *)

LEMMA OutsideKeeps ==
  ASSUME HandlerInv, CallInv, RunInv, Outside, UNCHANGED <<started, closed>>, awaiting' \subseteq awaiting,
         ~panic', dirty' => dirty \/ started
  PROVE  HandlerInv' /\ CallInv' /\ RunInv'
  BY DEF Outside, taskVars, unitVars, hostVars, HandlerInv, CallInv, RunInv

(* Only a write moves a VP to its deferred I/O, and only its answer moves  *)
(* it from there.                                                          *)
LEMMA WriterStays ==
  ASSUME WriterInv, VpTypes, NEW v \in VPs, NEW p, phase' = [phase EXCEPT ![v] = p], phase[v] # "io",
         p = "guest" => boundary = "none", UNCHANGED <<writer, io, boundary>>
  PROVE  WriterInv'
<1>1. \A w \in VPs : phase'[w] = IF w = v THEN p ELSE phase[w]
  BY DEF VpTypes
<1> QED
  BY <1>1 DEF WriterInv, WriterStaysAtBoundary

LEMMA MayEnter ==
  ASSUME Ledger, Controlled, NEW v \in VPs, EnterGuest(v)
  PROVE  started /\ boundary = "none"
<1>1. ~One(queue[v], "Stop")
  BY EmptyChannel DEF EnterGuest
<1>2. started
  BY <1>1 DEF Controlled, Channels, VpInv, LoopInv, ControlInv, EnterGuest
<1> QED
  BY <1>2, Permits

LEMMA VpKeeps ==
  ASSUME Ledger, Controlled, NEW v \in VPs, RunVp(v) \/ RunGuest(v)
  PROVE  Controlled'
<1> USE DEF setVars, haltVars, ioVars
<1>1. Outside /\ UNCHANGED <<pc, boundary>> /\ Channels /\ HandlerInv /\ CallInv /\ RunInv /\ WriterInv
      /\ VpTypes /\ ~panic
  BY DEF RunVp, RunGuest, Outside, taskVars, hostVars, Controlled, Channels, RunInv
<1>2. CASE WaitStart(v) \/ WaitStop(v) \/ PollChannel(v)
  <2>1. Channels' /\ ~panic'
    BY <1>1, <1>2, WaitStartKeeps, WaitStopKeeps, PollChannelKeeps
  <2>2. UNCHANGED <<started, closed, dirty, phase, writer, io>> /\ awaiting' \subseteq awaiting
    BY <1>2 DEF WaitStart, WaitStop, PollChannel
  <2> QED
    BY <1>1, <2>1, <2>2, OutsideKeeps, Settled DEF Controlled, IoSettled
<1>3. CASE WaitState(v)
  <2>1. Channels' /\ awaiting' \subseteq awaiting
    BY <1>1, <1>3, WaitStateKeeps
  <2>2. UNCHANGED <<started, closed, dirty, phase, writer, io, panic>>
    BY <1>3 DEF WaitState
  <2> QED
    BY <1>1, <2>1, <2>2, OutsideKeeps, Settled DEF Controlled, IoSettled
<1>4. CASE PollHalt(v)
  <2>1. Channels'
    BY <1>1, <1>4, LoopStepKeeps
  <2>2. UNCHANGED <<started, closed, dirty, phase, writer, io, panic, awaiting>>
    BY <1>4 DEF PollHalt
  <2> QED
    BY <1>1, <2>1, <2>2, OutsideKeeps, Settled DEF Controlled, IoSettled
<1>5. CASE WaitTeardown(v) \/ EnterLoop(v) \/ Yield(v) \/ \E reason \in HaltSources : GuestIoHalts(v, reason)
  <2>1. Channels'
    BY <1>1, <1>5, LoopStepKeeps
  <2>2. UNCHANGED <<started, closed, dirty, writer, io, panic, awaiting>>
    BY <1>5 DEF WaitTeardown, EnterLoop, Yield, GuestIoHalts
  <2>3. phase' = phase \/ (phase[v] # "io" /\ \E p \in {"gone", "select"} : phase' = [phase EXCEPT ![v] = p])
    BY <1>5 DEF WaitTeardown, Waiting, EnterLoop, Yield, GuestIoHalts
  <2>4. WriterInv'
    BY <1>1, <2>2, <2>3, Settled, WriterStays DEF IoSettled
  <2> QED
    BY <1>1, <2>1, <2>2, <2>4, OutsideKeeps DEF Controlled
<1>6. CASE VpStopped(v) \/ GuestHalts(v) \/ Cancelled(v)
  <2>1. LeaveLoop(v) /\ phase[v] \in {"select", "guest"}
    BY <1>6 DEF VpStopped, GuestHalts, Cancelled
  <2>2. Channels' /\ awaiting' \subseteq awaiting
    BY <1>1, <2>1, LeaveLoopKeeps
  <2>3. UNCHANGED <<started, closed, dirty, writer, io, panic>> /\ phase' = [phase EXCEPT ![v] = "top"]
    BY <2>1 DEF LeaveLoop
  <2>4. WriterInv'
    BY <1>1, <2>1, <2>3, WriterStays
  <2> QED
    BY <1>1, <2>2, <2>3, <2>4, OutsideKeeps DEF Controlled
<1>7. CASE EnterGuest(v)
  <2>1. started /\ boundary = "none"
    BY <1>7, MayEnter
  <2>2. Channels'
    BY <1>1, <1>7, LoopStepKeeps
  <2>3. UNCHANGED <<started, closed, writer, io, panic, awaiting>> /\ phase[v] # "io"
        /\ phase' = [phase EXCEPT ![v] = "guest"]
    BY <1>7 DEF EnterGuest
  <2>4. WriterInv'
    BY <1>1, <2>1, <2>3, WriterStays
  <2> QED
    BY <1>1, <2>1, <2>2, <2>3, <2>4, OutsideKeeps DEF Controlled
<1>8. CASE SnapshotWrite(v)
  <2>1. Channels'
    BY <1>1, <1>8, LoopStepKeeps
  <2>2. UNCHANGED <<started, closed, dirty, panic, awaiting>>
        /\ io = "none" /\ writer' = {v} /\ phase' = [phase EXCEPT ![v] = "io"]
    BY <1>8 DEF SnapshotWrite
  <2>3. boundary' = "none" /\ phase'[v] = "io"
    BY <1>1, <2>2 DEF Ledger, OneBoundary, VpTypes
  <2>4. WriterInv'
    BY <2>2, <2>3 DEF WriterInv, WriterStaysAtBoundary
  <2> QED
    BY <1>1, <2>1, <2>2, <2>4, OutsideKeeps DEF Controlled
<1> QED
  BY <1>2, <1>3, <1>4, <1>5, <1>6, <1>7, <1>8 DEF RunVp, RunGuest, VpStep, GuestStep

LEMMA HaltFromDeviceKeeps ==
  ASSUME Controlled, HaltFromDevice
  PROVE  Controlled'
<1>1. Outside /\ UNCHANGED <<setVars, vpVars, ioVars, dirty, panic>>
  BY DEF HaltFromDevice, DeviceHalts
<1>2. UNCHANGED <<pc, boundary>>
  BY <1>1 DEF Outside, taskVars, hostVars
<1>3. Untouched /\ IoSettled
  BY <1>1, <1>2 DEF Untouched, IoSettled, setVars, vpVars, ioVars
<1>4. HandlerInv' /\ CallInv' /\ RunInv'
  BY <1>1, OutsideKeeps DEF Controlled, setVars, RunInv
<1> QED
  BY <1>3, <1>4, UntouchedKeeps, Settled DEF Controlled

-----------------------------------------------------------------------------

LEMMA TaskKeeps ==
  ASSUME Ledger, Controlled,
         TakeHalt \/ ServeState \/ ServeRequest \/ ServeDebug \/ ServeInspect \/ Proceed \/ Host
  PROVE  Controlled'
<1> USE DEF Controlled
<1>1. ASSUME Untouched /\ IoSettled /\ HandlerInv' /\ CallInv' /\ RunInv' PROVE Controlled'
  BY <1>1, UntouchedKeeps, Settled
<1>2. ASSUME (Starting \/ Untouched) /\ IoSettled /\ HandlerInv' /\ CallInv' /\ RunInv' PROVE Controlled'
  BY <1>2, StartingKeeps, UntouchedKeeps, Settled
<1>3. ASSUME Stopping /\ IoSettled /\ HandlerInv' /\ CallInv' /\ RunInv' PROVE Controlled'
  BY <1>3, StoppingKeeps, Settled
<1>4. ASSUME (Calling \/ Untouched) /\ IoSettled /\ HandlerInv' /\ CallInv' /\ RunInv' PROVE Controlled'
  BY <1>4, CallingKeeps, UntouchedKeeps, Settled
<1> HIDE DEF Controlled
<1>5. Ledger /\ HandlerInv /\ CallInv /\ RunInv
  BY DEF Controlled
<1>6. CASE DebugAttach \/ DebugResume
  BY <1>6, StillKeeps DEF DebugAttach, DebugResume
<1>7. CASE TakeHalt
  BY <1>3, <1>5, <1>7, StoppingHandlers
<1>8. CASE ServeState
  BY <1>1, <1>2, <1>3, <1>4, <1>5, <1>8, QuietHandlers, StartingHandlers, StoppingHandlers,
     CallingHandlers, IndexedHandlers DEF ServeState
<1>9. CASE ServeRequest
  BY <1>1, <1>2, <1>3, <1>4, <1>5, <1>9, QuietHandlers, StartingHandlers, StoppingHandlers,
     CallingHandlers, IndexedHandlers, WriteKeeps DEF ServeRequest
<1>10. CASE ServeDebug
  BY <1>1, <1>2, <1>5, <1>6, <1>10, QuietHandlers, StartingHandlers, IndexedHandlers DEF ServeDebug
<1>11. CASE ServeInspect
  BY <1>2, <1>5, <1>11, StartingHandlers, InspectKeeps DEF ServeInspect
<1>12. CASE Proceed
  BY <1>1, <1>2, <1>4, <1>5, <1>12, QuietHandlers, StartingHandlers, CallingHandlers,
     IndexedHandlers DEF Proceed
<1>13. CASE Host
  BY <1>1, <1>5, <1>13, QuietHandlers, IndexedHandlers, WriteKeeps DEF Host
<1> QED
  BY <1>7, <1>8, <1>9, <1>10, <1>11, <1>12, <1>13

LEMMA NextKeepsControlled == Ledger /\ Controlled /\ [Next]_vars => Controlled'
<1> SUFFICES ASSUME Ledger, Controlled, [Next]_vars PROVE Controlled'
  OBVIOUS
<1>1. CASE TakeHalt \/ ServeState \/ ServeRequest \/ ServeDebug \/ ServeInspect \/ Proceed \/ Host
  BY <1>1, TaskKeeps
<1>2. CASE DebugReadStop \/ DebugDisconnect
  BY <1>2, StillKeeps DEF DebugReadStop, DebugDisconnect
<1>3. CASE \E v \in VPs : RunVp(v) \/ RunGuest(v)
  BY <1>3, VpKeeps
<1>4. CASE RunDevice \/ HaltFromDevice
  BY <1>4, WriteKeeps, HaltFromDeviceKeeps
<1>5. CASE Terminated \/ UNCHANGED vars
  BY <1>5, StillKeeps DEF Terminated, vars
<1> QED
  BY <1>1, <1>2, <1>3, <1>4, <1>5 DEF Next

LEMMA InitControlled == Init => Controlled
<1> SUFFICES ASSUME Init PROVE Controlled
  OBVIOUS
<1> USE DEF Init, VpInit
<1>1. VpTypes
  BY SMTT(20) DEF VpTypes, VpStates
<1>2. ASSUME NEW v \in VPs PROVE VpInv(v)
  <2>1. queue[v] = <<>> /\ ~Due(v) /\ ~Asked(v)
    BY DEF Due, Asked
  <2>2. Ordered(queue[v]) /\ None(queue[v], "Start") /\ None(queue[v], "Stop") /\ None(queue[v], "State")
    BY <2>1, EmptyChannel
  <2> QED
    BY <2>1, <2>2 DEF VpInv, LoopInv, ControlInv, ReplyInv
<1>3. HandlerInv /\ CallInv /\ RunInv
  BY SMTT(20), PartitionAssumption DEF HandlerInv, CallInv, RunInv, StopPcs, CallPcs
<1>4. WriterInv
  BY DEF WriterInv, WriterStaysAtBoundary
<1> QED
  BY <1>1, <1>2, <1>3, <1>4 DEF Controlled, Channels

(* The channels, the handlers and the worker's calls stay in step. *)
THEOREM ControlledHolds == Spec => []Controlled
  BY InitControlled, NextKeepsControlled, LedgerHolds, PTL DEF Spec

(* try_start's condition holds for as long as the VPs are started, and a    *)
(* guest executes only then or until its VP answered the stop.              *)
THEOREM GuestIsPermitted == Spec => []GuestRunsOnlyWhenPermitted
<1>1. Ledger /\ Controlled => GuestRunsOnlyWhenPermitted
  <2> SUFFICES ASSUME Ledger, Controlled PROVE GuestRunsOnlyWhenPermitted
    OBVIOUS
  <2>1. ASSUME NEW v \in VPs, phase[v] = "guest" PROVE (started \/ v \in awaiting) /\ ~frozen
    BY <2>1 DEF Controlled, Channels, VpInv, ControlInv, Due, HandlerInv
  <2> QED
    BY <2>1 DEF Ledger, GuestRunsOnlyWhenPermitted, GuestRunsOnlyWhenStarted
<1> QED
  BY <1>1, LedgerHolds, ControlledHolds, PTL

(* No assertion of partition_unit.rs or vp_set.rs fails.                    *)
THEOREM AssertionsHold == Spec => []NoPanic
<1>1. Controlled => NoPanic
  BY DEF Controlled, RunInv, NoPanic
<1> QED
  BY <1>1, ControlledHolds, PTL

(* The VP whose write a snapshot completes stays out of the guest from the  *)
(* stop to the release of the boundary (handle_snapshot).                   *)
THEOREM WriterWaits == Spec => []WriterStaysAtBoundary
<1>1. Controlled => WriterStaysAtBoundary
  BY DEF Controlled, WriterInv
<1> QED
  BY <1>1, ControlledHolds, PTL

(* VPs are examined, and a halt is recorded, only once every VP answered    *)
(* its stop and left its run loop.                                          *)
THEOREM TouchedWhenStopped == Spec => []StoppedWhenTouched
<1>1. Ledger /\ Controlled => StoppedWhenTouched
  <2> SUFFICES ASSUME Ledger, Controlled PROVE StoppedWhenTouched
    OBVIOUS
  <2>1. ASSUME NEW v \in VPs, ~started, ~Due(v)
        PROVE  /\ vpState[v] = "Stopped" /\ phase[v] \in {"top", "gone"}
               /\ phase[v] = "gone" => pc \in {"teardown", "ended"}
    BY <2>1 DEF Controlled, Channels, VpInv, ControlInv, LoopInv, HandlerInv
  <2>2. AccessOnlyStoppedVps
    BY <2>1 DEF AccessOnlyStoppedVps, Controlled, HandlerInv, Due, StopPcs, CallPcs
  <2>3. HaltReportedAfterStop
    BY <2>1, Permits DEF HaltReportedAfterStop, Controlled, HandlerInv, Due
  <2> QED
    BY <2>2, <2>3 DEF StoppedWhenTouched
<1> QED
  BY <1>1, LedgerHolds, ControlledHolds, PTL

(* needs_reset is set for as long as a VP ran, or was restored, since the   *)
(* last reset or scrub.                                                     *)
THEOREM DirtyIsMarked == Spec => []DirtyNeedsReset
<1>1. Controlled => DirtyNeedsReset
  BY DEF Controlled, RunInv, DirtyNeedsReset
<1> QED
  BY <1>1, ControlledHolds, PTL

-----------------------------------------------------------------------------
(* Who was told of a halt.                                                 *)

(* A step that records or clears no halt, and tells nobody. *)
Untold == UNCHANGED <<haltReason, attached, seen>>

LEMMA RecordedIsTold ==
  ASSUME RecordHalt
  PROVE  UnseenHaltIsDebuggers'
  BY DEF RecordHalt, ReportToDebugger, UnseenHaltIsDebuggers

LEMMA UnseenKept ==
  ASSUME UnseenHaltIsDebuggers, Next
  PROVE  UnseenHaltIsDebuggers'
<1>1. CASE HandleHalt
  BY <1>1, RecordedIsTold DEF UnseenHaltIsDebuggers, HandleHalt, debugVars
<1>2. CASE RestoreDone
  <2>1. Untold \/ RecordHalt
    BY <1>2 DEF Untold, RestoreDone, debugVars
  <2> QED
    BY <2>1, RecordedIsTold DEF UnseenHaltIsDebuggers, Untold
<1>3. CASE ResetDone
  BY <1>3 DEF UnseenHaltIsDebuggers, ResetDone, ClearHalt
<1>4. CASE RequestClearHalt
  BY <1>4 DEF UnseenHaltIsDebuggers, RequestClearHalt, ClearHalt
<1>5. CASE InspectClearHalt
  BY <1>5 DEF UnseenHaltIsDebuggers, InspectClearHalt, ClearHalt
<1>6. CASE DebugAttach
  BY <1>6 DEF UnseenHaltIsDebuggers, DebugAttach, unitVars
<1>7. CASE DebugResume
  BY <1>7 DEF UnseenHaltIsDebuggers, DebugResume, unitVars
<1>8. CASE DebugContinue
  BY <1>8 DEF UnseenHaltIsDebuggers, DebugContinue, ClearHalt
<1>9. CASE ServeState
  <2>1. UnitStart => Untold
    BY DEF Untold, UnitStart, debugVars
  <2>2. UnitStop => Untold
    BY DEF Untold, UnitStop, unitVars, debugVars
  <2>3. Teardown => Untold
    BY DEF Untold, Teardown, unitVars, debugVars
  <2>4. UnitReset => Untold
    BY DEF Untold, UnitReset, CallAll, debugVars
  <2>5. UnitSave => Untold
    BY DEF Untold, UnitSave, CallAll, debugVars
  <2>6. UnitRestore => Untold
    BY DEF Untold, UnitRestore, CallAll, debugVars
  <2>7. RestoreRefused => Untold
    BY DEF Untold, RestoreRefused, debugVars
  <2>8. (\E c \in {"Reset", "Save", "Restore"} : PartitionFails(c)) => Untold
    BY DEF Untold, PartitionFails, debugVars
  <2> QED
    BY <1>9, <2>1, <2>2, <2>3, <2>4, <2>5, <2>6, <2>7, <2>8
    DEF ServeState, Untold, UnseenHaltIsDebuggers
<1>10. CASE ServeRequest
  <2>1. RegsScrub => Untold
    BY DEF Untold, RegsScrub, debugVars
  <2>2. RegsSet => Untold
    BY DEF Untold, RegsSet, unitVars, debugVars
  <2>3. PartitionFails("SetInitialRegs") => Untold
    BY DEF Untold, PartitionFails, debugVars
  <2>4. AcceptInitialPages => Untold
    BY DEF Untold, AcceptInitialPages, unitVars, debugVars
  <2>5. StopVps => Untold
    BY DEF Untold, StopVps, unitVars, debugVars
  <2>6. StartVps => Untold
    BY DEF Untold, StartVps, ResumeVps, debugVars
  <2>7. BoundaryStop => Untold
    BY DEF Untold, BoundaryStop, debugVars
  <2>8. Timers => Untold
    BY DEF Untold, Timers, unitVars, debugVars
  <2> QED
    BY <1>10, <1>4, <2>1, <2>2, <2>3, <2>4, <2>5, <2>6, <2>7, <2>8
    DEF ServeRequest, Untold, UnseenHaltIsDebuggers
<1>11. CASE ServeDebug
  <2>1. DebugBreak => Untold
    BY DEF Untold, DebugBreak, unitVars
  <2>2. (\E v \in VPs : DebugVp(v)) => Untold
    BY DEF Untold, DebugVp, unitVars, debugVars
  <2> QED
    BY <1>11, <1>6, <1>7, <1>8, <2>1, <2>2
    DEF ServeDebug, Untold, UnseenHaltIsDebuggers
<1>12. CASE ServeInspect
  <2>1. (\E v \in VPs : InspectVp(v)) => Untold
    BY DEF Untold, InspectVp, unitVars, debugVars
  <2> QED
    BY <1>12, <1>5, <2>1
    DEF ServeInspect, Untold, UnseenHaltIsDebuggers
<1>13. CASE Proceed
  <2>1. DrainHalt => Untold
    BY DEF Untold, DrainHalt, unitVars, debugVars
  <2>2. ReplayMtrrs => Untold
    BY DEF Untold, ReplayMtrrs, unitVars, debugVars
  <2>3. FinishReplay => Untold
    BY DEF Untold, FinishReplay, debugVars
  <2>4. UnitStopped => Untold
    BY DEF Untold, UnitStopped, debugVars
  <2>5. UnitDrained => Untold
    BY DEF Untold, UnitDrained, unitVars, debugVars
  <2>6. TornDown => Untold
    BY DEF Untold, TornDown, unitVars, debugVars
  <2>7. SaveDone => Untold
    BY DEF Untold, SaveDone, unitVars, debugVars
  <2>8. RegsScrubbed => Untold
    BY DEF Untold, RegsScrubbed, debugVars
  <2>9. RegsDone => Untold
    BY DEF Untold, RegsDone, debugVars
  <2>10. VpsStopped => Untold
    BY DEF Untold, VpsStopped, debugVars
  <2>11. DumpStopped => Untold
    BY DEF Untold, DumpStopped, debugVars
  <2>12. (\E v \in VPs : DumpVp(v)) => Untold
    BY DEF Untold, DumpVp, unitVars, debugVars
  <2>13. DumpDone => Untold
    BY DEF Untold, DumpDone, ResumeVps, debugVars
  <2>14. BoundaryDone => Untold
    BY DEF Untold, BoundaryDone, unitVars, debugVars
  <2>15. TimersDone => Untold
    BY DEF Untold, TimersDone, unitVars, debugVars
  <2>16. DebugVpDone => Untold
    BY DEF Untold, DebugVpDone, unitVars, debugVars
  <2> QED
    BY <1>13, <1>1, <1>3, <1>2, <2>1, <2>2, <2>3, <2>4, <2>5, <2>6, <2>7, <2>8, <2>9,
        <2>10, <2>11, <2>12, <2>13, <2>14, <2>15, <2>16
    DEF Proceed, Untold, UnseenHaltIsDebuggers
<1>14. CASE Host
  <2>1. (\E c \in Calls : HostCall(c)) => Untold
    BY DEF Untold, HostCall, unitVars, debugVars
  <2>2. DropGuard => Untold
    BY DEF Untold, DropGuard, unitVars, debugVars
  <2>3. ReleaseBoundary => Untold
    BY DEF Untold, ReleaseBoundary, unitVars, debugVars
  <2>4. RejectWrite => Untold
    BY DEF Untold, RejectWrite, unitVars, debugVars
  <2> QED
    BY <1>14, <2>1, <2>2, <2>3, <2>4
    DEF Host, Untold, UnseenHaltIsDebuggers
<1>15. CASE TakeHalt \/ DebugReadStop \/ DebugDisconnect \/ Terminated
  BY <1>15 DEF TakeHalt, DebugReadStop, DebugDisconnect, Terminated, UnseenHaltIsDebuggers,
      unitVars, debugVars, vars
<1>16. CASE (\E v \in VPs : RunVp(v) \/ RunGuest(v)) \/ RunDevice \/ HaltFromDevice
  BY <1>16 DEF RunVp, RunGuest, RunDevice, HaltFromDevice, Outside, UnseenHaltIsDebuggers,
      unitVars, debugVars
<1> QED
  BY <1>9, <1>10, <1>11, <1>12, <1>13, <1>14, <1>15, <1>16 DEF Next

(* A recorded halt has been told to the client or to the debugger, or it   *)
(* waits for an attached debugger: handle_halt loses none, whatever a      *)
(* restore, a reset, a replay and the debugger's requests do around it.    *)
THEOREM UnseenHaltWaits == Spec => []UnseenHaltIsDebuggers
<1>1. Init => UnseenHaltIsDebuggers
  BY DEF Init, UnseenHaltIsDebuggers
<1>2. UnseenHaltIsDebuggers /\ [Next]_vars => UnseenHaltIsDebuggers'
  <2>1. CASE UNCHANGED vars
    BY <2>1 DEF vars, unitVars, debugVars, UnseenHaltIsDebuggers
  <2> QED
    BY <2>1, UnseenKept
<1> QED
  BY <1>1, <1>2, PTL DEF Spec

=============================================================================
