-------------------------- MODULE TaskControlProofs --------------------------
(***************************************************************************)
(* Proofs about TaskControl, for any number of calls: the box has one      *)
(* holder, the calls are applied in order and flushed by stop(), no wake-  *)
(* up is lost, and a task that completed does not run again.               *)
(***************************************************************************)
EXTENDS TaskControl, SequenceTheorems, TLAPS

(* What the four properties need of each other: stop() is only pending for *)
(* a running task, a batch is held only to be run, and only a task that    *)
(* has not completed is polled.                                            *)
Phases ==
    /\ owner # "free" => inner = "Running"
    /\ backing # "calls" => batch = <<>>
    /\ backing \in {"run", "awaiting"} => ~done

Safe == TypeOK /\ OneHolder /\ CallsAreFlushed /\ NoLostWakeup /\ Phases

-----------------------------------------------------------------------------
(* Sequences of call numbers. *)

(* The numbers of the calls issued so far, in order. *)
Numbers(n) == [i \in 1 .. n |-> i]

(* Issuing a call appends its number (update_with, push_call). *)
LEMMA NumbersGrow ==
    ASSUME NEW n \in Nat
    PROVE  /\ Numbers(n) \in Seq(Nat)
           /\ Append(Numbers(n), n + 1) = Numbers(n + 1)
<1>1. Numbers(n) \in Seq(Nat) /\ Len(Numbers(n)) = n
  BY DEF Numbers
<1>2. Numbers(n + 1) \in Seq(Nat) /\ Len(Numbers(n + 1)) = n + 1
  BY DEF Numbers
<1>3. Append(Numbers(n), n + 1) = Numbers(n + 1)
  BY <1>1, <1>2 DEF Numbers
<1> QED
  BY <1>1, <1>3

(* Appending to the last of three sequences appends to all (push_call). *)
LEMMA AppendLast ==
    ASSUME NEW s \in Seq(Nat), NEW t \in Seq(Nat), NEW k \in Nat
    PROVE  s \o Append(t, k) = Append(s \o t, k)
<1>1. s \o Append(t, k) = s \o (t \o <<k>>) /\ Append(s \o t, k) = (s \o t) \o <<k>>
  BY AppendIsConcat, ConcatProperties
<1> QED
  BY <1>1, ConcatAssociative

-----------------------------------------------------------------------------
(* The inductive step, one action at a time. *)

(* Preserved by insert. *)
LEMMA InsertSafe == Safe /\ Insert => Safe'
<1> SUFFICES ASSUME Safe, Insert PROVE Safe'
  OBVIOUS
<1>1. TypeOK /\ OneHolder /\ CallsAreFlushed /\ NoLostWakeup /\ Phases
  BY DEF Safe
<1>2. TypeOK'
  BY <1>1, CallsAssumption DEF Insert, TypeOK, CallsAreFlushed
<1>3. OneHolder'
  BY <1>1 DEF Insert, OneHolder
<1>4. CallsAreFlushed'
  BY <1>1 DEF Insert, CallsAreFlushed
<1>5. NoLostWakeup'
  BY <1>1 DEF Insert, NoLostWakeup
<1>6. Phases'
  BY <1>1 DEF Insert, Phases
<1> QED
  BY <1>2, <1>3, <1>4, <1>5, <1>6 DEF Safe

(* Preserved by remove. *)
LEMMA RemoveSafe == Safe /\ Remove => Safe'
<1> SUFFICES ASSUME Safe, Remove PROVE Safe'
  OBVIOUS
<1>1. TypeOK /\ OneHolder /\ CallsAreFlushed /\ NoLostWakeup /\ Phases
  BY DEF Safe
<1>2. TypeOK'
  BY <1>1, CallsAssumption DEF Remove, shared, TypeOK
<1>3. OneHolder'
  BY <1>1 DEF Remove, OneHolder
<1>4. CallsAreFlushed'
  BY <1>1 DEF Remove, shared, CallsAreFlushed
<1>5. NoLostWakeup'
  BY <1>1 DEF Remove, NoLostWakeup
<1>6. Phases'
  BY <1>1 DEF Remove, OneHolder, Phases
<1> QED
  BY <1>2, <1>3, <1>4, <1>5, <1>6 DEF Safe

(* Preserved by start of a stopped task. *)
LEMMA StartSafe == Safe /\ Start => Safe'
<1> SUFFICES ASSUME Safe, Start PROVE Safe'
  OBVIOUS
<1>1. TypeOK /\ OneHolder /\ CallsAreFlushed /\ NoLostWakeup /\ Phases
  BY DEF Safe
<1>2. TypeOK'
  BY <1>1, CallsAssumption DEF Start, Move, WakeBacking, TypeOK
<1>3. OneHolder'
  BY <1>1 DEF Start, Move, WakeBacking, OneHolder
<1>4. CallsAreFlushed'
  BY <1>1 DEF Start, CallsAreFlushed
<1>5. NoLostWakeup'
  BY <1>1 DEF Start, WakeBacking, NoLostWakeup
<1>6. Phases'
  BY <1>1 DEF Start, WakeBacking, Phases
<1> QED
  BY <1>2, <1>3, <1>4, <1>5, <1>6 DEF Safe

(* Preserved by start of a running task. *)
LEMMA StartRunningSafe == Safe /\ StartRunning => Safe'
<1> SUFFICES ASSUME Safe, StartRunning PROVE Safe'
  OBVIOUS
<1>1. TypeOK /\ OneHolder /\ CallsAreFlushed /\ NoLostWakeup /\ Phases
  BY DEF Safe
<1>2. TypeOK'
  BY <1>1, CallsAssumption DEF StartRunning, shared, TypeOK
<1>3. OneHolder'
  BY <1>1 DEF StartRunning, OneHolder
<1>4. CallsAreFlushed'
  BY <1>1 DEF StartRunning, shared, CallsAreFlushed
<1>5. NoLostWakeup'
  BY <1>1 DEF StartRunning, shared, NoLostWakeup, HasWork
<1>6. Phases'
  BY <1>1 DEF StartRunning, Phases
<1> QED
  BY <1>2, <1>3, <1>4, <1>5, <1>6 DEF Safe

(* Preserved by update_with of a stopped task. *)
LEMMA UpdateHereSafe == Safe /\ UpdateHere => Safe'
<1> SUFFICES ASSUME Safe, UpdateHere PROVE Safe'
  OBVIOUS
<1>1. TypeOK /\ OneHolder /\ CallsAreFlushed /\ NoLostWakeup /\ Phases
  BY DEF Safe
<1>2. TypeOK'
  BY <1>1, CallsAssumption DEF UpdateHere, shared, TypeOK
<1>3. OneHolder'
  BY <1>1 DEF UpdateHere, OneHolder
<1>4. CallsAreFlushed'
  BY <1>1 DEF UpdateHere, shared, TypeOK, CallsAreFlushed
<1>5. NoLostWakeup'
  BY <1>1 DEF UpdateHere, shared, NoLostWakeup, HasWork
<1>6. Phases'
  BY <1>1 DEF UpdateHere, Phases
<1> QED
  BY <1>2, <1>3, <1>4, <1>5, <1>6 DEF Safe

(* Preserved by push_call. *)
LEMMA PushCallSafe == Safe /\ PushCall => Safe'
<1> SUFFICES ASSUME Safe, PushCall PROVE Safe'
  OBVIOUS
<1>1. TypeOK /\ OneHolder /\ CallsAreFlushed /\ NoLostWakeup /\ Phases
  BY DEF Safe
<1>2. TypeOK'
  <2>1. issued' \in 0 .. MaxCalls /\ issued' \in Nat
    BY <1>1, CallsAssumption DEF PushCall, TypeOK
  <2>2. calls' \in Seq(Nat)
    BY <1>1, <2>1, AppendProperties DEF PushCall, TypeOK
  <2> QED
    BY <1>1, <2>1, <2>2 DEF PushCall, WakeBacking, TypeOK
<1>3. OneHolder'
  BY <1>1 DEF PushCall, WakeBacking, OneHolder
<1>4. CallsAreFlushed'
  <2>1. /\ applied \in Seq(Nat) /\ batch \in Seq(Nat) /\ calls \in Seq(Nat)
        /\ issued \in Nat /\ issued + 1 \in Nat
    BY <1>1, CallsAssumption DEF TypeOK
  <2>2. applied \o batch \o calls = Numbers(issued)
    BY <1>1 DEF CallsAreFlushed, Numbers
  <2>3. (applied \o batch) \o Append(calls, issued + 1) = Numbers(issued + 1)
    <3>1. applied \o batch \in Seq(Nat)
      BY <2>1, ConcatProperties
    <3>2. (applied \o batch) \o Append(calls, issued + 1) = Append(applied \o batch \o calls, issued + 1)
      BY <2>1, <3>1, AppendLast
    <3> QED
      BY <2>1, <2>2, <3>2, NumbersGrow, Zenon
  <2>4. applied' \o batch' \o calls' = Numbers(issued')
    BY <2>3 DEF PushCall
  <2> QED
    BY <2>4 DEF PushCall, CallsAreFlushed, Numbers
<1>5. NoLostWakeup'
  BY <1>1 DEF PushCall, WakeBacking, NoLostWakeup
<1>6. Phases'
  BY <1>1 DEF PushCall, WakeBacking, Phases
<1> QED
  BY <1>2, <1>3, <1>4, <1>5, <1>6 DEF Safe

(* Preserved by poll_stop. *)
LEMMA PollStopSafe == Safe /\ PollStop => Safe'
<1> SUFFICES ASSUME Safe, PollStop PROVE Safe'
  OBVIOUS
<1>1. TypeOK /\ OneHolder /\ CallsAreFlushed /\ NoLostWakeup /\ Phases
  BY DEF Safe
<1>2. TypeOK'
  BY <1>1, CallsAssumption DEF PollStop, Move, WakeBacking, TypeOK
<1>3. OneHolder'
  BY <1>1 DEF PollStop, Move, WakeBacking, OneHolder
<1>4. CallsAreFlushed'
  BY <1>1 DEF PollStop, OneHolder, CallsAreFlushed, Phases
<1>5. NoLostWakeup'
  BY <1>1 DEF PollStop, WakeBacking, OneHolder, NoLostWakeup, HasWork
<1>6. Phases'
  BY <1>1 DEF PollStop, WakeBacking, Phases
<1> QED
  BY <1>2, <1>3, <1>4, <1>5, <1>6 DEF Safe

(* Preserved by a dropped stop(). *)
LEMMA CancelStopSafe == Safe /\ CancelStop => Safe'
<1> SUFFICES ASSUME Safe, CancelStop PROVE Safe'
  OBVIOUS
<1>1. TypeOK /\ OneHolder /\ CallsAreFlushed /\ NoLostWakeup /\ Phases
  BY DEF Safe
<1>2. TypeOK'
  BY <1>1, CallsAssumption DEF CancelStop, shared, TypeOK
<1>3. OneHolder'
  BY <1>1 DEF CancelStop, OneHolder
<1>4. CallsAreFlushed'
  BY <1>1 DEF CancelStop, shared, CallsAreFlushed
<1>5. NoLostWakeup'
  BY <1>1 DEF CancelStop, shared, NoLostWakeup, HasWork
<1>6. Phases'
  BY <1>1 DEF CancelStop, Phases
<1> QED
  BY <1>2, <1>3, <1>4, <1>5, <1>6 DEF Safe

(* Preserved by the critical section of run that takes the box. *)
LEMMA TakeSafe == Safe /\ Take => Safe'
<1> SUFFICES ASSUME Safe, Take PROVE Safe'
  OBVIOUS
<1>1. TypeOK /\ OneHolder /\ CallsAreFlushed /\ NoLostWakeup /\ Phases
  BY DEF Safe
<1>2. TypeOK'
  BY <1>1, CallsAssumption DEF Take, Move, TypeOK
<1>3. OneHolder'
  BY <1>1 DEF Take, Move, HasWork, OneHolder
<1>4. CallsAreFlushed'
  BY <1>1 DEF Take, CallsAreFlushed, Phases
<1>5. NoLostWakeup'
  BY <1>1 DEF Take, Move, NoLostWakeup
<1>6. Phases'
  BY <1>1 DEF Take, Phases
<1> QED
  BY <1>2, <1>3, <1>4, <1>5, <1>6 DEF Safe

(* Preserved by the backing task parking. *)
LEMMA ParkSafe == Safe /\ Park => Safe'
<1> SUFFICES ASSUME Safe, Park PROVE Safe'
  OBVIOUS
<1>1. TypeOK /\ OneHolder /\ CallsAreFlushed /\ NoLostWakeup /\ Phases
  BY DEF Safe
<1>2. TypeOK'
  BY <1>1, CallsAssumption DEF Park, TypeOK
<1>3. OneHolder'
  BY <1>1 DEF Park, OneHolder
<1>4. CallsAreFlushed'
  BY <1>1 DEF Park, CallsAreFlushed
<1>5. NoLostWakeup'
  BY <1>1 DEF Park, HasWork, NoLostWakeup
<1>6. Phases'
  BY <1>1 DEF Park, Phases
<1> QED
  BY <1>2, <1>3, <1>4, <1>5, <1>6 DEF Safe

(* Preserved by the loop over the calls taken. *)
LEMMA RunCallsSafe == Safe /\ RunCalls => Safe'
<1> SUFFICES ASSUME Safe, RunCalls PROVE Safe'
  OBVIOUS
<1>1. TypeOK /\ OneHolder /\ CallsAreFlushed /\ NoLostWakeup /\ Phases
  BY DEF Safe
<1>2. TypeOK'
  BY <1>1, CallsAssumption DEF RunCalls, shared, TypeOK
<1>3. OneHolder'
  BY <1>1 DEF RunCalls, OneHolder
<1>4. CallsAreFlushed'
  BY <1>1 DEF RunCalls, shared, CallsAreFlushed
<1>5. NoLostWakeup'
  BY <1>1 DEF RunCalls, shared, NoLostWakeup
<1>6. Phases'
  BY <1>1 DEF RunCalls, Phases
<1> QED
  BY <1>2, <1>3, <1>4, <1>5, <1>6 DEF Safe

(* Preserved by AsyncRun::run completing. *)
LEMMA CompleteSafe == Safe /\ Complete => Safe'
<1> SUFFICES ASSUME Safe, Complete PROVE Safe'
  OBVIOUS
<1>1. TypeOK /\ OneHolder /\ CallsAreFlushed /\ NoLostWakeup /\ Phases
  BY DEF Safe
<1>2. TypeOK'
  BY <1>1, CallsAssumption DEF Complete, shared, TypeOK
<1>3. OneHolder'
  BY <1>1 DEF Complete, OneHolder
<1>4. CallsAreFlushed'
  BY <1>1 DEF Complete, shared, CallsAreFlushed
<1>5. NoLostWakeup'
  BY <1>1 DEF Complete, shared, NoLostWakeup
<1>6. Phases'
  BY <1>1 DEF Complete, Phases
<1> QED
  BY <1>2, <1>3, <1>4, <1>5, <1>6 DEF Safe

(* Preserved by StopTaskInner::poll cancelling. *)
LEMMA InterruptedSafe == Safe /\ Interrupted => Safe'
<1> SUFFICES ASSUME Safe, Interrupted PROVE Safe'
  OBVIOUS
<1>1. TypeOK /\ OneHolder /\ CallsAreFlushed /\ NoLostWakeup /\ Phases
  BY DEF Safe
<1>2. TypeOK'
  BY <1>1, CallsAssumption DEF Interrupted, shared, TypeOK
<1>3. OneHolder'
  BY <1>1 DEF Interrupted, OneHolder
<1>4. CallsAreFlushed'
  BY <1>1 DEF Interrupted, shared, CallsAreFlushed
<1>5. NoLostWakeup'
  BY <1>1 DEF Interrupted, shared, NoLostWakeup
<1>6. Phases'
  BY <1>1 DEF Interrupted, Phases
<1> QED
  BY <1>2, <1>3, <1>4, <1>5, <1>6 DEF Safe

(* Preserved by StopTaskInner::poll parking. *)
LEMMA AwaitSafe == Safe /\ Await => Safe'
<1> SUFFICES ASSUME Safe, Await PROVE Safe'
  OBVIOUS
<1>1. TypeOK /\ OneHolder /\ CallsAreFlushed /\ NoLostWakeup /\ Phases
  BY DEF Safe
<1>2. TypeOK'
  BY <1>1, CallsAssumption DEF Await, TypeOK
<1>3. OneHolder'
  BY <1>1 DEF Await, OneHolder
<1>4. CallsAreFlushed'
  BY <1>1 DEF Await, CallsAreFlushed
<1>5. NoLostWakeup'
  BY <1>1 DEF Await, NoLostWakeup
<1>6. Phases'
  BY <1>1 DEF Await, Phases
<1> QED
  BY <1>2, <1>3, <1>4, <1>5, <1>6 DEF Safe

(* Preserved by an event of the task. *)
LEMMA EventSafe == Safe /\ Event => Safe'
<1> SUFFICES ASSUME Safe, Event PROVE Safe'
  OBVIOUS
<1>1. TypeOK /\ OneHolder /\ CallsAreFlushed /\ NoLostWakeup /\ Phases
  BY DEF Safe
<1>2. TypeOK'
  BY <1>1, CallsAssumption DEF Event, shared, TypeOK
<1>3. OneHolder'
  BY <1>1 DEF Event, OneHolder
<1>4. CallsAreFlushed'
  BY <1>1 DEF Event, shared, CallsAreFlushed
<1>5. NoLostWakeup'
  BY <1>1 DEF Event, shared, NoLostWakeup
<1>6. Phases'
  BY <1>1 DEF Event, Phases
<1> QED
  BY <1>2, <1>3, <1>4, <1>5, <1>6 DEF Safe

(* Preserved by the backing task returning the box. *)
LEMMA ReturnSafe == Safe /\ Return => Safe'
<1> SUFFICES ASSUME Safe, Return PROVE Safe'
  OBVIOUS
<1>1. TypeOK /\ OneHolder /\ CallsAreFlushed /\ NoLostWakeup /\ Phases
  BY DEF Safe
<1>2. TypeOK'
  BY <1>1, CallsAssumption DEF Return, Move, TypeOK
<1>3. OneHolder'
  BY <1>1 DEF Return, Move, OneHolder
<1>4. CallsAreFlushed'
  BY <1>1 DEF Return, CallsAreFlushed
<1>5. NoLostWakeup'
  BY <1>1 DEF Return, NoLostWakeup
<1>6. Phases'
  BY <1>1 DEF Return, Phases
<1> QED
  BY <1>2, <1>3, <1>4, <1>5, <1>6 DEF Safe

-----------------------------------------------------------------------------
(* A new TaskControl satisfies the invariant. *)
LEMMA InitSafe == Init => Safe
<1> SUFFICES ASSUME Init PROVE Safe
  OBVIOUS
<1>1. TypeOK
  <2>1. issued \in 0 .. MaxCalls /\ <<>> \in Seq(Nat)
    BY CallsAssumption DEF Init
  <2> QED
    BY <2>1, Zenon DEF Init, TypeOK
<1>2. OneHolder /\ NoLostWakeup /\ Phases
  BY DEF Init, OneHolder, NoLostWakeup, Phases
<1>3. CallsAreFlushed
  <2>1. (<<>> \o <<>>) \o <<>> = [i \in 1 .. 0 |-> i]
    OBVIOUS
  <2> QED
    BY <2>1 DEF Init, CallsAreFlushed
<1> QED
  BY <1>1, <1>2, <1>3 DEF Safe

(* Every step of the owner and of the backing task preserves it. *)
LEMMA NextSafe == Safe /\ [Next]_vars => Safe'
<1> SUFFICES ASSUME Safe, [Next]_vars PROVE Safe'
  OBVIOUS
<1>1. CASE Owner
  BY <1>1, InsertSafe, RemoveSafe, StartSafe, StartRunningSafe, UpdateHereSafe, PushCallSafe,
     PollStopSafe, CancelStopSafe DEF Owner
<1>2. CASE Backing
  BY <1>2, TakeSafe, ParkSafe, RunCallsSafe, InterruptedSafe, AwaitSafe, ReturnSafe DEF Backing
<1>3. CASE Complete \/ Event
  BY <1>3, CompleteSafe, EventSafe
<1>4. CASE UNCHANGED vars
  <2> USE <1>4 DEF vars, shared, Safe
  <2>1. TypeOK'
    BY DEF TypeOK
  <2>2. OneHolder' /\ CallsAreFlushed'
    BY DEF OneHolder, CallsAreFlushed
  <2>3. NoLostWakeup' /\ Phases'
    BY DEF NoLostWakeup, HasWork, Phases
  <2> QED
    BY <2>1, <2>2, <2>3
<1> QED
  BY <1>1, <1>2, <1>3, <1>4 DEF Next

(* The inductive invariant holds in every reachable state of TaskControl. *)
THEOREM SafeHolds == Spec => []Safe
<1> QED
  BY InitSafe, NextSafe, PTL DEF Spec

(* Every variable of TaskControl and of its backing task keeps its type. *)
THEOREM TypeCorrect == Spec => []TypeOK
<1>1. Safe => TypeOK
  BY DEF Safe
<1> QED
  BY <1>1, SafeHolds, PTL

(* The owner and the backing task never hold the box together, and the     *)
(* owner has it exactly when the Activity is not Running: the unwrap()s of *)
(* poll_stop and of run do not fail.                                       *)
THEOREM BoxHasOneHolder == Spec => []OneHolder
<1>1. Safe => OneHolder
  BY DEF Safe
<1> QED
  BY <1>1, SafeHolds, PTL

(* No number of dropped stop()s loses or reorders a call of update_with or *)
(* inspect, and a completed stop() leaves none behind.                     *)
THEOREM CallsFlushed == Spec => []CallsAreFlushed
<1>1. Safe => CallsAreFlushed
  BY DEF Safe
<1> QED
  BY <1>1, SafeHolds, PTL

(* Neither side parks with work to do or without a waker the other takes.  *)
THEOREM WakeupsArrive == Spec => []NoLostWakeup
<1>1. Safe => NoLostWakeup
  BY DEF Safe
<1> QED
  BY <1>1, SafeHolds, PTL

(* A task whose run returned Ok(()) is not run again before it is removed. *)
THEOREM CompletedTaskStays == Spec => CompletedStaysDone
<1>1. Safe /\ Safe' /\ [Next]_vars => [done /\ inner # "NoState" => done' /\ backing' # "run"]_vars
  <2> SUFFICES ASSUME Safe, Safe', Next, done, inner # "NoState"
               PROVE  done' /\ backing' # "run"
    OBVIOUS
  <2>1. done'
    BY DEF Next, Owner, Backing, Insert, Remove, Start, StartRunning, UpdateHere, PushCall, PollStop,
           CancelStop, Take, Park, RunCalls, Complete, Interrupted, Await, Event, Return
  <2> QED
    BY <2>1 DEF Safe, Phases
<1> QED
  BY <1>1, SafeHolds, PTL DEF Spec, CompletedStaysDone

=============================================================================
