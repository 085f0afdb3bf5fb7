----------------------------- MODULE TaskControl -----------------------------
(***************************************************************************)
(* TaskControl (support/task_control): a device worker that its owner may  *)
(* start, stop, inspect and update while it runs.                          *)
(*                                                                         *)
(* The box with the task and its state (TaskAndState) is handed between    *)
(* the owner, the mutex they share and a backing task spawned by insert.   *)
(* Owner and backing task only meet under that mutex: a step here is one   *)
(* critical section, or what lies between two of them.  Each parks by      *)
(* leaving a waker in the shared state; a wake-up nobody asks for does     *)
(* nothing, one that is lost parks for ever.  The owner may drop the       *)
(* future of stop() before it completes.                                   *)
(***************************************************************************)
EXTENDS Naturals, Sequences

CONSTANT MaxCalls   \* bound on the calls issued by update_with and inspect

ASSUME CallsAssumption == MaxCalls \in Nat

VARIABLES
    inner,       \* "NoState", or the Activity: "Stopped" or "Running"
    holders,     \* where the TaskAndState box is
    done,        \* TaskAndState.done
    stop,        \* Shared.stop
    calls,       \* Shared.calls
    innerWaker,  \* Shared.inner_waker is set
    outerWaker,  \* Shared.outer_waker is set
    backing,     \* the backing task
    batch,       \* its local `calls`
    stopSeen,    \* its local `stop`
    owner,       \* "free", or the future of stop(): "parked" or "woken"
    issued,      \* calls issued so far
    applied,     \* calls applied, in order
    claimed      \* start() returned true and stop was not called since

shared == <<stop, calls, innerWaker, outerWaker>>
vars == <<inner, holders, done, shared, backing, batch, stopSeen, owner, issued, applied, claimed>>

TypeOK ==
    /\ inner \in {"NoState", "Stopped", "Running"}
    /\ holders \subseteq {"owner", "shared", "backing"}
    /\ done \in BOOLEAN /\ stop \in BOOLEAN
    /\ innerWaker \in BOOLEAN /\ outerWaker \in BOOLEAN
    /\ backing \in {"none", "poll", "parked", "calls", "run", "awaiting", "return"}
    /\ (backing = "none") = (inner = "NoState")
    /\ calls \in Seq(Nat) /\ batch \in Seq(Nat) /\ applied \in Seq(Nat)
    /\ stopSeen \in BOOLEAN /\ claimed \in BOOLEAN
    /\ owner \in {"free", "parked", "woken"}
    /\ issued \in 0 .. MaxCalls

Init ==
    /\ inner = "NoState"
    /\ holders = {"owner"}
    /\ done = FALSE
    /\ stop = TRUE /\ calls = <<>> /\ innerWaker = FALSE /\ outerWaker = FALSE
    /\ backing = "none" /\ batch = <<>> /\ stopSeen = TRUE
    /\ owner = "free"
    /\ issued = 0 /\ applied = <<>>
    /\ claimed = FALSE

-----------------------------------------------------------------------------
(* Moving the box, and waking. *)

Move(from, to) == holders' = (holders \ {from}) \cup {to}

(* inner_waker.take(), then wake() *)
WakeBacking ==
    /\ innerWaker' = FALSE
    /\ backing' = IF ~innerWaker THEN backing
                  ELSE CASE backing = "parked" -> "poll"
                         [] backing = "awaiting" -> "run"
                         [] OTHER -> backing

-----------------------------------------------------------------------------
(* The owner: &mut self, so one call at a time, and none inside stop(). *)

Insert ==
    /\ owner = "free" /\ inner = "NoState"
    /\ inner' = "Stopped"
    /\ done' = FALSE
    /\ stop' = TRUE /\ calls' = <<>> /\ innerWaker' = FALSE /\ outerWaker' = FALSE
    /\ backing' = "poll" /\ batch' = <<>> /\ stopSeen' = TRUE
    /\ UNCHANGED <<holders, owner, issued, applied, claimed>>

(* Variant: state can be removed from a running task. *)
RemoveRunning ==
    /\ owner = "free" /\ inner # "NoState"
    /\ inner' = "NoState"
    /\ backing' = "none"
    /\ UNCHANGED <<holders, done, shared, batch, stopSeen, owner, issued, applied, claimed>>

(* The backing task and the shared state are dropped. *)
Remove ==
    /\ owner = "free" /\ inner = "Stopped"
    /\ inner' = "NoState"
    /\ backing' = "none"
    /\ UNCHANGED <<holders, done, shared, batch, stopSeen, owner, issued, applied, claimed>>

Start ==
    /\ owner = "free" /\ inner = "Stopped" /\ ~done
    /\ inner' = "Running"
    /\ Move("owner", "shared")
    /\ stop' = FALSE
    /\ WakeBacking
    /\ claimed' = TRUE
    /\ UNCHANGED <<done, calls, outerWaker, batch, stopSeen, owner, issued, applied>>

(* start() on a task that runs already; without state, or once the task    *)
(* completed, it returns false and changes nothing.                        *)
StartRunning ==
    /\ owner = "free" /\ inner = "Running"
    /\ claimed' = TRUE
    /\ UNCHANGED <<inner, holders, done, shared, backing, batch, stopSeen, owner, issued, applied>>

(* update_with, and inspect through a deferred request *)
UpdateHere ==
    /\ owner = "free" /\ inner # "Running" /\ issued < MaxCalls
    /\ issued' = issued + 1
    /\ applied' = Append(applied, issued')
    /\ UNCHANGED <<inner, holders, done, shared, backing, batch, stopSeen, owner, claimed>>

(* Variant: the call is queued without waking the backing task. *)
PushCallQuietly ==
    /\ owner = "free" /\ inner = "Running" /\ issued < MaxCalls
    /\ issued' = issued + 1
    /\ calls' = Append(calls, issued')
    /\ UNCHANGED <<inner, holders, done, stop, innerWaker, outerWaker, backing, batch, stopSeen,
                   owner, applied, claimed>>

PushCall ==
    /\ owner = "free" /\ inner = "Running" /\ issued < MaxCalls
    /\ issued' = issued + 1
    /\ calls' = Append(calls, issued')
    /\ WakeBacking
    /\ UNCHANGED <<inner, holders, done, stop, outerWaker, batch, stopSeen, owner, applied, claimed>>

(* Variant: takes the box whatever is still queued. *)
PollStopUnflushed ==
    /\ owner # "parked" /\ inner = "Running"
    /\ stop' = TRUE
    /\ claimed' = FALSE
    /\ IF "shared" \notin holders
       THEN /\ outerWaker' = TRUE /\ owner' = "parked" /\ WakeBacking
            /\ UNCHANGED <<inner, holders>>
       ELSE /\ Move("shared", "owner")
            /\ inner' = "Stopped" /\ owner' = "free"
            /\ UNCHANGED <<innerWaker, outerWaker, backing>>
    /\ UNCHANGED <<done, calls, batch, stopSeen, issued, applied>>

(* Variant: a task that is parked is not told of the stop. *)
PollStopQuietly ==
    /\ owner # "parked" /\ inner = "Running"
    /\ stop' = TRUE
    /\ claimed' = FALSE
    /\ IF "shared" \notin holders \/ calls # <<>>
       THEN /\ outerWaker' = TRUE /\ owner' = "parked"
            /\ UNCHANGED <<inner, holders>>
       ELSE /\ Move("shared", "owner")
            /\ inner' = "Stopped" /\ owner' = "free"
            /\ UNCHANGED outerWaker
    /\ UNCHANGED <<innerWaker, backing, done, calls, batch, stopSeen, issued, applied>>

(* poll_stop of a running task, first called or polled again by stop(); in *)
(* any other state it returns false at once.                               *)
PollStop ==
    /\ owner # "parked" /\ inner = "Running"
    /\ stop' = TRUE
    /\ claimed' = FALSE
    /\ IF "shared" \notin holders \/ calls # <<>>
       THEN /\ outerWaker' = TRUE /\ owner' = "parked" /\ WakeBacking
            /\ UNCHANGED <<inner, holders>>
       ELSE /\ Move("shared", "owner")
            /\ inner' = "Stopped" /\ owner' = "free"
            /\ UNCHANGED <<innerWaker, outerWaker, backing>>
    /\ UNCHANGED <<done, calls, batch, stopSeen, issued, applied>>

(* The caller drops the future of stop(); the waker it left stays. *)
CancelStop ==
    /\ owner # "free"
    /\ owner' = "free"
    /\ UNCHANGED <<inner, holders, done, shared, backing, batch, stopSeen, issued, applied, claimed>>

-----------------------------------------------------------------------------
(* The backing task. *)

(* Variant: a stop hides the calls that were queued with it. *)
HasWorkUnlessStopped == "shared" \in holders /\ ~stop /\ (calls # <<>> \/ ~done)

HasWork == "shared" \in holders /\ (calls # <<>> \/ (~stop /\ ~done))

Take ==
    /\ backing = "poll" /\ HasWork
    /\ Move("shared", "backing")
    /\ batch' = calls /\ calls' = <<>>
    /\ stopSeen' = stop
    /\ backing' = "calls"
    /\ UNCHANGED <<inner, done, stop, innerWaker, outerWaker, owner, issued, applied, claimed>>

Park ==
    /\ backing = "poll" /\ ~HasWork
    /\ innerWaker' = TRUE
    /\ backing' = "parked"
    /\ UNCHANGED <<inner, holders, done, stop, calls, outerWaker, batch, stopSeen, owner, issued,
                   applied, claimed>>

RunCalls ==
    /\ backing = "calls"
    /\ applied' = applied \o batch /\ batch' = <<>>
    /\ backing' = IF ~stopSeen /\ ~done THEN "run" ELSE "return"
    /\ UNCHANGED <<inner, holders, done, shared, stopSeen, owner, issued, claimed>>

(* AsyncRun::run completes: Ok(()). *)
Complete ==
    /\ backing = "run"
    /\ done' = TRUE
    /\ backing' = "return"
    /\ UNCHANGED <<inner, holders, shared, batch, stopSeen, owner, issued, applied, claimed>>

(* StopTaskInner::poll inside until_stopped: Err(Cancelled), or it parks. *)
Interrupted ==
    /\ backing = "run" /\ (calls # <<>> \/ stop)
    /\ backing' = "return"
    /\ UNCHANGED <<inner, holders, done, shared, batch, stopSeen, owner, issued, applied, claimed>>

Await ==
    /\ backing = "run" /\ calls = <<>> /\ ~stop
    /\ innerWaker' = TRUE
    /\ backing' = "awaiting"
    /\ UNCHANGED <<inner, holders, done, stop, calls, outerWaker, batch, stopSeen, owner, issued,
                   applied, claimed>>

(* An event of the task's own wakes it. *)
Event ==
    /\ backing = "awaiting"
    /\ backing' = "run"
    /\ UNCHANGED <<inner, holders, done, shared, batch, stopSeen, owner, issued, applied, claimed>>

(* The box goes back; outer_waker.take(), then wake(). *)
Return ==
    /\ backing = "return"
    /\ Move("backing", "shared")
    /\ backing' = "poll"
    /\ outerWaker' = FALSE
    /\ owner' = IF outerWaker /\ owner = "parked" THEN "woken" ELSE owner
    /\ UNCHANGED <<inner, done, stop, calls, innerWaker, batch, stopSeen, issued, applied, claimed>>

-----------------------------------------------------------------------------
Owner ==
    Insert \/ Remove \/ Start \/ StartRunning \/ UpdateHere \/ PushCall \/ PollStop \/ CancelStop

Backing == Take \/ Park \/ RunCalls \/ Interrupted \/ Await \/ Return

Next == Owner \/ Backing \/ Complete \/ Event

Spec == Init /\ [][Next]_vars

(* The executor polls a task that was woken, and a task that awaits `stop` *)
(* sees it (the contract of AsyncRun::run); the owner polls stop() again   *)
(* when woken, unless it drops it.                                         *)
Fairness ==
    /\ WF_vars(Backing)
    /\ WF_vars(owner = "woken" /\ PollStop)

FairSpec == Spec /\ Fairness

-----------------------------------------------------------------------------
(* Properties. *)

(* The box is in one place: the owner reaches the task and its state       *)
(* exactly when Activity is not Running, the unwrap() of the backing task  *)
(* and of poll_stop never fail, and a stopped task is not executing.       *)
OneHolder ==
    /\ \E place \in {"owner", "shared", "backing"} : holders = {place}
    /\ (inner # "Running") = ("owner" \in holders)
    /\ ("backing" \in holders) = (backing \in {"calls", "run", "awaiting", "return"})

(* Calls are applied in the order they were issued, none is lost, and when *)
(* the owner gets its task back from stop() all of them have been applied, *)
(* also the ones issued after a stop() that was dropped.                   *)
CallsAreFlushed ==
    /\ applied \o batch \o calls = [i \in 1 .. issued |-> i]
    /\ inner # "Running" => calls = <<>> /\ batch = <<>>

(* Nobody sleeps through what it waits for: a parked backing task, or one  *)
(* inside until_stopped, has left a waker and has nothing to do, and an    *)
(* owner parked in stop() has left one that a box still out will take.     *)
NoLostWakeup ==
    /\ backing = "parked" => innerWaker /\ ~HasWork
    /\ backing = "awaiting" => innerWaker /\ calls = <<>> /\ ~stop
    /\ owner = "parked" => outerWaker /\ ("backing" \in holders \/ calls # <<>>)

(* A task that returned Ok(()) "will only run again after being removed    *)
(* and reinserted" (AsyncRun::run).                                        *)
CompletedStaysDone ==
    [][done /\ inner # "NoState" => done' /\ backing' # "run"]_vars

(* stop() ends when its caller keeps polling: nobody waits for the other.  *)
StopEnds == owner = "parked" ~> owner # "parked"

(* A call issued to a running task is applied, even if the task completed, *)
(* or if the stop() that overtook the call was dropped.                    *)
CallsAreApplied == calls # <<>> ~> (calls = <<>> /\ batch = <<>>)

(* start "Returns true if the task is now running (even if it was          *)
(* previously running)" (TaskControl::start).                              *)
StartedMeansRunning == claimed => ~stop

=============================================================================
