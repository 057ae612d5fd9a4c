---------------------------- MODULE TimerContext ----------------------------
(***************************************************************************)
(* io/timer_context.{hpp,cpp}: a heap of timers, a set of lazily cancelled *)
(* timer ids and one timerfd that poll_timer() waits for.                  *)
(*                                                                         *)
(* Everything runs on the loop's thread. A coroutine of the application    *)
(* runs, and may sleep, be destroyed or stop the timer, at three points:   *)
(* while poll_timer() waits for the timerfd ("waiting"), while the drain   *)
(* loop has resumed a sleeper ("callback"), and after poll_timer() is over *)
(* ("done"). Time is a tick counter; the code reads the clock several      *)
(* times in one handler, so the clock may advance between any two steps.   *)
(***************************************************************************)
EXTENDS Integers, FiniteSets

CONSTANTS
  Frames,           \* frames of waiting_for_timer(), i.e. coroutine handles
  Null,             \* the nullptr handle stop() pushes
  Deadlines,        \* the time points the application sleeps until
  MaxTime,          \* the clock of the model stops here
  MaxTimers,        \* how many timers are added (ids stay far from 2^32)
  StopContexts,     \* the values of pc at which the application calls stop()
  ClockReadsRepeat  \* may reset() read a clock equal to the deadline?

ASSUME TimerAssumption ==
  /\ Null \notin Frames
  /\ MaxTime \in Nat
  /\ MaxTimers \in Nat
  /\ Deadlines \subseteq 0 .. (MaxTime - 1)
  /\ StopContexts \subseteq {"waiting", "callback", "done"}
  /\ ClockReadsRepeat \in BOOLEAN

VARIABLES
  now,             \* steady_clock::now()
  timers_,         \* the priority queue, a set of entries
  cancel_timers_,  \* ids cancelled but still queued
  next_timer_id_,
  stop_,
  frame,           \* "fresh" | "sleeping" | "resumed" (TimerPromise.completed)
  timer_id_,       \* TimerPromise.timer_id_ of each frame
  fd_deadline,     \* when the timerfd is armed: {} or {time}
  fd_expired,      \* the timerfd has an unread expiration
  pc               \* where poll_timer() is

fd == <<fd_deadline, fd_expired>>
vars == <<now, timers_, cancel_timers_, next_timer_id_, stop_,
          frame, timer_id_, fd_deadline, fd_expired, pc>>

Entry == [expired_time : 0 .. MaxTime,
          callback     : Frames \cup {Null},
          id           : 1 .. MaxTimers]

-----------------------------------------------------------------------------
(* The heap. The comparator of TimerEntry answers TRUE for equal times, so *)
(* any entry with the least time may be the top.                           *)

EarlierReversed(e, o) == e.expired_time >= o.expired_time  \* mutant
Earlier(e, o) == e.expired_time <= o.expired_time

Tops(T) == {e \in T : \A o \in T : Earlier(e, o)}

(* The sets of entries reset() may pop from the top of T: cancelled ones,  *)
(* until the top is live.                                                  *)
Cancelled(T, C) == {e \in T : e.id \in C}

Dropped(T, C) ==
  {D \in SUBSET Cancelled(T, C) :
     /\ \A d \in D, o \in T \ D : Earlier(d, o)
     /\ T \ D # {} => \E e \in Tops(T \ D) : e \notin Cancelled(T, C)}

(* timerfd_settime() for deadline t: the relative count is t - now, 1 when *)
(* that is negative. A count of 0 disarms the timerfd; the clock advances  *)
(* between two reads unless ClockReadsRepeat.                              *)
Settime(t) == IF t > now THEN {{t}}
              ELSE IF t = now /\ ClockReadsRepeat THEN {{}, {now + 1}}
              ELSE {{now + 1}}

Reset(T) ==
  \E D \in Dropped(T, cancel_timers_) :
    /\ timers_' = T \ D
    /\ cancel_timers_' = cancel_timers_ \ {d.id : d \in D}
    /\ IF T \ D = {}
       THEN UNCHANGED fd
       ELSE /\ fd_expired' = FALSE   \* settime forgets an unread expiration
            /\ \E e \in Tops(T \ D) : fd_deadline' \in Settime(e.expired_time)

IsResetIfEmpty(t, stopping) == timers_ = {} \/ stopping  \* mutant
IsReset(t, stopping) == \/ \A e \in timers_ : t < e.expired_time
                        \/ stopping

AddTimer(t, callback, stopping) ==
  LET T == timers_ \cup {[expired_time |-> t, callback |-> callback,
                          id |-> next_timer_id_ + 1]}
  IN  /\ next_timer_id_ < MaxTimers
      /\ next_timer_id_' = next_timer_id_ + 1
      /\ IF IsReset(t, stopping)
         THEN Reset(T)
         ELSE timers_' = T /\ UNCHANGED <<cancel_timers_, fd>>

-----------------------------------------------------------------------------
Init ==
  /\ now = 0
  /\ timers_ = {}
  /\ cancel_timers_ = {}
  /\ next_timer_id_ = 0
  /\ stop_ = FALSE
  /\ frame = [f \in Frames |-> "fresh"]
  /\ timer_id_ = [f \in Frames |-> 0]
  /\ fd_deadline = {}
  /\ fd_expired = FALSE
  /\ pc = "waiting"

(* The application's coroutines run at these points. *)
AppRuns == pc \in {"waiting", "callback", "done"}

(* sleep_until, sleep_for and delay_run: a fresh frame suspends. *)
Sleep(f, t) ==
  /\ AppRuns
  /\ frame[f] = "fresh"
  /\ AddTimer(t, f, stop_)
  /\ frame' = [frame EXCEPT ![f] = "sleeping"]
  /\ timer_id_' = [timer_id_ EXCEPT ![f] = next_timer_id_']
  /\ UNCHANGED <<now, stop_, pc>>

(* ~TimerPromise: a frame is destroyed, by when_any, by its Task or after  *)
(* it completed; its memory may serve a new frame (same handle).           *)
SuspendedAlways(f) == TRUE  \* mutant
Suspended(f) == frame[f] # "fresh"

CompletedNever(f) == FALSE  \* mutant
CompletedAlways(f) == TRUE  \* mutant
Completed(f) == frame[f] = "resumed"

Destroy(f) ==
  /\ AppRuns
  /\ Suspended(f)
  /\ frame' = [frame EXCEPT ![f] = "fresh"]
  /\ cancel_timers_' = IF Completed(f) THEN cancel_timers_
                       ELSE cancel_timers_ \cup {timer_id_[f]}
  /\ UNCHANGED <<now, timers_, next_timer_id_, stop_, timer_id_, fd, pc>>

(* TimerContext::stop() *)
Stop ==
  /\ pc \in StopContexts
  /\ stop_' = TRUE
  /\ AddTimer(now, Null, TRUE)
  /\ UNCHANGED <<now, frame, timer_id_, pc>>

(* The clock and the timerfd. At MaxTime, the end of the model's time,     *)
(* every armed timer expires.                                              *)
Tick ==
  /\ now < MaxTime
  /\ now' = now + 1
  /\ UNCHANGED <<timers_, cancel_timers_, next_timer_id_, stop_,
                 frame, timer_id_, fd, pc>>

Expire ==
  /\ \E d \in fd_deadline : d <= now \/ now = MaxTime
  /\ fd_deadline' = {}
  /\ fd_expired' = TRUE
  /\ UNCHANGED <<now, timers_, cancel_timers_, next_timer_id_, stop_,
                 frame, timer_id_, pc>>

(* poll_timer(): the read of the timerfd returns (with EAGAIN it waits     *)
(* again), then the loop drains the due entries and calls reset().         *)
AfterReadDrain == "drain"  \* mutant
AfterRead == IF stop_ THEN "done" ELSE "drain"

ReadClock ==
  /\ pc = "waiting"
  /\ fd_expired
  /\ fd_expired' = FALSE
  /\ pc' = AfterRead
  /\ UNCHANGED <<now, timers_, cancel_timers_, next_timer_id_, stop_,
                 frame, timer_id_, fd_deadline>>

DueTop(e) == /\ pc = "drain"
             /\ e \in Tops(timers_)
             /\ e.expired_time <= now

DiscardCancelled ==
  \E e \in timers_ :
    /\ DueTop(e)
    /\ e.id \in cancel_timers_
    /\ timers_' = timers_ \ {e}
    /\ cancel_timers_' = cancel_timers_ \ {e.id}
    /\ UNCHANGED <<now, next_timer_id_, stop_, frame, timer_id_, fd, pc>>

(* top.callback(): the sleeper's await_resume sets completed. Calling the  *)
(* null handle of stop() is undefined; every build crashes on it.          *)
ResumeTop ==
  \E e \in timers_ :
    /\ DueTop(e)
    /\ e.id \notin cancel_timers_
    /\ timers_' = timers_ \ {e}
    /\ IF e.callback = Null
       THEN pc' = "crashed" /\ UNCHANGED frame
       ELSE pc' = "callback" /\ frame' = [frame EXCEPT ![e.callback] = "resumed"]
    /\ UNCHANGED <<now, cancel_timers_, next_timer_id_, stop_, timer_id_, fd>>

(* The resumed coroutine suspends again or ends. *)
Return ==
  /\ pc = "callback"
  /\ pc' = "drain"
  /\ UNCHANGED <<now, timers_, cancel_timers_, next_timer_id_, stop_,
                 frame, timer_id_, fd>>

EndDrain ==
  /\ pc = "drain"
  /\ \A e \in timers_ : e.expired_time > now
  /\ pc' = "reset"
  /\ UNCHANGED <<now, timers_, cancel_timers_, next_timer_id_, stop_,
                 frame, timer_id_, fd>>

Rearm ==
  /\ pc = "reset"
  /\ Reset(timers_)
  /\ pc' = IF stop_ THEN "done" ELSE "waiting"
  /\ UNCHANGED <<now, next_timer_id_, stop_, frame, timer_id_>>

PollTimer == ReadClock \/ DiscardCancelled \/ ResumeTop \/ EndDrain \/ Rearm

Next ==
  \/ \E f \in Frames, t \in Deadlines : Sleep(f, t)
  \/ \E f \in Frames : Destroy(f)
  \/ Stop
  \/ Tick
  \/ Expire
  \/ PollTimer
  \/ Return

Spec == Init /\ [][Next]_vars

(* Time passes, the kernel delivers expirations, the loop resumes          *)
(* poll_timer() when the timerfd is readable, and a resumed coroutine      *)
(* gives control back. Nothing obliges the application to act. Loop::stop()*)
(* ends run() too: after it the timerfd may be read, in the batch in which *)
(* stop() was called, but need not, and poll_timer() may wait for ever.    *)
Polled == (stop_ => pc # "waiting") /\ PollTimer

FairSpec == Spec /\ WF_vars(Tick) /\ WF_vars(Expire)
                 /\ WF_vars(Polled) /\ WF_vars(Return)
-----------------------------------------------------------------------------
(* Every variable has its type; pc says where poll_timer() is. *)
TypeOK ==
  /\ now \in 0 .. MaxTime
  /\ timers_ \subseteq Entry
  /\ cancel_timers_ \subseteq 1 .. MaxTimers
  /\ next_timer_id_ \in 0 .. MaxTimers
  /\ stop_ \in BOOLEAN
  /\ frame \in [Frames -> {"fresh", "sleeping", "resumed"}]
  /\ timer_id_ \in [Frames -> 0 .. MaxTimers]
  /\ fd_deadline \subseteq 0 .. (MaxTime + 1)
  /\ fd_expired \in BOOLEAN
  /\ pc \in {"waiting", "drain", "callback", "reset", "done", "crashed"}

Live == timers_ \ Cancelled(timers_, cancel_timers_)

(* The live entries of the heap are exactly the sleeping frames, each      *)
(* under the id its TimerPromise holds, whatever mix of cancellations,     *)
(* lazy removals and reused frames came before: no sleeper lost, no handle *)
(* of a destroyed or already resumed frame left to be called.              *)
EntriesMatchFrames ==
  /\ \A e \in Live : e.callback # Null =>
       frame[e.callback] = "sleeping" /\ timer_id_[e.callback] = e.id
  /\ \A f \in Frames : frame[f] = "sleeping" =>
       \E e \in Live : e.callback = f /\ e.id = timer_id_[f]

(* cancel_timers_ holds ids of queued entries only: the lazily cleaned set *)
(* cannot grow without bound, and no later timer is taken for a cancelled  *)
(* one.                                                                    *)
CancelledStillQueued ==
  \A i \in cancel_timers_ : \E e \in timers_ : e.id = i

(* While poll_timer() waits with entries queued, the timerfd has expired   *)
(* or is armed to expire by each deadline (or at the next tick, for a      *)
(* deadline already past): add_timer() skips reset() only when an earlier  *)
(* wake-up is pending, and settime() never forgets the last one.           *)
WakeupArmed ==
  pc = "waiting" =>
    \A e \in timers_ : \/ fd_expired
                       \/ \E d \in fd_deadline : \/ d <= e.expired_time
                                                 \/ d <= now + 1

(* poll_timer() never calls the null handle that stop() queues. *)
NeverResumesNull == pc # "crashed"

(* The timers implement the sleep service: the heap minus the cancelled    *)
(* and null entries is the set of sleepers, woken once, in deadline order, *)
(* never early, never after being destroyed, and always if nobody calls    *)
(* stop().                                                                 *)
Asleep == {[frame |-> e.callback, until |-> e.expired_time] :
             e \in {x \in Live : x.callback # Null}}

Woken == {f \in Frames : frame[f] = "resumed"}

Service == INSTANCE SleepService WITH
  asleep <- Asleep, woken <- Woken, halted <- stop_

ImplementsSleepService == Service!Spec

(* A sleeping frame is resumed or destroyed unless stop() comes first.     *)
SleepersWake ==
  \A f \in Frames : frame[f] = "sleeping" ~> (frame[f] # "sleeping" \/ stop_)
=============================================================================
