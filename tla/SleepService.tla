---------------------------- MODULE SleepService ----------------------------
(***************************************************************************)
(* What TimerContext promises to the coroutines that sleep on it, with no  *)
(* heap, no cancellation set and no kernel timer: a sleeper is a frame and *)
(* a deadline; it is woken once, when its deadline has passed, never       *)
(* before a sleeper with an earlier deadline, and never after it was       *)
(* cancelled.                                                              *)
(***************************************************************************)
EXTENDS Integers

CONSTANTS Frames,     \* the coroutine frames that may sleep
          Deadlines   \* the time points they may sleep until

VARIABLES now,        \* the clock
          asleep,     \* the set of [frame, until] of the sleepers
          woken,      \* the frames whose sleep is over
          halted      \* stop() was called

vars == <<now, asleep, woken, halted>>

Init == /\ now = 0
        /\ asleep = {}
        /\ woken = {}
        /\ halted = FALSE

Sleeping(f) == \E s \in asleep : s.frame = f

(* A frame sleeps on at most one timer at a time, and once. *)
Sleep(f, t) == /\ ~Sleeping(f) /\ f \notin woken
               /\ asleep' = asleep \cup {[frame |-> f, until |-> t]}
               /\ UNCHANGED <<now, woken, halted>>

Cancel(f) == /\ Sleeping(f)
             /\ asleep' = {s \in asleep : s.frame # f}
             /\ UNCHANGED <<now, woken, halted>>

Wake(f) == \E s \in asleep :
             /\ s.frame = f
             /\ s.until <= now
             /\ \A o \in asleep : s.until <= o.until
             /\ asleep' = asleep \ {s}
             /\ woken' = woken \cup {f}
             /\ UNCHANGED <<now, halted>>

(* A frame that was woken ends; the next sleep may get its address. *)
End(f) == /\ woken' = woken \ {f}
          /\ UNCHANGED <<now, asleep, halted>>

Halt == /\ halted' = TRUE
        /\ UNCHANGED <<now, asleep, woken>>

Tick == /\ now' = now + 1
        /\ UNCHANGED <<asleep, woken, halted>>

Next == \/ \E f \in Frames : \/ \E t \in Deadlines : Sleep(f, t)
                             \/ Cancel(f)
                             \/ Wake(f)
                             \/ End(f)
        \/ Halt
        \/ Tick

WakeSome == ~halted /\ \E f \in Frames : Wake(f)

(* Safety alone, and with the promise that due sleepers are woken as long  *)
(* as nobody halts the service.                                            *)
Safety == Init /\ [][Next]_vars
Spec   == Safety /\ WF_vars(WakeSome)
=============================================================================
