---------------------------- MODULE WaitingQueue ----------------------------
(***************************************************************************)
(* What NotificationQueue promises until done(): items leave in the order  *)
(* they came, each to one caller, and a caller of pop() does not wait for  *)
(* ever on a queue that holds an item. No lock, no condition variable.     *)
(***************************************************************************)
EXTENDS Sequences

CONSTANTS Threads, Items, None

VARIABLES items,    \* what was pushed and not popped yet
          callers,  \* the threads inside pop()
          got,      \* what each thread popped last
          closed    \* done() was called

vars == <<items, callers, got, closed>>

Init == /\ items = <<>>
        /\ callers = {}
        /\ got = [t \in Threads |-> None]
        /\ closed = FALSE

Give(t) == /\ items # <<>>
           /\ got' = [got EXCEPT ![t] = Head(items)]
           /\ items' = Tail(items)
           /\ UNCHANGED closed

Put(i) == items' = Append(items, i) /\ UNCHANGED <<callers, got, closed>>

Call(t) == callers' = callers \cup {t} /\ UNCHANGED <<items, got, closed>>

Serve(t) == /\ t \in callers
            /\ callers' = callers \ {t}
            /\ Give(t)

(* pop() or try_pop() by a thread that does not have to wait. *)
TakeNow(t) == t \notin callers /\ Give(t) /\ UNCHANGED callers

Close == closed' = TRUE /\ UNCHANGED <<items, callers, got>>

Next == \/ \E i \in Items : Put(i)
        \/ \E t \in Threads : Call(t) \/ Serve(t) \/ TakeNow(t)
        \/ Close

ServeSome == ~closed /\ \E t \in Threads : Serve(t)

Safety == Init /\ [][Next]_vars
Spec   == Safety /\ WF_vars(ServeSome)
=============================================================================
