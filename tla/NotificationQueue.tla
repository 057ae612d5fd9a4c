------------------------- MODULE NotificationQueue -------------------------
(***************************************************************************)
(* utils/notification_queue.hpp: a std::queue behind a mutex and a         *)
(* condition variable, shared by threads that push, pop and finish it.     *)
(*                                                                         *)
(* A critical section is one step (nothing outside it reads what it        *)
(* touches); the notification after the unlock is a step of its own, and   *)
(* so is the new test of the predicate by a woken thread. try_push and     *)
(* try_pop that return false change nothing and are left out; the others   *)
(* do what push and the end of pop do.                                     *)
(***************************************************************************)
EXTENDS Integers, Sequences, FiniteSets

CONSTANTS
  Threads,
  Items,
  None,     \* what a thread holds before its first pop
  Garbage,  \* what front() of an empty queue returns (undefined)
  MaxLen    \* bound of the model on the length of queue_

ASSUME QueueAssumption ==
  /\ IsFiniteSet(Threads)
  /\ MaxLen \in Nat
  /\ None \notin Items
  /\ Garbage \notin Items \cup {None}

VARIABLES
  queue_,
  done_,
  pc,   \* "idle" | "notify_one" | "notify_all" | "blocked" | "woken"
  got   \* the argument t of the last pop of each thread

vars == <<queue_, done_, pc, got>>

At(where) == {t \in Threads : pc[t] = where}

Init ==
  /\ queue_ = <<>>
  /\ done_ = FALSE
  /\ pc = [t \in Threads |-> "idle"]
  /\ got = [t \in Threads |-> None]

-----------------------------------------------------------------------------
(* push and try_push: the item is in the queue when the mutex is released, *)
(* the notification follows.                                               *)
NotifiesFirstOnly == queue_ = <<>>  \* mutant
Notifies == TRUE

Push(t, i) ==
  /\ pc[t] = "idle"
  /\ Len(queue_) < MaxLen
  /\ queue_' = Append(queue_, i)
  /\ pc' = [pc EXCEPT ![t] = IF Notifies THEN "notify_one" ELSE "idle"]
  /\ UNCHANGED <<done_, got>>

(* ready_.notify_one(): one of the blocked threads, if there is one. *)
NotifyNobody(t) ==  \* mutant
  /\ pc[t] = "notify_one"
  /\ pc' = [pc EXCEPT ![t] = "idle"]
  /\ UNCHANGED <<queue_, done_, got>>

NotifyOne(t) ==
  /\ pc[t] = "notify_one"
  /\ \/ /\ At("blocked") = {}
        /\ pc' = [pc EXCEPT ![t] = "idle"]
     \/ \E b \in At("blocked") :
          pc' = [pc EXCEPT ![t] = "idle", ![b] = "woken"]
  /\ UNCHANGED <<queue_, done_, got>>

(* done(), and ready_.notify_all() after its unlock *)
Done(t) ==
  /\ pc[t] = "idle"
  /\ done_' = TRUE
  /\ pc' = [pc EXCEPT ![t] = "notify_all"]
  /\ UNCHANGED <<queue_, got>>

NotifyAll(t) ==
  /\ pc[t] = "notify_all"
  /\ pc' = [u \in Threads |-> IF u = t THEN "idle"
                              ELSE IF pc[u] = "blocked" THEN "woken"
                              ELSE pc[u]]
  /\ UNCHANGED <<queue_, done_, got>>

(* front() and pop() under the mutex *)
Front == IF queue_ = <<>> THEN Garbage ELSE Head(queue_)

TakeFront(t) ==
  /\ got' = [got EXCEPT ![t] = Front]
  /\ queue_' = SubSeq(queue_, 2, Len(queue_))
  /\ pc' = [pc EXCEPT ![t] = "idle"]
  /\ UNCHANGED done_

(* pop: the predicate of ready_.wait(), tested on entry and after each     *)
(* wake-up; when it fails the thread unlocks and blocks in one step. The   *)
(* return of false for an empty queue after the wait is never reached.     *)
PredicateIfNotDone == ~done_  \* mutant
Predicate == queue_ # <<>> /\ ~done_

Pop(t) ==
  /\ pc[t] \in {"idle", "woken"}
  /\ \/ Predicate /\ TakeFront(t)
     \/ /\ ~Predicate
        /\ pc' = [pc EXCEPT ![t] = "blocked"]
        /\ UNCHANGED <<queue_, done_, got>>

Retest(t) == pc[t] = "woken" /\ Pop(t)

(* A condition variable may wake a thread nobody notified. *)
SpuriousWakeup(t) ==
  /\ pc[t] = "blocked"
  /\ pc' = [pc EXCEPT ![t] = "woken"]
  /\ UNCHANGED <<queue_, done_, got>>

(* try_pop does not look at done_. *)
TryPop(t) ==
  /\ pc[t] = "idle"
  /\ queue_ # <<>>
  /\ TakeFront(t)

Next ==
  \E t \in Threads :
    \/ \E i \in Items : Push(t, i)
    \/ NotifyOne(t)
    \/ Done(t)
    \/ NotifyAll(t)
    \/ Pop(t)
    \/ SpuriousWakeup(t)
    \/ TryPop(t)

Spec == Init /\ [][Next]_vars

(* A thread inside a call goes on: it notifies, and once woken it gets the *)
(* mutex and tests the predicate. Nobody has to call anything.             *)
FairSpec == Spec /\ \A t \in Threads : /\ WF_vars(NotifyOne(t))
                                       /\ WF_vars(NotifyAll(t))
                                       /\ WF_vars(Retest(t))
-----------------------------------------------------------------------------
(* Every variable has its type; no pop returns the front of an empty queue. *)
TypeOK ==
  /\ queue_ \in Seq(Items) /\ Len(queue_) <= MaxLen
  /\ done_ \in BOOLEAN
  /\ pc \in [Threads -> {"idle", "notify_one", "notify_all", "blocked", "woken"}]
  /\ got \in [Threads -> Items \cup {None}]

(* No lost wake-up: while a thread is blocked on a queue that is not done, *)
(* every queued item has a notification still to come or a woken thread    *)
(* still to test the predicate, even though the notification is sent after *)
(* the unlock and another thread may take the item first.                  *)
NoLostWakeup ==
  ~done_ /\ At("blocked") # {} =>
    Len(queue_) <= Cardinality(At("notify_one")) + Cardinality(At("woken"))

(* The queue implements WaitingQueue: FIFO, one receiver for each item,    *)
(* and no caller of pop() left waiting with an item in the queue.          *)
Waiting == INSTANCE WaitingQueue WITH
  items <- queue_, callers <- At("blocked") \cup At("woken"), closed <- done_

ImplementsWaitingQueue == Waiting!Spec

(* A thread inside pop() returns once done() was called, as the "return    *)
(* false" after the wait and the notify_all() of done() intend.            *)
DoneReleases ==
  \A t \in Threads : done_ /\ pc[t] \in {"blocked", "woken"} ~> pc[t] = "idle"
=============================================================================
