---------------------- MODULE NotificationQueue_proofs ----------------------
(***************************************************************************)
(* Theorems about NotificationQueue for every finite set of threads and    *)
(* every bound on the length of the queue.                                 *)
(***************************************************************************)
EXTENDS NotificationQueue, SequenceTheorems, FiniteSetTheorems, TLAPS

USE QueueAssumption DEF QueueAssumption

-----------------------------------------------------------------------------
(* Type correctness. *)

LEMMA TakeFrontType ==
  ASSUME TypeOK, NEW t \in Threads, queue_ # <<>>, TakeFront(t)
  PROVE  /\ TypeOK'
         /\ got' = [got EXCEPT ![t] = Head(queue_)]
         /\ queue_' = Tail(queue_)
         /\ Len(queue_') = Len(queue_) - 1
<1>1. /\ Head(queue_) \in Items
      /\ Tail(queue_) \in Seq(Items)
      /\ Len(Tail(queue_)) = Len(queue_) - 1
  BY HeadTailProperties DEF TypeOK
<1>2. queue_' = Tail(queue_)
  BY TailIsSubSeq DEF TypeOK, TakeFront
<1>3. got' = [got EXCEPT ![t] = Head(queue_)]
  BY DEF TakeFront, Front
<1>4. Len(queue_) \in Nat /\ Len(queue_) <= MaxLen
  BY DEF TypeOK
<1>5. queue_' \in Seq(Items) /\ Len(queue_') = Len(queue_) - 1
  BY <1>1, <1>2
<1>6. Len(queue_') <= MaxLen
  BY <1>4, <1>5
<1>7. got' \in [Threads -> Items \cup {None}]
  BY <1>1, <1>3 DEF TypeOK
<1>8. TypeOK'
  BY <1>5, <1>6, <1>7 DEF TypeOK, TakeFront
<1> QED
  BY <1>2, <1>3, <1>5, <1>8

LEMMA TypeInit == Init => TypeOK
<1> SUFFICES ASSUME Init PROVE TypeOK
  OBVIOUS
<1>1. queue_ \in Seq(Items) /\ Len(queue_) = 0
  BY DEF Init
<1>2. pc \in [Threads -> {"idle", "notify_one", "notify_all", "blocked", "woken"}]
  BY DEF Init
<1>3. got \in [Threads -> Items \cup {None}]
  BY DEF Init
<1>4. done_ \in BOOLEAN
  BY DEF Init
<1> QED
  BY <1>1, <1>2, <1>3, <1>4 DEF TypeOK

LEMMA TypeNext == TypeOK /\ [Next]_vars => TypeOK'
<1> SUFFICES ASSUME TypeOK, [Next]_vars
             PROVE  TypeOK'
  OBVIOUS
<1>1. ASSUME NEW t \in Threads, NEW i \in Items, Push(t, i)
      PROVE  TypeOK'
  <2>1. queue_' \in Seq(Items) /\ Len(queue_') = Len(queue_) + 1
    BY <1>1, AppendProperties DEF Push, TypeOK
  <2> QED
    BY <1>1, <2>1 DEF Push, Notifies, TypeOK
<1>2. ASSUME NEW t \in Threads, NotifyOne(t)
      PROVE  TypeOK'
  BY <1>2 DEF NotifyOne, At, TypeOK
<1>3. ASSUME NEW t \in Threads, Done(t)
      PROVE  TypeOK'
  BY <1>3 DEF Done, TypeOK
<1>4. ASSUME NEW t \in Threads, NotifyAll(t)
      PROVE  TypeOK'
  BY <1>4 DEF NotifyAll, TypeOK
<1>5. ASSUME NEW t \in Threads, Pop(t)
      PROVE  TypeOK'
  <2>1. CASE Predicate /\ TakeFront(t)
    BY <2>1, TakeFrontType DEF Predicate
  <2>2. CASE ~Predicate
    BY <1>5, <2>2 DEF Pop, TypeOK
  <2> QED
    BY <1>5, <2>1, <2>2 DEF Pop
<1>6. ASSUME NEW t \in Threads, SpuriousWakeup(t)
      PROVE  TypeOK'
  BY <1>6 DEF SpuriousWakeup, TypeOK
<1>7. ASSUME NEW t \in Threads, TryPop(t)
      PROVE  TypeOK'
  BY <1>7, TakeFrontType DEF TryPop
<1>8. CASE UNCHANGED vars
  BY <1>8 DEF vars, TypeOK
<1> QED
  BY <1>1, <1>2, <1>3, <1>4, <1>5, <1>6, <1>7, <1>8 DEF Next

(* Every variable of NotificationQueue keeps its type: no pop or try_pop   *)
(* returns the front of an empty queue.                                    *)
THEOREM TypeCorrect == Spec => []TypeOK
  BY TypeInit, TypeNext, PTL DEF Spec

-----------------------------------------------------------------------------
(* No lost wake-up: the invariant is inductive given the types. *)

LEMMA AtFinite ==
  ASSUME NEW where
  PROVE  IsFiniteSet(At(where)) /\ Cardinality(At(where)) \in Nat
  BY FS_Subset, FS_CardinalityType DEF At

LEMMA WakeupNext == TypeOK /\ TypeOK' /\ NoLostWakeup /\ [Next]_vars => NoLostWakeup'
<1> SUFFICES ASSUME TypeOK, TypeOK', NoLostWakeup, [Next]_vars,
                    ~done_', At("blocked")' # {}
             PROVE  Len(queue_') <= Cardinality(At("notify_one")')
                                      + Cardinality(At("woken")')
  BY DEF NoLostWakeup
<1> DEFINE N == At("notify_one")
           W == At("woken")
           Goal == Len(queue_') <= Cardinality(N') + Cardinality(W')
<1>0. /\ IsFiniteSet(N) /\ Cardinality(N) \in Nat
      /\ IsFiniteSet(W) /\ Cardinality(W) \in Nat
      /\ Len(queue_) \in Nat
  BY AtFinite DEF TypeOK
<1>1. ASSUME NEW t \in Threads, NEW i \in Items, Push(t, i)
      PROVE  Goal
  <2>1. N' = N \cup {t} /\ t \notin N /\ W' = W /\ At("blocked")' = At("blocked")
    BY <1>1 DEF Push, Notifies, At, TypeOK
  <2>2. Cardinality(N') = Cardinality(N) + 1
    BY <1>0, <2>1, FS_AddElement
  <2>3. Len(queue_') = Len(queue_) + 1
    BY <1>1, AppendProperties DEF Push, TypeOK
  <2>4. ~done_
    BY <1>1 DEF Push
  <2> QED
    BY <1>0, <2>1, <2>2, <2>3, <2>4 DEF NoLostWakeup
<1>2. ASSUME NEW t \in Threads, NotifyOne(t)
      PROVE  Goal
  <2>1. queue_' = queue_ /\ ~done_ /\ t \in N
    BY <1>2 DEF NotifyOne, At
  <2>2. PICK b \in At("blocked") : pc' = [pc EXCEPT ![t] = "idle", ![b] = "woken"]
    <3>1. CASE At("blocked") = {}
      BY <1>2, <3>1 DEF NotifyOne, At, TypeOK
    <3> QED
      BY <1>2, <3>1 DEF NotifyOne
  <2>3. b # t /\ b \notin W
    BY <2>1, <2>2 DEF At
  <2>4. N' = N \ {t} /\ W' = W \cup {b}
    BY <2>1, <2>2, <2>3 DEF At, TypeOK
  <2>5. Cardinality(N') = Cardinality(N) - 1 /\ Cardinality(W') = Cardinality(W) + 1
    BY <1>0, <2>1, <2>3, <2>4, FS_AddElement, FS_RemoveElement
  <2> QED
    BY <1>0, <2>1, <2>2, <2>5 DEF NoLostWakeup
<1>3. ASSUME NEW t \in Threads, Done(t)
      PROVE  Goal
  BY <1>3 DEF Done
<1>4. ASSUME NEW t \in Threads, NotifyAll(t)
      PROVE  Goal
  <2>1. At("blocked")' = {}
    BY <1>4 DEF NotifyAll, At
  <2> QED
    BY <2>1
<1>5. ASSUME NEW t \in Threads, queue_ # <<>>, TakeFront(t), pc[t] \in {"idle", "woken"}
      PROVE  Goal
  <2>1. Len(queue_') = Len(queue_) - 1
    BY <1>5, TakeFrontType
  <2>2. ~done_ /\ pc' = [pc EXCEPT ![t] = "idle"]
    BY <1>5 DEF TakeFront
  <2>3. N' = N /\ W' = W \ {t} /\ At("blocked")' = At("blocked")
    BY <1>5, <2>2 DEF At, TypeOK
  <2>4. Cardinality(W \ {t}) = IF t \in W THEN Cardinality(W) - 1
                                          ELSE Cardinality(W)
    BY <1>0, FS_RemoveElement
  <2>5. Cardinality(W') \in Int /\ Cardinality(W') >= Cardinality(W) - 1
    <3>1. \/ Cardinality(W') = Cardinality(W) - 1
          \/ Cardinality(W') = Cardinality(W)
      <4>1. Cardinality(W') = Cardinality(W \ {t})
        BY <2>3
      <4> QED
        BY <2>4, <4>1
    <3>2. Cardinality(W) \in Int
      BY <1>0
    <3> QED
      BY <3>1, <3>2
  <2> QED
    BY <1>0, <2>1, <2>2, <2>3, <2>5 DEF NoLostWakeup
<1>6. ASSUME NEW t \in Threads, Pop(t)
      PROVE  Goal
  <2>1. CASE Predicate /\ TakeFront(t)
    BY <1>5, <1>6, <2>1 DEF Predicate, Pop
  <2>2. CASE ~Predicate
    <3>1. queue_' = <<>>
      BY <1>6, <2>2 DEF Pop, Predicate, TakeFront
    <3>2. Cardinality(N') \in Nat /\ Cardinality(W') \in Nat
      <4>1. IsFiniteSet(N') /\ IsFiniteSet(W')
        BY FS_Subset DEF At
      <4> QED
        BY <4>1, FS_CardinalityType
    <3> QED
      BY <3>1, <3>2
  <2> QED
    BY <1>6, <2>1, <2>2 DEF Pop
<1>7. ASSUME NEW t \in Threads, SpuriousWakeup(t)
      PROVE  Goal
  <2>1. N' = N /\ W' = W \cup {t} /\ t \notin W /\ t \in At("blocked")
    BY <1>7 DEF SpuriousWakeup, At, TypeOK
  <2>2. Cardinality(W') = Cardinality(W) + 1
    BY <1>0, <2>1, FS_AddElement
  <2> QED
    BY <1>0, <1>7, <2>1, <2>2 DEF SpuriousWakeup, NoLostWakeup
<1>8. ASSUME NEW t \in Threads, TryPop(t)
      PROVE  Goal
  BY <1>5, <1>8 DEF TryPop
<1>9. CASE UNCHANGED vars
  BY <1>9 DEF vars, NoLostWakeup, At
<1> QED
  BY <1>1, <1>2, <1>3, <1>4, <1>6, <1>7, <1>8, <1>9 DEF Next

(* No thread is ever blocked on a queue with more items than there are     *)
(* notifications and woken threads on their way, for any number of         *)
(* threads and any length of the queue.                                    *)
THEOREM NoWakeupLost == Spec => []NoLostWakeup
<1>1. Init => NoLostWakeup
  BY DEF Init, NoLostWakeup, At
<1> QED
  BY <1>1, WakeupNext, TypeCorrect, PTL DEF Spec

-----------------------------------------------------------------------------
(* Refinement of the safety of WaitingQueue. *)

LEMMA WaitingNext ==
  ASSUME TypeOK, [Next]_vars
  PROVE  [Waiting!Next]_(Waiting!vars)
<1> USE DEF Waiting!Next, Waiting!vars
<1> DEFINE callers == At("blocked") \cup At("woken")
<1>1. ASSUME NEW t \in Threads, NEW i \in Items, Push(t, i)
      PROVE  Waiting!Put(i)
  <2>1. callers' = callers
    BY <1>1 DEF Push, Notifies, At, TypeOK
  <2> QED
    BY <1>1, <2>1 DEF Push, Waiting!Put
<1>2. ASSUME NEW t \in Threads, NotifyOne(t) \/ NotifyAll(t) \/ SpuriousWakeup(t)
      PROVE  UNCHANGED Waiting!vars
  <2>1. callers' = callers
    BY <1>2 DEF NotifyOne, NotifyAll, SpuriousWakeup, At, TypeOK
  <2> QED
    BY <1>2, <2>1 DEF NotifyOne, NotifyAll, SpuriousWakeup
<1>3. ASSUME NEW t \in Threads, Done(t)
      PROVE  Waiting!Close
  <2>1. callers' = callers
    BY <1>3 DEF Done, At, TypeOK
  <2> QED
    BY <1>3, <2>1 DEF Done, Waiting!Close
<1>4. ASSUME NEW t \in Threads, queue_ # <<>>, TakeFront(t), pc[t] \in {"idle", "woken"}
      PROVE  Waiting!Serve(t) \/ Waiting!TakeNow(t)
  <2>1. Waiting!Give(t)
    BY <1>4, TakeFrontType DEF Waiting!Give, TakeFront
  <2>2. callers' = callers \ {t}
    BY <1>4 DEF TakeFront, At, TypeOK
  <2>3. CASE t \in callers
    BY <2>1, <2>2, <2>3 DEF Waiting!Serve
  <2>4. CASE t \notin callers
    BY <2>1, <2>2, <2>4 DEF Waiting!TakeNow
  <2> QED
    BY <2>3, <2>4
<1>5. ASSUME NEW t \in Threads, Pop(t)
      PROVE  Waiting!Serve(t) \/ Waiting!TakeNow(t) \/ Waiting!Call(t)
  <2>1. CASE Predicate /\ TakeFront(t)
    BY <1>4, <1>5, <2>1 DEF Predicate, Pop
  <2>2. CASE ~Predicate
    <3>1. pc' = [pc EXCEPT ![t] = "blocked"] /\ UNCHANGED <<queue_, done_, got>>
      BY <1>5, <2>2 DEF Pop
    <3>2. callers' = callers \cup {t}
      BY <3>1 DEF At, TypeOK
    <3> QED
      BY <3>1, <3>2 DEF Waiting!Call
  <2> QED
    BY <1>5, <2>1, <2>2 DEF Pop
<1>6. ASSUME NEW t \in Threads, TryPop(t)
      PROVE  Waiting!Serve(t) \/ Waiting!TakeNow(t)
  BY <1>4, <1>6 DEF TryPop
<1>7. CASE UNCHANGED vars
  BY <1>7 DEF vars, At
<1> QED
  BY <1>1, <1>2, <1>3, <1>5, <1>6, <1>7 DEF Next

(* Items leave in the order they came and each goes to one caller, however *)
(* the threads interleave.                                                 *)
THEOREM RefinesWaitingQueue == Spec => Waiting!Safety
<1>1. Init => Waiting!Init
  BY DEF Init, Waiting!Init, At
<1>2. TypeOK /\ [Next]_vars => [Waiting!Next]_(Waiting!vars)
  BY WaitingNext
<1> QED
  BY <1>1, <1>2, TypeCorrect, PTL DEF Spec, Waiting!Safety
=============================================================================
