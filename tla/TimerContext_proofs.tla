------------------------ MODULE TimerContext_proofs ------------------------
(***************************************************************************)
(* Theorems about TimerContext for every set of frames, every horizon and  *)
(* every bound on the number of timers.                                    *)
(***************************************************************************)
EXTENDS TimerContext, TLAPS

USE DEF TimerAssumption
USE TimerAssumption

-----------------------------------------------------------------------------
(* Type correctness. *)

(* What reset() and add_timer() leave has its type. *)
LEMMA ResetType ==
  ASSUME TypeOK, NEW T \in SUBSET Entry, Reset(T)
  PROVE  /\ timers_' \subseteq Entry
         /\ cancel_timers_' \subseteq 1 .. MaxTimers
         /\ fd_deadline' \subseteq 0 .. (MaxTime + 1)
         /\ fd_expired' \in BOOLEAN
<1>1. PICK D \in Dropped(T, cancel_timers_) :
        /\ timers_' = T \ D
        /\ cancel_timers_' = cancel_timers_ \ {d.id : d \in D}
        /\ IF T \ D = {}
           THEN UNCHANGED fd
           ELSE /\ fd_expired' = FALSE
                /\ \E e \in Tops(T \ D) : fd_deadline' \in Settime(e.expired_time)
  BY DEF Reset
<1>2. CASE T \ D = {}
  BY <1>1, <1>2 DEF TypeOK, fd
<1>3. CASE T \ D # {}
  <2>1. PICK e \in Tops(T \ D) : fd_deadline' \in Settime(e.expired_time)
    BY <1>1, <1>3
  <2>2. e.expired_time \in 0 .. MaxTime
    BY <2>1 DEF Tops, Entry
  <2>3. fd_deadline' \subseteq 0 .. (MaxTime + 1)
    BY <2>1, <2>2 DEF Settime, TypeOK
  <2> QED
    BY <1>1, <1>3, <2>3 DEF TypeOK
<1> QED
  BY <1>2, <1>3

LEMMA AddTimerType ==
  ASSUME TypeOK, NEW t \in 0 .. MaxTime, NEW c \in Frames \cup {Null},
         NEW s \in BOOLEAN, AddTimer(t, c, s)
  PROVE  /\ timers_' \subseteq Entry
         /\ cancel_timers_' \subseteq 1 .. MaxTimers
         /\ next_timer_id_' \in 1 .. MaxTimers
         /\ fd_deadline' \subseteq 0 .. (MaxTime + 1)
         /\ fd_expired' \in BOOLEAN
<1> DEFINE new == [expired_time |-> t, callback |-> c, id |-> next_timer_id_ + 1]
           T == timers_ \cup {new}
<1>1. next_timer_id_ + 1 \in 1 .. MaxTimers
  BY DEF AddTimer, TypeOK
<1>2. T \in SUBSET Entry
  BY <1>1 DEF TypeOK, Entry
<1>3. CASE IsReset(t, s)
  <2>1. Reset(T)
    BY <1>3 DEF AddTimer
  <2> QED
    BY <1>1, <1>2, <2>1, ResetType DEF AddTimer
<1>4. CASE ~IsReset(t, s)
  BY <1>1, <1>2, <1>4 DEF AddTimer, TypeOK, fd
<1> QED
  BY <1>3, <1>4

(* TypeOK alone is not inductive: destroying a sleeping frame cancels the  *)
(* id of its promise, which must be one that add_timer() returned.         *)
Registered == \A f \in Frames : frame[f] = "sleeping" => timer_id_[f] # 0
TypeInv == TypeOK /\ Registered

LEMMA TypeInit == Init => TypeInv
<1> SUFFICES ASSUME Init PROVE TypeInv
  OBVIOUS
<1>1. frame \in [Frames -> {"fresh", "sleeping", "resumed"}]
  BY DEF Init
<1>2. timer_id_ \in [Frames -> 0 .. MaxTimers]
  BY DEF Init
<1>3. Registered
  BY DEF Init, Registered
<1>4. /\ now \in 0 .. MaxTime
      /\ next_timer_id_ \in 0 .. MaxTimers
  BY DEF Init
<1> QED
  BY <1>1, <1>2, <1>3, <1>4 DEF Init, TypeInv, TypeOK

LEMMA TypeNext == TypeInv /\ [Next]_vars => TypeInv'
<1> SUFFICES ASSUME TypeOK, Registered, [Next]_vars
             PROVE  TypeOK' /\ Registered'
  BY DEF TypeInv
<1>1. ASSUME NEW f \in Frames, NEW t \in Deadlines, Sleep(f, t)
      PROVE  TypeOK' /\ Registered'
  <2>1. t \in 0 .. MaxTime /\ f \in Frames \cup {Null} /\ stop_ \in BOOLEAN
    BY DEF TypeOK
  <2>2. AddTimer(t, f, stop_)
    BY <1>1 DEF Sleep
  <2>3. /\ timers_' \subseteq Entry
        /\ cancel_timers_' \subseteq 1 .. MaxTimers
        /\ next_timer_id_' \in 1 .. MaxTimers
        /\ fd_deadline' \subseteq 0 .. (MaxTime + 1)
        /\ fd_expired' \in BOOLEAN
    BY <2>1, <2>2, AddTimerType
  <2>4. timer_id_' \in [Frames -> 0 .. MaxTimers]
    BY <1>1, <2>3 DEF Sleep, TypeOK
  <2>5. Registered'
    BY <1>1, <2>3 DEF Sleep, TypeOK, Registered
  <2> QED
    BY <1>1, <2>3, <2>4, <2>5 DEF Sleep, TypeOK, Registered
<1>2. ASSUME NEW f \in Frames, Destroy(f)
      PROVE  TypeOK' /\ Registered'
  <2>1. frame[f] = "sleeping" => timer_id_[f] \in 1 .. MaxTimers
    BY DEF TypeOK, Registered
  <2>2. cancel_timers_' \subseteq 1 .. MaxTimers
    BY <1>2, <2>1 DEF Destroy, TypeOK, Suspended, Completed
  <2>3. frame' \in [Frames -> {"fresh", "sleeping", "resumed"}]
    BY <1>2 DEF Destroy, TypeOK
  <2>4. Registered'
    BY <1>2 DEF Destroy, TypeOK, Registered
  <2> QED
    BY <1>2, <2>2, <2>3, <2>4 DEF Destroy, TypeOK, Registered, fd
<1>3. CASE Stop
  <2>1. now \in 0 .. MaxTime /\ Null \in Frames \cup {Null} /\ TRUE \in BOOLEAN
    BY DEF TypeOK
  <2>2. AddTimer(now, Null, TRUE)
    BY <1>3 DEF Stop
  <2>3. /\ timers_' \subseteq Entry
        /\ cancel_timers_' \subseteq 1 .. MaxTimers
        /\ next_timer_id_' \in 1 .. MaxTimers
        /\ fd_deadline' \subseteq 0 .. (MaxTime + 1)
        /\ fd_expired' \in BOOLEAN
    BY <2>1, <2>2, AddTimerType
  <2> QED
    BY <1>3, <2>3 DEF Stop, TypeOK, Registered
<1>4. CASE Tick
  BY <1>4 DEF Tick, TypeOK, Registered, fd
<1>5. CASE Expire
  BY <1>5 DEF Expire, TypeOK, Registered
<1>6. CASE ReadClock
  BY <1>6 DEF ReadClock, AfterRead, TypeOK, Registered
<1>7. CASE DiscardCancelled
  BY <1>7 DEF DiscardCancelled, TypeOK, Registered, fd
<1>8. CASE ResumeTop
  <2>1. PICK e \in timers_ :
          /\ timers_' = timers_ \ {e}
          /\ IF e.callback = Null
             THEN pc' = "crashed" /\ UNCHANGED frame
             ELSE /\ pc' = "callback"
                  /\ frame' = [frame EXCEPT ![e.callback] = "resumed"]
    BY <1>8 DEF ResumeTop
  <2>2. frame' \in [Frames -> {"fresh", "sleeping", "resumed"}]
    BY <2>1 DEF TypeOK
  <2>3. Registered'
    BY <1>8, <2>1 DEF ResumeTop, TypeOK, Registered
  <2> QED
    BY <1>8, <2>1, <2>2, <2>3 DEF ResumeTop, TypeOK, Registered, fd
<1>9. CASE EndDrain
  BY <1>9 DEF EndDrain, TypeOK, Registered, fd
<1>10. CASE Rearm
  <2>1. timers_ \in SUBSET Entry /\ Reset(timers_)
    BY <1>10 DEF Rearm, TypeOK
  <2>2. /\ timers_' \subseteq Entry
        /\ cancel_timers_' \subseteq 1 .. MaxTimers
        /\ fd_deadline' \subseteq 0 .. (MaxTime + 1)
        /\ fd_expired' \in BOOLEAN
    BY <2>1, ResetType
  <2> QED
    BY <1>10, <2>2 DEF Rearm, TypeOK, Registered
<1>11. CASE Return
  BY <1>11 DEF Return, TypeOK, Registered, fd
<1>12. CASE UNCHANGED vars
  BY <1>12 DEF vars, TypeOK, Registered
<1> QED
  BY <1>1, <1>2, <1>3, <1>4, <1>5, <1>6, <1>7, <1>8, <1>9, <1>10, <1>11,
     <1>12 DEF Next, PollTimer

(* Every variable of TimerContext keeps its type: in particular no         *)
(* never-suspended frame is cancelled and no id leaves its range.          *)
THEOREM TypeCorrect == Spec => []TypeOK
  BY TypeInit, TypeNext, PTL DEF Spec, TypeInv

-----------------------------------------------------------------------------
(* The heap and the frames. The two conjuncts of HeapInv that the runs do  *)
(* not name are what makes lazy cancellation by id sound: an id is queued  *)
(* once, and the id of the next timer is not queued yet.                   *)

UniqueIds(T) == \A e, o \in T : e.id = o.id => e = o
IdsIssued == \A e \in timers_ : e.id <= next_timer_id_

QueueInv == UniqueIds(timers_) /\ IdsIssued /\ CancelledStillQueued
HeapInv == QueueInv /\ EntriesMatchFrames

(* Popping cancelled tops together with their ids changes no live entry.   *)
LEMMA DropKeepsLive ==
  ASSUME NEW T, NEW C, NEW D \in Dropped(T, C), UniqueIds(T)
  PROVE  (T \ D) \ Cancelled(T \ D, C \ {d.id : d \in D}) = T \ Cancelled(T, C)
<1>1. D \subseteq Cancelled(T, C)
  BY DEF Dropped
<1>2. ASSUME NEW e \in T, e.id \notin C
      PROVE  e \in (T \ D) \ Cancelled(T \ D, C \ {d.id : d \in D})
  BY <1>1, <1>2 DEF Cancelled
<1>3. ASSUME NEW e \in T \ D, e.id \notin C \ {d.id : d \in D}
      PROVE  e.id \notin C
  <2>1. \A d \in D : e.id # d.id
    BY <1>1 DEF UniqueIds, Cancelled
  <2> QED
    BY <1>3, <2>1
<1> QED
  BY <1>2, <1>3 DEF Cancelled

LEMMA ResetKeepsLive ==
  ASSUME NEW T, UniqueIds(T), Reset(T),
         \A i \in cancel_timers_ : \E e \in T : e.id = i
  PROVE  /\ timers_' \subseteq T
         /\ Live' = T \ Cancelled(T, cancel_timers_)
         /\ CancelledStillQueued'
<1>1. PICK D \in Dropped(T, cancel_timers_) :
        /\ timers_' = T \ D
        /\ cancel_timers_' = cancel_timers_ \ {d.id : d \in D}
  BY DEF Reset
<1>2. Live' = T \ Cancelled(T, cancel_timers_)
  BY <1>1, DropKeepsLive DEF Live
<1>3. ASSUME NEW i \in cancel_timers_'
      PROVE  \E e \in timers_' : e.id = i
  <2>1. PICK e \in T : e.id = i
    BY <1>1, <1>3
  <2>2. e \notin D
    BY <1>1, <1>3, <2>1
  <2> QED
    BY <1>1, <2>1, <2>2
<1> QED
  BY <1>1, <1>2, <1>3 DEF CancelledStillQueued

(* The entry add_timer() queues. *)
NewEntry(t, c) ==
  [expired_time |-> t, callback |-> c, id |-> next_timer_id_ + 1]

LEMMA AddTimerLive ==
  ASSUME TypeOK, QueueInv, NEW t, NEW c, NEW s, AddTimer(t, c, s)
  PROVE  /\ QueueInv'
         /\ Live' = Live \cup {NewEntry(t, c)}
         /\ next_timer_id_' = next_timer_id_ + 1
<1> DEFINE new == NewEntry(t, c)
           T == timers_ \cup {new}
<1>1. next_timer_id_' = next_timer_id_ + 1 /\ new.id = next_timer_id_ + 1
  BY DEF AddTimer, NewEntry
<1>2. \A e \in timers_ : e.id \in Nat /\ e.id <= next_timer_id_
  BY DEF TypeOK, QueueInv, IdsIssued, Entry
<1>3. next_timer_id_ \in Nat
  BY DEF TypeOK
<1>4. \A e \in timers_ : e.id # new.id
  BY <1>1, <1>2, <1>3
<1>5. UniqueIds(T)
  BY <1>4 DEF UniqueIds, QueueInv
<1>6. new.id \notin cancel_timers_
  BY <1>4 DEF QueueInv, CancelledStillQueued
<1>7. T \ Cancelled(T, cancel_timers_) = Live \cup {new}
  BY <1>6 DEF Live, Cancelled
<1>8. \A e \in T : e.id <= next_timer_id_'
  BY <1>1, <1>2, <1>3
<1>9. \A i \in cancel_timers_ : \E e \in T : e.id = i
  BY DEF QueueInv, CancelledStillQueued
<1>10. CASE IsReset(t, s)
  <2>1. Reset(T)
    BY <1>10 DEF AddTimer, NewEntry
  <2>2. /\ timers_' \subseteq T
        /\ Live' = T \ Cancelled(T, cancel_timers_)
        /\ CancelledStillQueued'
    BY <2>1, <1>5, <1>9, ResetKeepsLive
  <2> QED
    BY <1>1, <1>5, <1>7, <1>8, <2>2 DEF QueueInv, UniqueIds, IdsIssued
<1>11. CASE ~IsReset(t, s)
  <2>1. timers_' = T /\ cancel_timers_' = cancel_timers_
    BY <1>11 DEF AddTimer, NewEntry
  <2> QED
    BY <1>1, <1>5, <1>7, <1>8, <1>9, <2>1
       DEF QueueInv, IdsIssued, CancelledStillQueued, Live
<1> QED
  BY <1>10, <1>11

(* ~TimerPromise of a frame that has not completed removes exactly its     *)
(* entry from the live ones.                                               *)
LEMMA DestroyLive ==
  ASSUME TypeOK, HeapInv, NEW f \in Frames, Destroy(f)
  PROVE  /\ QueueInv'
         /\ Live' = {e \in Live : e.callback # f}
<1>1. timers_' = timers_ /\ next_timer_id_' = next_timer_id_
  BY DEF Destroy
<1>2. CASE frame[f] = "resumed"
  <2>1. cancel_timers_' = cancel_timers_
    BY <1>2 DEF Destroy, Completed
  <2>2. f # Null
    OBVIOUS
  <2>3. \A e \in Live : e.callback # f
    BY <1>2, <2>2 DEF HeapInv, EntriesMatchFrames
  <2> QED
    BY <1>1, <2>1, <2>3
       DEF HeapInv, QueueInv, IdsIssued, CancelledStillQueued, Live
<1>3. CASE frame[f] = "sleeping"
  <2>1. cancel_timers_' = cancel_timers_ \cup {timer_id_[f]}
    BY <1>3 DEF Destroy, Completed
  <2>2. PICK x \in Live : x.callback = f /\ x.id = timer_id_[f]
    BY <1>3 DEF HeapInv, EntriesMatchFrames
  <2>3. x \in timers_
    BY <2>2 DEF Live
  <2>4. Live' = {e \in Live : e.id # timer_id_[f]}
    BY <1>1, <2>1 DEF Live, Cancelled
  <2>5. ASSUME NEW e \in Live
        PROVE  e.id = timer_id_[f] <=> e.callback = f
    <3>1. e.callback = f => e.id = timer_id_[f]
      BY f # Null DEF HeapInv, EntriesMatchFrames
    <3>2. e.id = timer_id_[f] => e = x
      BY <2>2, <2>3 DEF HeapInv, QueueInv, UniqueIds, Live
    <3> QED
      BY <3>1, <3>2, <2>2
  <2>6. Live' = {e \in Live : e.callback # f}
    BY <2>4, <2>5
  <2>7. QueueInv'
    BY <1>1, <2>1, <2>2, <2>3
       DEF HeapInv, QueueInv, IdsIssued, CancelledStillQueued
  <2> QED
    BY <2>6, <2>7
<1> QED
  BY <1>2, <1>3 DEF Destroy, Suspended, TypeOK

(* Dropping a cancelled top in the drain loop changes no live entry. *)
LEMMA DiscardLive ==
  ASSUME HeapInv, DiscardCancelled
  PROVE  QueueInv' /\ Live' = Live
<1>1. PICK e \in timers_ :
        /\ e.id \in cancel_timers_
        /\ timers_' = timers_ \ {e}
        /\ cancel_timers_' = cancel_timers_ \ {e.id}
  BY DEF DiscardCancelled
<1>2. next_timer_id_' = next_timer_id_
  BY DEF DiscardCancelled
<1>3. \A o \in timers_ : o # e => o.id # e.id
  BY DEF HeapInv, QueueInv, UniqueIds
<1>4. Live' = Live
  BY <1>1, <1>3 DEF Live, Cancelled
<1>5. CancelledStillQueued'
  BY <1>1 DEF HeapInv, QueueInv, CancelledStillQueued
<1> QED
  BY <1>1, <1>2, <1>4, <1>5 DEF HeapInv, QueueInv, UniqueIds, IdsIssued

(* A resumed top leaves the live entries, and nothing else does. *)
LEMMA ResumeLive ==
  ASSUME HeapInv, NEW e \in timers_, e.id \notin cancel_timers_,
         timers_' = timers_ \ {e},
         UNCHANGED <<cancel_timers_, next_timer_id_>>
  PROVE  QueueInv' /\ e \in Live /\ Live' = Live \ {e}
<1>1. Live' = Live \ {e}
  BY DEF Live, Cancelled
<1>2. CancelledStillQueued'
  BY DEF HeapInv, QueueInv, CancelledStillQueued
<1> QED
  BY <1>1, <1>2 DEF HeapInv, QueueInv, UniqueIds, IdsIssued, Live, Cancelled

LEMMA RearmLive ==
  ASSUME HeapInv, Rearm
  PROVE  QueueInv' /\ Live' = Live
<1>1. UniqueIds(timers_) /\ Reset(timers_) /\ next_timer_id_' = next_timer_id_
  BY DEF HeapInv, QueueInv, Rearm
<1>2. \A i \in cancel_timers_ : \E e \in timers_ : e.id = i
  BY DEF HeapInv, QueueInv, CancelledStillQueued
<1>3. /\ timers_' \subseteq timers_
      /\ Live' = Live
      /\ CancelledStillQueued'
  BY <1>1, <1>2, ResetKeepsLive DEF Live
<1> QED
  BY <1>1, <1>3 DEF HeapInv, QueueInv, UniqueIds, IdsIssued

LEMMA HeapInit == Init => HeapInv
  BY DEF Init, HeapInv, QueueInv, UniqueIds, IdsIssued, CancelledStillQueued,
         EntriesMatchFrames, Live

LEMMA HeapNext == TypeInv /\ HeapInv /\ [Next]_vars => HeapInv'
<1> SUFFICES ASSUME TypeOK, HeapInv, [Next]_vars
             PROVE  QueueInv' /\ EntriesMatchFrames'
  BY DEF HeapInv, TypeInv
<1>1. ASSUME NEW f \in Frames, NEW t \in Deadlines, Sleep(f, t)
      PROVE  QueueInv' /\ EntriesMatchFrames'
  <2>1. AddTimer(t, f, stop_) /\ QueueInv
    BY <1>1 DEF Sleep, HeapInv
  <2>2. /\ QueueInv'
        /\ Live' = Live \cup {NewEntry(t, f)}
        /\ next_timer_id_' = next_timer_id_ + 1
    BY <2>1, AddTimerLive
  <2>3. /\ frame[f] = "fresh"
        /\ frame' = [frame EXCEPT ![f] = "sleeping"]
        /\ timer_id_' = [timer_id_ EXCEPT ![f] = next_timer_id_ + 1]
    BY <1>1, <2>2 DEF Sleep
  <2>4. NewEntry(t, f).callback = f /\ NewEntry(t, f).id = next_timer_id_ + 1
    BY DEF NewEntry
  <2>5. \A e \in Live : e.callback # f
    BY <2>3, f # Null DEF HeapInv, EntriesMatchFrames
  <2>6. ASSUME NEW e \in Live', e.callback # Null
        PROVE  frame'[e.callback] = "sleeping" /\ timer_id_'[e.callback] = e.id
    <3>1. CASE e \in Live
      BY <3>1, <2>3, <2>5, <2>6 DEF HeapInv, EntriesMatchFrames, TypeOK
    <3>2. CASE e = NewEntry(t, f)
      BY <3>2, <2>3, <2>4 DEF TypeOK
    <3> QED
      BY <3>1, <3>2, <2>2
  <2>7. ASSUME NEW g \in Frames, frame'[g] = "sleeping"
        PROVE  \E e \in Live' : e.callback = g /\ e.id = timer_id_'[g]
    <3>1. CASE g = f
      BY <3>1, <2>2, <2>3, <2>4 DEF TypeOK
    <3>2. CASE g # f
      BY <3>2, <2>2, <2>3, <2>7 DEF HeapInv, EntriesMatchFrames, TypeOK
    <3> QED
      BY <3>1, <3>2
  <2> QED
    BY <2>2, <2>6, <2>7 DEF EntriesMatchFrames
<1>2. ASSUME NEW f \in Frames, Destroy(f)
      PROVE  QueueInv' /\ EntriesMatchFrames'
  <2>1. QueueInv' /\ Live' = {e \in Live : e.callback # f}
    BY <1>2, DestroyLive
  <2>2. frame' = [frame EXCEPT ![f] = "fresh"] /\ timer_id_' = timer_id_
    BY <1>2 DEF Destroy
  <2> QED
    BY <2>1, <2>2 DEF HeapInv, EntriesMatchFrames, TypeOK
<1>3. CASE Stop
  <2>1. AddTimer(now, Null, TRUE) /\ QueueInv
    BY <1>3 DEF Stop, HeapInv
  <2>2. QueueInv' /\ Live' = Live \cup {NewEntry(now, Null)}
    BY <2>1, AddTimerLive
  <2>3. NewEntry(now, Null).callback = Null
    BY DEF NewEntry
  <2> QED
    BY <1>3, <2>2, <2>3 DEF Stop, HeapInv, EntriesMatchFrames
<1>4. ASSUME UNCHANGED <<timers_, cancel_timers_, next_timer_id_, frame, timer_id_>>
      PROVE  QueueInv' /\ EntriesMatchFrames'
  BY <1>4 DEF HeapInv, QueueInv, UniqueIds, IdsIssued, CancelledStillQueued,
              EntriesMatchFrames, Live
<1>5. CASE DiscardCancelled
  BY <1>5, DiscardLive DEF DiscardCancelled, HeapInv, EntriesMatchFrames
<1>6. CASE ResumeTop
  <2>1. PICK e \in timers_ :
          /\ e.id \notin cancel_timers_
          /\ timers_' = timers_ \ {e}
          /\ IF e.callback = Null
             THEN UNCHANGED frame
             ELSE frame' = [frame EXCEPT ![e.callback] = "resumed"]
    BY <1>6 DEF ResumeTop
  <2>2. UNCHANGED <<cancel_timers_, next_timer_id_, timer_id_>>
    BY <1>6 DEF ResumeTop
  <2>3. QueueInv' /\ e \in Live /\ Live' = Live \ {e}
    BY <2>1, <2>2, ResumeLive
  <2>4. \A o \in Live : o # e /\ o.callback # Null => o.callback # e.callback
    BY <2>3 DEF HeapInv, EntriesMatchFrames, QueueInv, UniqueIds, Live
  <2>5. CASE e.callback = Null
    <3>1. frame' = frame
      BY <2>1, <2>5
    <3> QED
      BY <3>1, <2>2, <2>3, <2>5 DEF HeapInv, EntriesMatchFrames
  <2>6. CASE e.callback # Null
    <3>1. frame' = [frame EXCEPT ![e.callback] = "resumed"]
      BY <2>1, <2>6
    <3>2. ASSUME NEW o \in Live', o.callback # Null
          PROVE  frame'[o.callback] = "sleeping" /\ timer_id_'[o.callback] = o.id
      BY <3>1, <3>2, <2>2, <2>3, <2>4 DEF HeapInv, EntriesMatchFrames, TypeOK
    <3>3. ASSUME NEW g \in Frames, frame'[g] = "sleeping"
          PROVE  \E o \in Live' : o.callback = g /\ o.id = timer_id_'[g]
      <4>1. g # e.callback /\ frame[g] = "sleeping"
        BY <3>1, <3>3 DEF TypeOK
      <4>2. PICK o \in Live : o.callback = g /\ o.id = timer_id_[g]
        BY <4>1 DEF HeapInv, EntriesMatchFrames
      <4> QED
        BY <4>1, <4>2, <2>2, <2>3
    <3> QED
      BY <2>3, <3>2, <3>3 DEF EntriesMatchFrames
  <2> QED
    BY <2>5, <2>6
<1>7. CASE Rearm
  BY <1>7, RearmLive DEF Rearm, HeapInv, EntriesMatchFrames
<1> QED
  BY <1>1, <1>2, <1>3, <1>4, <1>5, <1>6, <1>7
     DEF Next, PollTimer, Tick, Expire, ReadClock, EndDrain, Return, vars

LEMMA HeapCorrect == Spec => [](TypeInv /\ HeapInv)
<1>1. Init => TypeInv /\ HeapInv
  BY TypeInit, HeapInit
<1>2. TypeInv /\ HeapInv /\ [Next]_vars => (TypeInv /\ HeapInv)'
  BY TypeNext, HeapNext
<1> QED
  BY <1>1, <1>2, PTL DEF Spec

(* No sleeper is lost and no destroyed or resumed frame can be called: the *)
(* live entries are the sleeping frames in every reachable state, for any  *)
(* number of frames and timers.                                            *)
THEOREM SleepersKept == Spec => []EntriesMatchFrames
  BY HeapCorrect, PTL DEF HeapInv

(* The set of cancelled ids only ever names queued entries.                *)
THEOREM CancelSetClean == Spec => []CancelledStillQueued
  BY HeapCorrect, PTL DEF HeapInv, QueueInv

-----------------------------------------------------------------------------
(* The wake-up. *)

Covered(t) == fd_expired \/ \E d \in fd_deadline : d <= t \/ d <= now + 1

(* After reset() every queued entry is covered, as the timerfd is armed    *)
(* for the top, if the clock is never read equal to its deadline.          *)
LEMMA ResetCovers ==
  ASSUME TypeOK, ~ClockReadsRepeat, NEW T \in SUBSET Entry, Reset(T),
         now' = now, NEW e \in timers_'
  PROVE  Covered(e.expired_time)'
<1>1. PICK D \in Dropped(T, cancel_timers_) :
        /\ timers_' = T \ D
        /\ IF T \ D = {}
           THEN UNCHANGED fd
           ELSE \E x \in Tops(T \ D) : fd_deadline' \in Settime(x.expired_time)
  BY DEF Reset
<1>2. PICK x \in Tops(T \ D) : fd_deadline' \in Settime(x.expired_time)
  BY <1>1
<1>3. x.expired_time <= e.expired_time
  BY <1>1, <1>2 DEF Tops, Earlier
<1>4. x.expired_time \in Nat /\ e.expired_time \in Nat /\ now \in Nat
  BY <1>1, <1>2 DEF Tops, Entry, TypeOK
<1>5. fd_deadline' = {x.expired_time} \/ fd_deadline' = {now + 1}
  BY <1>2 DEF Settime
<1> QED
  BY <1>3, <1>4, <1>5 DEF Covered

LEMMA AddTimerCovers ==
  ASSUME TypeOK, ~ClockReadsRepeat, NEW t \in 0 .. MaxTime,
         NEW c \in Frames \cup {Null}, NEW s, AddTimer(t, c, s), now' = now,
         \A e \in timers_ : Covered(e.expired_time),
         NEW e \in timers_'
  PROVE  Covered(e.expired_time)'
<1> DEFINE new == NewEntry(t, c)
           T == timers_ \cup {new}
<1>1. T \in SUBSET Entry
  BY DEF AddTimer, TypeOK, Entry, NewEntry
<1>2. CASE IsReset(t, s)
  <2>1. Reset(T)
    BY <1>2 DEF AddTimer, NewEntry
  <2> QED
    BY <1>1, <2>1, ResetCovers
<1>3. CASE ~IsReset(t, s)
  <2>1. timers_' = T /\ UNCHANGED fd
    BY <1>3 DEF AddTimer, NewEntry
  <2>2. PICK x \in timers_ : ~(t < x.expired_time)
    BY <1>3 DEF IsReset
  <2>3. x.expired_time \in Nat /\ now \in Nat /\ fd_deadline \subseteq Nat
    BY <2>2 DEF TypeOK, Entry
  <2>4. Covered(t)
    BY <2>2, <2>3 DEF Covered
  <2>5. Covered(e.expired_time)
    BY <2>1, <2>4 DEF NewEntry
  <2> QED
    BY <2>1, <2>5 DEF Covered, fd
<1> QED
  BY <1>2, <1>3

LEMMA WakeupNext ==
  ASSUME ~ClockReadsRepeat, TypeOK, WakeupArmed, [Next]_vars
  PROVE  WakeupArmed'
<1> USE DEF WakeupArmed
<1>0. pc = "waiting" => \A e \in timers_ : Covered(e.expired_time)
  BY DEF Covered
<1> SUFFICES ASSUME pc' = "waiting", NEW e \in timers_'
             PROVE  Covered(e.expired_time)'
  BY DEF Covered
<1>1. ASSUME NEW f \in Frames, NEW t \in Deadlines, Sleep(f, t)
      PROVE  Covered(e.expired_time)'
  <2>1. /\ AddTimer(t, f, stop_)
        /\ now' = now
        /\ t \in 0 .. MaxTime
        /\ f \in Frames \cup {Null}
        /\ pc = "waiting"
    BY <1>1 DEF Sleep
  <2> QED
    BY <1>0, <2>1, AddTimerCovers
<1>2. CASE Stop
  <2>1. /\ AddTimer(now, Null, TRUE)
        /\ now' = now
        /\ now \in 0 .. MaxTime
        /\ pc = "waiting"
    BY <1>2 DEF Stop, TypeOK
  <2> QED
    BY <1>0, <2>1, AddTimerCovers
<1>3. CASE Tick
  <2>1. /\ now \in Nat /\ now' = now + 1 /\ fd_deadline \subseteq Int
        /\ UNCHANGED <<timers_, fd_deadline, fd_expired, pc>>
    BY <1>3 DEF Tick, TypeOK, fd
  <2>2. Covered(e.expired_time)
    BY <1>0, <2>1
  <2> QED
    BY <2>1, <2>2 DEF Covered
<1>4. CASE Expire
  BY <1>4 DEF Expire, Covered
<1>5. ASSUME UNCHANGED <<now, timers_, fd, pc>>
      PROVE  Covered(e.expired_time)'
  BY <1>5, <1>0 DEF Covered, fd
<1>6. CASE Rearm
  <2>1. Reset(timers_) /\ now' = now /\ timers_ \in SUBSET Entry
    BY <1>6 DEF Rearm, TypeOK
  <2> QED
    BY <2>1, ResetCovers
<1>7. CASE ReadClock \/ DiscardCancelled \/ ResumeTop \/ EndDrain \/ Return
  BY <1>7 DEF ReadClock, AfterRead, DiscardCancelled, DueTop, ResumeTop, EndDrain, Return
<1> QED
  BY <1>1, <1>2, <1>3, <1>4, <1>5, <1>6, <1>7
     DEF Next, PollTimer, Destroy, fd, vars

(* As long as the clock never reads equal to a deadline, poll_timer()      *)
(* never waits without a wake-up pending for every queued entry.           *)
THEOREM NoWakeupLost == ~ClockReadsRepeat /\ Spec => []WakeupArmed
<1> SUFFICES ASSUME ~ClockReadsRepeat
             PROVE  Spec => []WakeupArmed
  OBVIOUS
<1>1. Init => WakeupArmed
  BY DEF Init, WakeupArmed
<1>2. TypeOK /\ WakeupArmed /\ [Next]_vars => WakeupArmed'
  BY WakeupNext
<1> QED
  BY <1>1, <1>2, TypeCorrect, PTL DEF Spec

-----------------------------------------------------------------------------
(* stop() *)

(* The null handle is queued only after stop_ is set, and the drain loop,  *)
(* which does not look at stop_, runs only while it is not set.            *)
StopInv ==
  /\ NeverResumesNull
  /\ pc \in {"drain", "callback", "reset"} => ~stop_
  /\ ~stop_ => \A e \in timers_ : e.callback # Null

LEMMA StopNext ==
  ASSUME "callback" \notin StopContexts, TypeOK, HeapInv, StopInv, [Next]_vars
  PROVE  StopInv'
<1> USE DEF NeverResumesNull
<1>1. ASSUME NEW f \in Frames, NEW t \in Deadlines, Sleep(f, t)
      PROVE  StopInv'
  <2>1. AddTimer(t, f, stop_) /\ UNCHANGED <<stop_, pc>>
    BY <1>1 DEF Sleep
  <2>2. \A e \in timers_' : e \in timers_ \/ e = NewEntry(t, f)
    BY <2>1 DEF AddTimer, Reset, NewEntry
  <2>3. NewEntry(t, f).callback # Null
    BY f # Null DEF NewEntry
  <2> QED
    BY <2>1, <2>2, <2>3 DEF StopInv
<1>2. CASE Stop
  BY <1>2 DEF Stop, StopInv
<1>3. ASSUME UNCHANGED <<stop_, timers_, pc>>
      PROVE  StopInv'
  BY <1>3 DEF StopInv
<1>4. CASE ReadClock
  BY <1>4 DEF ReadClock, AfterRead, StopInv
<1>5. CASE DiscardCancelled
  BY <1>5 DEF DiscardCancelled, StopInv
<1>6. CASE ResumeTop
  <2>1. PICK e \in timers_ :
          /\ DueTop(e)
          /\ timers_' = timers_ \ {e}
          /\ IF e.callback = Null THEN pc' = "crashed" ELSE pc' = "callback"
    BY <1>6 DEF ResumeTop
  <2>2. ~stop_ /\ e.callback # Null
    BY <2>1 DEF DueTop, StopInv
  <2> QED
    BY <1>6, <2>1, <2>2 DEF ResumeTop, StopInv
<1>7. CASE EndDrain
  BY <1>7 DEF EndDrain, StopInv
<1>8. CASE Rearm
  <2>1. timers_' \subseteq timers_
    BY <1>8 DEF Rearm, Reset
  <2> QED
    BY <1>8, <2>1 DEF Rearm, StopInv
<1>9. CASE Return
  BY <1>9 DEF Return, StopInv
<1> QED
  BY <1>1, <1>2, <1>3, <1>4, <1>5, <1>6, <1>7, <1>8, <1>9
     DEF Next, PollTimer, Destroy, Tick, Expire, vars

(* If stop() is never called by a coroutine that a timer resumed, the null *)
(* handle it queues is never called.                                       *)
THEOREM NullNeverCalled ==
  "callback" \notin StopContexts /\ Spec => []NeverResumesNull
<1> SUFFICES ASSUME "callback" \notin StopContexts
             PROVE  Spec => []NeverResumesNull
  OBVIOUS
<1>1. Init => StopInv
  BY DEF Init, StopInv, NeverResumesNull
<1>2. (TypeInv /\ HeapInv) /\ StopInv /\ [Next]_vars => StopInv'
  BY StopNext DEF TypeInv
<1>3. StopInv => NeverResumesNull
  BY DEF StopInv
<1> QED
  BY <1>1, <1>2, <1>3, HeapCorrect, PTL DEF Spec

-----------------------------------------------------------------------------
(* Refinement: every step of TimerContext is a step of SleepService on the *)
(* live entries, or leaves them alone.                                     *)

Pair(e) == [frame |-> e.callback, until |-> e.expired_time]

LEMMA AsleepFrames ==
  ASSUME HeapInv
  PROVE  /\ \A s \in Asleep : s.frame # Null /\ frame[s.frame] = "sleeping"
         /\ \A e, o \in Live : /\ e.callback # Null
                               /\ e.callback = o.callback
                               => e = o
<1>1. \A e \in Live : e \in timers_
  BY DEF Live
<1> QED
  BY <1>1 DEF Asleep, HeapInv, EntriesMatchFrames, QueueInv, UniqueIds

LEMMA ServiceNext ==
  ASSUME TypeOK, HeapInv, [Next]_vars
  PROVE  [Service!Next]_(Service!vars)
<1> USE DEF Service!Next, Service!vars
<1>1. ASSUME NEW f \in Frames, NEW t \in Deadlines, Sleep(f, t)
      PROVE  Service!Sleep(f, t)
  <2>1. AddTimer(t, f, stop_) /\ QueueInv
    BY <1>1 DEF Sleep, HeapInv
  <2>2. Live' = Live \cup {NewEntry(t, f)}
    BY <2>1, AddTimerLive
  <2>3. NewEntry(t, f).callback = f /\ NewEntry(t, f).expired_time = t
    BY DEF NewEntry
  <2>4. Asleep' = Asleep \cup {[frame |-> f, until |-> t]}
    BY <2>2, <2>3, f # Null DEF Asleep
  <2>5. \A s \in Asleep : s.frame # f
    BY <1>1, AsleepFrames DEF Sleep
  <2>6. f \notin Woken /\ Woken' = Woken
    BY <1>1 DEF Sleep, Woken, TypeOK
  <2> QED
    BY <1>1, <2>4, <2>5, <2>6 DEF Sleep, Service!Sleep, Service!Sleeping
<1>2. ASSUME NEW f \in Frames, Destroy(f)
      PROVE  \/ Service!Cancel(f)
             \/ Service!End(f)
  <2>1. Live' = {e \in Live : e.callback # f}
    BY <1>2, DestroyLive
  <2>2. Asleep' = {s \in Asleep : s.frame # f}
    BY <2>1 DEF Asleep
  <2>3. UNCHANGED <<now, stop_>>
    BY <1>2 DEF Destroy
  <2>4. CASE frame[f] = "sleeping"
    <3>1. PICK e \in Live : e.callback = f
      BY <2>4 DEF HeapInv, EntriesMatchFrames
    <3>2. Pair(e) \in Asleep /\ Pair(e).frame = f
      BY <3>1, f # Null DEF Asleep, Pair
    <3>3. Woken' = Woken
      BY <1>2, <2>4 DEF Destroy, Woken, TypeOK
    <3> QED
      BY <2>2, <2>3, <3>2, <3>3 DEF Service!Cancel, Service!Sleeping
  <2>5. CASE frame[f] # "sleeping"
    <3>1. \A s \in Asleep : s.frame # f
      BY <2>5, AsleepFrames
    <3>2. Asleep' = Asleep
      BY <2>2, <3>1
    <3>3. Woken' = Woken \ {f}
      BY <1>2 DEF Destroy, Woken, TypeOK
    <3> QED
      BY <2>3, <3>2, <3>3 DEF Service!End
  <2> QED
    BY <2>4, <2>5
<1>3. CASE Stop
  <2>1. AddTimer(now, Null, TRUE) /\ QueueInv
    BY <1>3 DEF Stop, HeapInv
  <2>2. Live' = Live \cup {NewEntry(now, Null)}
    BY <2>1, AddTimerLive
  <2>3. Asleep' = Asleep
    BY <2>2 DEF Asleep, NewEntry
  <2>4. Woken' = Woken
    BY <1>3 DEF Stop, Woken
  <2> QED
    BY <1>3, <2>3, <2>4 DEF Stop, Service!Halt
<1>4. CASE Tick
  <2>1. Asleep' = Asleep
    BY <1>4 DEF Tick, Asleep, Live
  <2>2. Woken' = Woken
    BY <1>4 DEF Tick, Woken
  <2> QED
    BY <1>4, <2>1, <2>2 DEF Tick, Service!Tick
<1>5. ASSUME UNCHANGED <<timers_, cancel_timers_, now, stop_, frame>>
      PROVE  UNCHANGED Service!vars
  BY <1>5 DEF Asleep, Live, Woken
<1>6. CASE DiscardCancelled
  BY <1>6, DiscardLive DEF DiscardCancelled, Asleep, Woken
<1>7. CASE ResumeTop
  <2>1. PICK e \in timers_ :
          /\ DueTop(e)
          /\ e.id \notin cancel_timers_
          /\ timers_' = timers_ \ {e}
          /\ frame' = IF e.callback = Null THEN frame
                      ELSE [frame EXCEPT ![e.callback] = "resumed"]
    BY <1>7 DEF ResumeTop
  <2>2. UNCHANGED <<cancel_timers_, next_timer_id_, now, stop_>>
    BY <1>7 DEF ResumeTop
  <2>3. e \in Live /\ Live' = Live \ {e}
    BY <2>1, <2>2, ResumeLive
  <2>4. CASE e.callback = Null
    BY <2>1, <2>2, <2>3, <2>4 DEF Asleep, Woken
  <2>5. CASE e.callback # Null
    <3>1. Pair(e) \in Asleep
      BY <2>3, <2>5 DEF Asleep, Pair
    <3>2. Pair(e).until <= now /\ \A s \in Asleep : Pair(e).until <= s.until
      BY <2>1 DEF DueTop, Tops, Earlier, Asleep, Live, Pair
    <3>3. \A o \in Live : o # e => o.callback # e.callback
      BY <2>3, <2>5, AsleepFrames
    <3>4. Asleep' = Asleep \ {Pair(e)}
      BY <2>3, <2>5, <3>3 DEF Asleep, Pair
    <3>5. Pair(e).frame = e.callback /\ e.callback \in Frames
      BY <2>1, <2>5 DEF TypeOK, Entry, Pair
    <3>6. Woken' = Woken \cup {e.callback}
      BY <2>1, <2>5, <3>5 DEF Woken, TypeOK
    <3>7. Service!Wake(e.callback)
      BY <2>2, <3>1, <3>2, <3>4, <3>5, <3>6 DEF Service!Wake
    <3> QED
      BY <3>5, <3>7
  <2> QED
    BY <2>4, <2>5
<1>8. CASE Rearm
  BY <1>8, RearmLive DEF Rearm, Asleep, Woken
<1> QED
  BY <1>1, <1>2, <1>3, <1>4, <1>5, <1>6, <1>7, <1>8
     DEF Next, PollTimer, Expire, ReadClock, EndDrain, Return, vars

(* TimerContext implements the safety of the sleep service: a sleeper is   *)
(* woken at most once, not before its deadline, in deadline order, and     *)
(* never after its frame was destroyed.                                    *)
THEOREM RefinesSleepService == Spec => Service!Safety
<1>1. Init => Service!Init
  BY DEF Init, Service!Init, Asleep, Live, Woken
<1>2. (TypeInv /\ HeapInv) /\ [Next]_vars => [Service!Next]_(Service!vars)
  BY ServiceNext DEF TypeInv
<1> QED
  BY <1>1, <1>2, HeapCorrect, PTL DEF Spec, Service!Safety
=============================================================================
