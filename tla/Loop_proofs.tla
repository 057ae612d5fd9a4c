---------------------------- MODULE Loop_proofs ----------------------------
(***************************************************************************)
(* Theorems about Loop<POLLER>. First those about a loop of EPollPoller    *)
(* (the specification Spec, whose variables are among the loop's), for     *)
(* every finite set of descriptors and every set of frames; then each      *)
(* poller does in the loop what its own module says of it, so that what is *)
(* proved about the pollers holds of the loop.                             *)
(***************************************************************************)
EXTENDS Loop, SequenceTheorems, FiniteSetTheorems, TLAPS

USE PollerAssumption DEF PollerAssumption

-----------------------------------------------------------------------------
(* What the helpers do to handles_, armed and waits. *)

LEMMA SetCallbackEffect ==
  ASSUME TypeOK, NEW fd \in DOMAIN handles_, NEW ev \in Events,
         NEW callback \in Frames \cup {Null}, SetCallback(fd, ev, callback)
  PROVE  /\ DOMAIN handles_' = DOMAIN handles_
         /\ handles_' \in [DOMAIN handles_ -> [Events -> Frames \cup {Null}]]
         /\ armed' \in [Fds -> SUBSET Events]
         /\ \A x \in Fds \ {fd} : armed'[x] = armed[x]
         /\ \A x \in DOMAIN handles_ \ {fd} : handles_'[x] = handles_[x]
         /\ \A e \in Events :
              handles_'[fd][e] = IF e = ev THEN callback ELSE handles_[fd][e]
         /\ armed'[fd] = Interest(handles_'[fd])
<1> DEFINE h == [handles_[fd] EXCEPT ![ev] = callback]
<1>1. handles_' = [handles_ EXCEPT ![fd] = h]
      /\ armed' = [armed EXCEPT ![fd] = Interest(h)]
  BY DEF SetCallback
<1>2. h \in [Events -> Frames \cup {Null}]
  BY DEF TypeOK
<1>3. \A e \in Events : h[e] = IF e = ev THEN callback ELSE handles_[fd][e]
  BY DEF TypeOK
<1>4. Interest(h) \in SUBSET Events
  BY DEF Interest
<1>5. handles_'[fd] = h /\ armed'[fd] = Interest(h)
  BY <1>1 DEF TypeOK
<1> HIDE DEF h
<1> QED
  BY <1>1, <1>2, <1>3, <1>4, <1>5 DEF TypeOK

(* A frame destroyed leaves waits, and clears its slot if there is one.    *)
LEMMA DestroyFrameEffect ==
  ASSUME TypeOK, NEW f \in DOMAIN waits, DestroyFrame(f)
  PROVE  /\ DOMAIN handles_' = DOMAIN handles_
         /\ handles_' \in [DOMAIN handles_ -> [Events -> Frames \cup {Null}]]
         /\ armed' \in [Fds -> SUBSET Events]
         /\ \A x \in Fds : x # waits[f].fd \/ ~Registered(x) => armed'[x] = armed[x]
         /\ \A x \in DOMAIN handles_ : x # waits[f].fd => handles_'[x] = handles_[x]
         /\ Registered(waits[f].fd) =>
              /\ armed'[waits[f].fd] = Interest(handles_'[waits[f].fd])
              /\ \A e \in Events :
                   handles_'[waits[f].fd][e] =
                     IF e = waits[f].event THEN Null ELSE handles_[waits[f].fd][e]
         /\ DOMAIN waits' = DOMAIN waits \ {f}
         /\ waits' \in [DOMAIN waits' -> Slots]
         /\ \A g \in DOMAIN waits \ {f} : waits'[g] = waits[g]
<1>1. waits[f].fd \in Fds /\ waits[f].event \in Events
  BY DEF TypeOK, Slots
<1>2. waits' = Without(waits, f)
  BY DEF DestroyFrame
<1>3. /\ DOMAIN waits' = DOMAIN waits \ {f}
      /\ waits' \in [DOMAIN waits' -> Slots]
      /\ \A g \in DOMAIN waits \ {f} : waits'[g] = waits[g]
  <2>1. waits \in [DOMAIN waits -> Slots]
    BY DEF TypeOK
  <2>2. waits' = [g \in DOMAIN waits \ {f} |-> waits[g]]
    BY <1>2 DEF Without
  <2>3. waits' \in [DOMAIN waits \ {f} -> Slots]
    BY <2>1, <2>2
  <2>4. \A g \in DOMAIN waits \ {f} : waits'[g] = waits[g]
    BY <2>2
  <2>5. DOMAIN waits' = DOMAIN waits \ {f}
    BY <2>3
  <2> QED
    BY <2>3, <2>4, <2>5
<1>4. CASE Registered(waits[f].fd)
  <2>1. SetCallback(waits[f].fd, waits[f].event, Null)
    BY <1>4 DEF DestroyFrame
  <2>2. waits[f].fd \in DOMAIN handles_
    BY <1>4 DEF Registered
  <2> QED
    BY <1>1, <1>3, <2>1, <2>2, SetCallbackEffect DEF Registered
<1>5. CASE ~Registered(waits[f].fd)
  <2>1. UNCHANGED <<handles_, armed>>
    BY <1>5 DEF DestroyFrame
  <2> QED
    BY <1>3, <1>5, <2>1 DEF TypeOK
<1> QED
  BY <1>4, <1>5

(* The entries of one epoll_pwait are a sequence.                          *)
LEMMA BatchesType ==
  ASSUME TypeOK, NEW b \in Batches(Deliverable)
  PROVE  b \in Seq(Entry)
<1>1. IsFiniteSet(Deliverable)
  BY FS_Subset DEF Deliverable
<1>2. Cardinality(Deliverable) \in Nat
  BY <1>1, FS_CardinalityType
<1>3. \A fd \in Deliverable : Report(fd) \in Entry
  BY DEF Deliverable, Report, Reported, TypeOK, Entry
<1>4. b \in [1 .. Cardinality(Deliverable) -> Entry]
  BY <1>3 DEF Batches
<1> QED
  BY <1>2, <1>4, SeqDef

-----------------------------------------------------------------------------
(* Types, and callbacks that are always those of waiting frames. The       *)
(* strengthening BatchInv says that poll() starts a batch when the last    *)
(* one is done, and that its iterator names a registered descriptor unless *)
(* it dangles. *)

BatchInv ==
  /\ pc = "poll" => batch = <<>>
  /\ it = "found" => Registered(Head(batch).fd)

CoreInv == TypeOK /\ BatchInv /\ CallbacksLive

(* The part of CoreInv that destroying a frame may disturb. *)
TablesOK ==
  /\ DOMAIN handles_ \subseteq Fds
  /\ handles_ \in [DOMAIN handles_ -> [Events -> Frames \cup {Null}]]
  /\ armed \in [Fds -> SUBSET Events]
  /\ \A fd \in Fds : ~Registered(fd) => armed[fd] = {}
  /\ DOMAIN waits \subseteq Frames
  /\ waits \in [DOMAIN waits -> Slots]
  /\ orphans \subseteq DOMAIN waits
  /\ CallbacksLive

LEMMA DestroyFrameKeeps ==
  ASSUME TypeOK, CallbacksLive, NEW f \in DOMAIN waits, DestroyFrame(f),
         orphans' = orphans \ {f}
  PROVE  TablesOK' /\ DOMAIN handles_' = DOMAIN handles_
<1>1. /\ DOMAIN handles_' = DOMAIN handles_
      /\ handles_' \in [DOMAIN handles_ -> [Events -> Frames \cup {Null}]]
      /\ armed' \in [Fds -> SUBSET Events]
      /\ \A x \in Fds : x # waits[f].fd \/ ~Registered(x) => armed'[x] = armed[x]
      /\ \A x \in DOMAIN handles_ : x # waits[f].fd => handles_'[x] = handles_[x]
      /\ Registered(waits[f].fd) =>
           \A e \in Events :
             handles_'[waits[f].fd][e] =
               IF e = waits[f].event THEN Null ELSE handles_[waits[f].fd][e]
      /\ DOMAIN waits' = DOMAIN waits \ {f}
      /\ waits' \in [DOMAIN waits' -> Slots]
      /\ \A g \in DOMAIN waits \ {f} : waits'[g] = waits[g]
  BY DestroyFrameEffect
<1>2. \A fd \in Fds : ~Registered(fd)' => armed'[fd] = {}
  BY <1>1 DEF TypeOK, Registered
<1>3. ASSUME NEW fd \in DOMAIN handles_, NEW ev \in Events, handles_'[fd][ev] # Null
      PROVE  /\ handles_'[fd][ev] \in DOMAIN waits' \ orphans'
             /\ waits'[handles_'[fd][ev]] = [fd |-> fd, event |-> ev]
  <2>1. handles_'[fd][ev] = handles_[fd][ev]
    BY <1>1, <1>3 DEF Registered
  <2>2. /\ handles_[fd][ev] \in DOMAIN waits \ orphans
        /\ waits[handles_[fd][ev]] = [fd |-> fd, event |-> ev]
    BY <1>3, <2>1 DEF CallbacksLive
  <2>3. handles_[fd][ev] # f
    <3>1. SUFFICES ASSUME handles_[fd][ev] = f PROVE FALSE
      OBVIOUS
    <3>2. waits[f].fd = fd /\ waits[f].event = ev
      BY <2>2, <3>1
    <3> QED
      BY <1>1, <1>3, <3>2 DEF Registered
  <2> QED
    BY <1>1, <2>1, <2>2, <2>3
<1>4. CallbacksLive'
  BY <1>1, <1>3 DEF CallbacksLive
<1>5. orphans' \subseteq DOMAIN waits' /\ DOMAIN waits' \subseteq Frames
  BY <1>1 DEF TypeOK
<1> QED
  BY <1>1, <1>2, <1>4, <1>5 DEF TablesOK, TypeOK

LEMMA CallKeeps ==
  ASSUME TypeOK, CallbacksLive, NEW fd \in DOMAIN handles_, NEW ev \in Events,
         Call(handles_[fd][ev]), UNCHANGED orphans
  PROVE  /\ TablesOK' /\ DOMAIN handles_' = DOMAIN handles_
         /\ pc' \in {pc, "run"}
<1>1. CASE handles_[fd][ev] = Null
  BY <1>1 DEF Call, TablesOK, TypeOK, CallbacksLive, Registered
<1>2. CASE handles_[fd][ev] # Null
  <2> DEFINE f == handles_[fd][ev]
  <2>1. f \in DOMAIN waits \ orphans
    BY <1>2 DEF CallbacksLive
  <2>2. DestroyFrame(f) /\ pc' = "run"
    BY <1>2 DEF Call
  <2>3. orphans' = orphans \ {f}
    BY <2>1
  <2> HIDE DEF f
  <2> QED
    BY <2>1, <2>2, <2>3, DestroyFrameKeeps
<1> QED
  BY <1>1, <1>2

LEMMA HeadOfBatch ==
  ASSUME TypeOK, batch # <<>>
  PROVE  Head(batch) \in Entry /\ Tail(batch) \in Seq(Entry)
BY HeadTailProperties DEF TypeOK

LEMMA CoreInit == Init => CoreInv
BY DEF Init, CoreInv, TypeOK, BatchInv, CallbacksLive, Registered, Entry, Slots, Events

LEMMA WaitCore ==
  ASSUME CoreInv, NEW f \in Frames, NEW fd \in Fds, NEW ev \in Events, Wait(f, fd, ev)
  PROVE  CoreInv'
<1> USE DEF CoreInv
<1>1. fd \in DOMAIN handles_ /\ f \notin DOMAIN waits
  BY DEF Wait, Registered, Suspended
<1>2. /\ DOMAIN handles_' = DOMAIN handles_
      /\ handles_' \in [DOMAIN handles_ -> [Events -> Frames \cup {Null}]]
      /\ armed' \in [Fds -> SUBSET Events]
      /\ \A x \in Fds \ {fd} : armed'[x] = armed[x]
      /\ \A x \in DOMAIN handles_ \ {fd} : handles_'[x] = handles_[x]
      /\ \A e \in Events :
           handles_'[fd][e] = IF e = ev THEN f ELSE handles_[fd][e]
  BY <1>1, SetCallbackEffect DEF Wait
<1>3. waits' = [g \in DOMAIN waits \cup {f} |->
                  IF g = f THEN [fd |-> fd, event |-> ev] ELSE waits[g]]
  BY DEF Wait, Extended
<1>4. waits' \in [DOMAIN waits \cup {f} -> Slots]
  BY <1>3 DEF TypeOK, Slots
<1>5. DOMAIN waits' = DOMAIN waits \cup {f}
  BY <1>3
<1>6. UNCHANGED <<ready, batch, it, orphans, pc>>
  BY DEF Wait
<1>7. TypeOK'
  <2>1. \A x \in Fds : ~Registered(x)' => armed'[x] = {}
    BY <1>1, <1>2 DEF TypeOK, Registered
  <2> QED
    BY <1>2, <1>4, <1>5, <1>6, <2>1 DEF TypeOK
<1>8. BatchInv'
  BY <1>2, <1>6 DEF BatchInv, Registered
<1>9. ASSUME NEW x \in DOMAIN handles_, NEW e \in Events, handles_'[x][e] # Null
      PROVE  /\ handles_'[x][e] \in DOMAIN waits' \ orphans'
             /\ waits'[handles_'[x][e]] = [fd |-> x, event |-> e]
  <2>1. CASE x = fd /\ e = ev
    BY <1>1, <1>2, <1>3, <1>6, <2>1 DEF TypeOK
  <2>2. CASE ~(x = fd /\ e = ev)
    <3>1. handles_'[x][e] = handles_[x][e]
      BY <1>2, <2>2
    <3>2. /\ handles_[x][e] \in DOMAIN waits \ orphans
          /\ waits[handles_[x][e]] = [fd |-> x, event |-> e]
      BY <1>9, <3>1 DEF CallbacksLive
    <3> QED
      BY <1>1, <1>3, <1>6, <3>1, <3>2
  <2> QED
    BY <2>1, <2>2
<1> QED
  BY <1>2, <1>7, <1>8, <1>9 DEF CallbacksLive

LEMMA DropCore ==
  ASSUME CoreInv, NEW f \in Frames, Drop(f)
  PROVE  CoreInv'
<1>1. TablesOK' /\ DOMAIN handles_' = DOMAIN handles_
  BY DestroyFrameKeeps DEF CoreInv, Drop, Suspended
<1>2. UNCHANGED <<ready, batch, it, pc>>
  BY DEF Drop
<1> QED
  BY <1>1, <1>2 DEF CoreInv, TablesOK, TypeOK, BatchInv, Registered

LEMMA OpenCore ==
  ASSUME CoreInv, NEW fd \in Fds, Open(fd)
  PROVE  CoreInv'
<1> DEFINE none == [ev \in Events |-> Null]
<1>1. handles_' = [x \in DOMAIN handles_ \cup {fd} |->
                     IF x = fd THEN none ELSE handles_[x]]
  BY DEF Open, Extended
<1>2. handles_' \in [DOMAIN handles_ \cup {fd} -> [Events -> Frames \cup {Null}]]
  BY <1>1 DEF CoreInv, TypeOK
<1>3. DOMAIN handles_' = DOMAIN handles_ \cup {fd}
  BY <1>1
<1>4. UNCHANGED <<batch, it, waits, orphans, pc>>
  BY DEF Open
<1>5. TypeOK'
  BY <1>2, <1>3, <1>4 DEF CoreInv, TypeOK, Registered, Open
<1>6. BatchInv'
  BY <1>3, <1>4 DEF CoreInv, BatchInv, Registered
<1>7. CallbacksLive'
  BY <1>1, <1>3, <1>4 DEF CoreInv, CallbacksLive, Open, Registered
<1> QED
  BY <1>5, <1>6, <1>7 DEF CoreInv

LEMMA CloseCore ==
  ASSUME CoreInv, NEW fd \in Fds, Close(fd)
  PROVE  CoreInv'
<1>1. handles_' = [x \in DOMAIN handles_ \ {fd} |-> handles_[x]]
  BY DEF Close, Without
<1>2. DOMAIN handles_' = DOMAIN handles_ \ {fd}
  BY <1>1
<1>3. handles_' \in [DOMAIN handles_ \ {fd} -> [Events -> Frames \cup {Null}]]
  BY <1>1 DEF CoreInv, TypeOK
<1>4. TypeOK'
  BY <1>2, <1>3 DEF CoreInv, TypeOK, Registered, Close, KernelForgetsFd, InUse
<1>5. BatchInv'
  BY <1>2 DEF CoreInv, BatchInv, Registered, Close, InUse, TypeOK
<1>6. CallbacksLive'
  BY <1>1, <1>2 DEF CoreInv, CallbacksLive, Close
<1> QED
  BY <1>4, <1>5, <1>6 DEF CoreInv

LEMMA EpollWaitCore ==
  ASSUME CoreInv, EpollWait
  PROVE  CoreInv'
<1>1. batch' \in Seq(Entry)
  BY BatchesType DEF CoreInv, EpollWait
<1>2. it = "none"
  BY DEF CoreInv, BatchInv, TypeOK, EpollWait
<1> QED
  BY <1>1, <1>2 DEF CoreInv, TypeOK, BatchInv, CallbacksLive, EpollWait, Registered

LEMMA DispatchWriteCore ==
  ASSUME CoreInv, DispatchWrite
  PROVE  CoreInv'
<1> DEFINE e == Head(batch)
           rest == <<[e EXCEPT !.events = {"read"}]>> \o Tail(batch)
<1>1. e \in Entry /\ Tail(batch) \in Seq(Entry)
  BY HeadOfBatch DEF CoreInv, DispatchWrite
<1>2. e.fd \in DOMAIN handles_ /\ Call(handles_[e.fd]["write"]) /\ UNCHANGED <<ready, orphans>>
  BY DEF DispatchWrite, Registered
<1>3. /\ TablesOK' /\ DOMAIN handles_' = DOMAIN handles_
      /\ pc' \in {pc, "run"}
  BY <1>2, CallKeeps DEF CoreInv, Events
<1>4. CASE "read" \in e.events
  <2>1. [e EXCEPT !.events = {"read"}] \in Entry
    BY <1>1 DEF Entry, Events
  <2>2. rest \in Seq(Entry) /\ rest # <<>> /\ Head(rest) = [e EXCEPT !.events = {"read"}]
    BY <1>1, <2>1
  <2>3. batch' = rest /\ it' = "found"
    BY <1>4 DEF DispatchWrite
  <2>4. Head(rest).events = {"read"} /\ Head(rest).fd = e.fd
    BY <1>1, <2>2 DEF Entry
  <2> HIDE DEF rest, e
  <2> QED
    BY <1>2, <1>3, <2>2, <2>3, <2>4
    DEF CoreInv, TablesOK, TypeOK, BatchInv, DispatchWrite, Registered
<1>5. CASE "read" \notin e.events
  <2>1. batch' = Tail(batch) /\ it' = "none"
    BY <1>5 DEF DispatchWrite
  <2> HIDE DEF rest, e
  <2> QED
    BY <1>1, <1>2, <1>3, <2>1 DEF CoreInv, TablesOK, TypeOK, BatchInv, DispatchWrite
<1> QED
  BY <1>4, <1>5

LEMMA DispatchReadCore ==
  ASSUME CoreInv, DispatchRead
  PROVE  CoreInv'
<1> DEFINE e == Head(batch)
<1>1. Tail(batch) \in Seq(Entry)
  BY HeadOfBatch DEF CoreInv, DispatchRead
<1>2. batch' = Tail(batch) /\ it' = "none" /\ UNCHANGED <<ready, orphans>>
  BY DEF DispatchRead
<1>3. CASE it = "dangling"
  BY <1>1, <1>2, <1>3
  DEF CoreInv, TypeOK, BatchInv, CallbacksLive, DispatchRead, Registered
<1>4. CASE it # "dangling"
  <2>1. e.fd \in DOMAIN handles_ /\ Call(handles_[e.fd]["read"])
    BY <1>4 DEF CoreInv, TypeOK, BatchInv, DispatchRead, Registered
  <2>2. /\ TablesOK' /\ DOMAIN handles_' = DOMAIN handles_
        /\ pc' \in {pc, "run"}
    BY <1>2, <2>1, CallKeeps DEF CoreInv, Events
  <2> QED
    BY <1>1, <1>2, <2>2 DEF CoreInv, TablesOK, TypeOK, BatchInv, DispatchRead
<1> QED
  BY <1>3, <1>4

LEMMA CoreNext == CoreInv /\ [Next]_vars => CoreInv'
<1> SUFFICES ASSUME CoreInv, [Next]_vars PROVE CoreInv'
  OBVIOUS
<1> USE DEF CoreInv
<1>1. ASSUME NEW f \in Frames, Drop(f) PROVE CoreInv'
  BY <1>1, DropCore
<1>2. ASSUME NEW f \in Frames, NEW fd \in Fds, NEW ev \in Events, Wait(f, fd, ev)
      PROVE  CoreInv'
  BY <1>2, WaitCore
<1>3. ASSUME NEW fd \in Fds, Open(fd) PROVE CoreInv'
  BY <1>3, OpenCore
<1>4. ASSUME NEW fd \in Fds, Close(fd) PROVE CoreInv'
  BY <1>4, CloseCore
<1>5. ASSUME NEW fd \in Fds, NEW ev \in Events, Consume(fd, ev) \/ BecomeReady(fd, ev)
      PROVE  CoreInv'
  <2>1. ready' \in [Fds -> SUBSET Events]
    BY <1>5 DEF Consume, BecomeReady, TypeOK
  <2>2. UNCHANGED <<handles_, armed, batch, it, waits, orphans, pc>>
    BY <1>5 DEF Consume, BecomeReady
  <2> QED
    BY <2>1, <2>2 DEF TypeOK, BatchInv, CallbacksLive, Registered
<1>6. CASE Yield
  BY <1>6 DEF Yield, TypeOK, BatchInv, CallbacksLive, Registered
<1>7. CASE EpollWait
  BY <1>7, EpollWaitCore
<1>8. CASE EndBatch
  BY <1>8 DEF EndBatch, TypeOK, BatchInv, CallbacksLive, Registered
<1>9. CASE Skip
  <2>1. Tail(batch) \in Seq(Entry)
    BY <1>9, HeadOfBatch DEF Skip
  <2> QED
    BY <1>9, <2>1 DEF Skip, TypeOK, BatchInv, CallbacksLive, Registered
<1>10. CASE DispatchWrite
  BY <1>10, DispatchWriteCore
<1>11. CASE DispatchRead
  BY <1>11, DispatchReadCore
<1>12. CASE UNCHANGED vars
  BY <1>12 DEF vars, TypeOK, BatchInv, CallbacksLive, Registered
<1> QED
  BY <1>1, <1>2, <1>3, <1>4, <1>5, <1>6, <1>7, <1>8, <1>9, <1>10, <1>11, <1>12
  DEF Next, Poll

(* Every variable keeps its type: TypeOK in every reachable state.         *)
THEOREM TypeCorrect == Spec => []TypeOK
<1>1. CoreInv => TypeOK
  BY DEF CoreInv
<1> QED
  BY CoreInit, CoreNext, <1>1, PTL DEF Spec

(* poll() calls only the frame that waits for this event of this           *)
(* descriptor, even when waits overwrite one another, when a file is       *)
(* closed under a frame, and when the frame is destroyed after that.       *)
THEOREM CallsOnlyWaiters == Spec => []CallbacksLive
<1>1. CoreInv => CallbacksLive
  BY DEF CoreInv
<1> QED
  BY CoreInit, CoreNext, <1>1, PTL DEF Spec

-----------------------------------------------------------------------------
(* No wait is lost, if no two frames wait for the same slot and no frame   *)
(* is destroyed after its file. *)

WaitersKept ==
  \A f \in DOMAIN waits \ orphans :
    /\ Registered(waits[f].fd)
    /\ handles_[waits[f].fd][waits[f].event] = f

LEMMA DestroyFrameWaiters ==
  ASSUME TypeOK, WaitersKept, NEW f \in DOMAIN waits \ orphans, DestroyFrame(f),
         orphans' = orphans \ {f}
  PROVE  WaitersKept'
<1>1. Registered(waits[f].fd) /\ handles_[waits[f].fd][waits[f].event] = f
  BY DEF WaitersKept
<1>2. /\ DOMAIN handles_' = DOMAIN handles_
      /\ \A x \in DOMAIN handles_ : x # waits[f].fd => handles_'[x] = handles_[x]
      /\ \A e \in Events :
           handles_'[waits[f].fd][e] =
             IF e = waits[f].event THEN Null ELSE handles_[waits[f].fd][e]
      /\ DOMAIN waits' = DOMAIN waits \ {f}
      /\ \A g \in DOMAIN waits \ {f} : waits'[g] = waits[g]
  BY <1>1, DestroyFrameEffect
<1>3. ASSUME NEW g \in DOMAIN waits' \ orphans'
      PROVE  /\ waits'[g].fd \in DOMAIN handles_'
             /\ handles_'[waits'[g].fd][waits'[g].event] = g
  <2>1. g # f /\ g \in DOMAIN waits \ orphans /\ waits'[g] = waits[g]
    BY <1>2
  <2>2. /\ Registered(waits[g].fd)
        /\ handles_[waits[g].fd][waits[g].event] = g
        /\ waits[g].event \in Events
    BY <2>1 DEF WaitersKept, TypeOK, Slots
  <2>3. handles_'[waits[g].fd][waits[g].event] = g
    BY <1>1, <1>2, <2>1, <2>2 DEF Registered
  <2> QED
    BY <1>2, <2>1, <2>2, <2>3 DEF Registered
<1> QED
  BY <1>3 DEF WaitersKept, Registered

LEMMA CallWaiters ==
  ASSUME TypeOK, CallbacksLive, WaitersKept, NEW fd \in DOMAIN handles_, NEW ev \in Events,
         Call(handles_[fd][ev]), UNCHANGED orphans
  PROVE  WaitersKept'
<1>1. CASE handles_[fd][ev] = Null
  BY <1>1 DEF Call, WaitersKept, Registered
<1>2. CASE handles_[fd][ev] # Null
  <2> DEFINE f == handles_[fd][ev]
  <2>1. f \in DOMAIN waits \ orphans
    BY <1>2 DEF CallbacksLive
  <2>2. DestroyFrame(f) /\ orphans' = orphans \ {f}
    BY <1>2, <2>1 DEF Call
  <2> HIDE DEF f
  <2> QED
    BY <2>1, <2>2, DestroyFrameWaiters
<1> QED
  BY <1>1, <1>2

LEMMA WaitWaiters ==
  ASSUME CoreInv, WaitersKept, ~SharedWaits,
         NEW f \in Frames, NEW fd \in Fds, NEW ev \in Events, Wait(f, fd, ev)
  PROVE  WaitersKept'
<1>1. fd \in DOMAIN handles_ /\ f \notin DOMAIN waits /\ handles_[fd][ev] = Null
  BY DEF Wait, Registered, Suspended
<1>2. /\ DOMAIN handles_' = DOMAIN handles_
      /\ \A x \in DOMAIN handles_ \ {fd} : handles_'[x] = handles_[x]
      /\ \A e \in Events :
           handles_'[fd][e] = IF e = ev THEN f ELSE handles_[fd][e]
  BY <1>1, SetCallbackEffect DEF Wait, CoreInv
<1>3. waits' = [g \in DOMAIN waits \cup {f} |->
                  IF g = f THEN [fd |-> fd, event |-> ev] ELSE waits[g]]
  BY DEF Wait, Extended
<1>4. orphans' = orphans
  BY DEF Wait
<1>5. ASSUME NEW g \in DOMAIN waits' \ orphans'
      PROVE  /\ waits'[g].fd \in DOMAIN handles_'
             /\ handles_'[waits'[g].fd][waits'[g].event] = g
  <2>1. CASE g = f
    BY <1>1, <1>2, <1>3, <2>1 DEF Registered
  <2>2. CASE g # f
    <3>1. g \in DOMAIN waits \ orphans /\ waits'[g] = waits[g]
      BY <1>3, <1>4, <2>2
    <3>2. /\ waits[g].fd \in DOMAIN handles_
          /\ handles_[waits[g].fd][waits[g].event] = g
          /\ waits[g].event \in Events
          /\ g # Null
      BY <3>1 DEF WaitersKept, CoreInv, TypeOK, Slots, Registered
    <3>3. handles_'[waits[g].fd][waits[g].event] = g
      BY <1>1, <1>2, <3>2
    <3> QED
      BY <1>2, <3>1, <3>2, <3>3 DEF Registered
  <2> QED
    BY <2>1, <2>2
<1> QED
  BY <1>5 DEF WaitersKept, Registered

LEMMA WaitersNext ==
  ASSUME CoreInv, WaitersKept, ~SharedWaits, ~LateDrops, [Next]_vars
  PROVE  WaitersKept'
<1> USE DEF CoreInv
<1>1. ASSUME NEW f \in Frames, Drop(f) PROVE WaitersKept'
  BY <1>1, DestroyFrameWaiters DEF Drop, Suspended
<1>2. ASSUME NEW f \in Frames, NEW fd \in Fds, NEW ev \in Events, Wait(f, fd, ev)
      PROVE  WaitersKept'
  BY <1>2, WaitWaiters
<1>3. ASSUME NEW fd \in Fds, Open(fd) PROVE WaitersKept'
  <2>1. handles_' = [x \in DOMAIN handles_ \cup {fd} |->
                       IF x = fd THEN [ev \in Events |-> Null] ELSE handles_[x]]
    BY <1>3 DEF Open, Extended
  <2>2. fd \notin DOMAIN handles_ /\ UNCHANGED <<waits, orphans>>
    BY <1>3 DEF Open, Registered
  <2> QED
    BY <2>1, <2>2 DEF WaitersKept, Registered
<1>4. ASSUME NEW fd \in Fds, Close(fd) PROVE WaitersKept'
  <2>1. handles_' = [x \in DOMAIN handles_ \ {fd} |-> handles_[x]]
    BY <1>4 DEF Close, Without
  <2>2. orphans' = orphans \cup {f \in DOMAIN waits : waits[f].fd = fd} /\ waits' = waits
    BY <1>4 DEF Close
  <2> QED
    BY <2>1, <2>2 DEF WaitersKept, Registered
<1>5. CASE DispatchWrite
  <2>1. /\ Head(batch).fd \in DOMAIN handles_
        /\ Call(handles_[Head(batch).fd]["write"]) /\ UNCHANGED orphans
    BY <1>5 DEF DispatchWrite, Registered
  <2> QED
    BY <2>1, CallWaiters DEF Events
<1>6. CASE DispatchRead /\ it # "dangling"
  <2>1. /\ Head(batch).fd \in DOMAIN handles_
        /\ Call(handles_[Head(batch).fd]["read"]) /\ UNCHANGED orphans
    BY <1>6 DEF TypeOK, BatchInv, DispatchRead, Registered
  <2> QED
    BY <2>1, CallWaiters DEF Events
<1>7. CASE UNCHANGED <<handles_, waits, orphans>>
  BY <1>7 DEF WaitersKept, Registered
<1> QED
  BY <1>1, <1>2, <1>3, <1>4, <1>5, <1>6, <1>7
  DEF Next, Poll, Consume, BecomeReady, Yield, EpollWait, EndBatch, Skip, DispatchRead, vars

(* A frame that waits for an open file stays its file's callback until it  *)
(* is resumed or dropped, so no wait is ever lost, under the conditions    *)
(* that the users of poller.hpp have to keep.                              *)
THEOREM NoWaiterLost == ~SharedWaits /\ ~LateDrops /\ Spec => []CallbacksMatchWaits
<1> DEFINE Inv == CoreInv /\ WaitersKept
<1>1. Init => Inv
  BY CoreInit DEF Init, WaitersKept
<1>2. ~SharedWaits /\ ~LateDrops /\ Inv /\ [Next]_vars => Inv'
  BY CoreNext, WaitersNext
<1>3. Inv => CallbacksMatchWaits
  BY DEF CoreInv, WaitersKept, CallbacksMatchWaits
<1>4. CASE ~SharedWaits /\ ~LateDrops
  <2>1. Inv /\ [Next]_vars => Inv'
    BY <1>2, <1>4
  <2> QED
    BY <1>1, <2>1, <1>3, PTL DEF Spec
<1> QED
  BY <1>4

-----------------------------------------------------------------------------
(* No one-shot mask stays spent. *)

(* What is left of the batch after its head was handled, or half of it.    *)
LEMMA TailKeeps ==
  ASSUME TypeOK, batch # <<>>, batch' = Tail(batch)
  PROVE  \A i \in DOMAIN batch \ {1} : i - 1 \in DOMAIN batch' /\ batch'[i - 1] = batch[i]
<1>1. batch \in Seq(Entry)
  BY DEF TypeOK
<1> QED
  BY <1>1

LEMMA HeadReplacedKeeps ==
  ASSUME TypeOK, batch # <<>>, NEW x \in Entry, batch' = <<x>> \o Tail(batch)
  PROVE  /\ 1 \in DOMAIN batch' /\ batch'[1] = x
         /\ \A i \in DOMAIN batch \ {1} : i \in DOMAIN batch' /\ batch'[i] = batch[i]
<1>1. batch \in Seq(Entry) /\ Tail(batch) \in Seq(Entry) /\ <<x>> \in Seq(Entry)
  BY HeadOfBatch DEF TypeOK
<1>2. Len(Tail(batch)) = Len(batch) - 1
      /\ \A i \in 1 .. Len(batch) - 1 : Tail(batch)[i] = batch[i + 1]
  BY <1>1
<1>3. Len(batch') = Len(batch) /\ batch' \in Seq(Entry)
  BY <1>1, <1>2
<1>4. \A i \in 1 .. Len(batch) :
        batch'[i] = IF i <= 1 THEN <<x>>[i] ELSE Tail(batch)[i - 1]
  BY <1>1, <1>2
<1>5. ASSUME NEW i \in DOMAIN batch \ {1}
      PROVE  i \in DOMAIN batch' /\ batch'[i] = batch[i]
  <2>1. i \in 2 .. Len(batch)
    BY <1>1
  <2>2. i - 1 \in 1 .. Len(batch) - 1 /\ (i - 1) + 1 = i
    BY <1>1, <2>1
  <2>3. Tail(batch)[i - 1] = batch[i]
    BY <1>2, <2>2
  <2> QED
    BY <1>1, <1>3, <1>4, <2>1, <2>3
<1>6. 1 \in DOMAIN batch' /\ batch'[1] = x
  BY <1>1, <1>3, <1>4
<1> QED
  BY <1>5, <1>6

MaskOK(fd) == armed[fd] = Interest(handles_[fd]) \/ Pending(fd)

(* A changed callback arms the mask of its own descriptor. *)
LEMMA SetCallbackMask ==
  ASSUME CoreInv, NEW fd \in DOMAIN handles_, NEW ev \in Events,
         NEW callback \in Frames \cup {Null}, SetCallback(fd, ev, callback),
         \A x \in DOMAIN handles_ : MaskOK(x), UNCHANGED batch
  PROVE  \A x \in DOMAIN handles_' : MaskOK(x)'
<1>1. /\ DOMAIN handles_' = DOMAIN handles_
      /\ \A x \in Fds \ {fd} : armed'[x] = armed[x]
      /\ \A x \in DOMAIN handles_ \ {fd} : handles_'[x] = handles_[x]
      /\ armed'[fd] = Interest(handles_'[fd])
  BY SetCallbackEffect DEF CoreInv
<1>2. ASSUME NEW x \in DOMAIN handles_ \ {fd} PROVE MaskOK(x)'
  <2>1. armed'[x] = armed[x] /\ handles_'[x] = handles_[x]
    BY <1>1 DEF CoreInv, TypeOK
  <2>2. MaskOK(x)
    OBVIOUS
  <2> QED
    BY <2>1, <2>2 DEF MaskOK, Pending, Interest
<1>3. MaskOK(fd)'
  BY <1>1 DEF MaskOK, Interest
<1> QED
  BY <1>1, <1>2, <1>3

LEMMA DispatchWriteMask ==
  ASSUME CoreInv, DispatchWrite, \A x \in DOMAIN handles_ : MaskOK(x)
  PROVE  \A x \in DOMAIN handles_' : MaskOK(x)'
<1> DEFINE e == Head(batch)
           half == [e EXCEPT !.events = {"read"}]
           callback == handles_[e.fd]["write"]
<1>1. e \in Entry /\ e = batch[1] /\ half \in Entry /\ half.fd = e.fd /\ half.events = {"read"}
  <2>1. e \in Entry
    BY HeadOfBatch DEF CoreInv, DispatchWrite
  <2>2. e = batch[1]
    BY HeadTailProperties DEF CoreInv, TypeOK, DispatchWrite
  <2> QED
    BY <2>1, <2>2 DEF Entry, Events
<1>2. e.fd \in DOMAIN handles_ /\ Call(callback)
  BY DEF DispatchWrite, Registered
<1>3. callback # Null => callback \in DOMAIN waits /\ waits[callback].fd = e.fd
  <2> HIDE DEF e
  <2>1. "write" \in Events /\ e.fd \in DOMAIN handles_
    BY <1>2 DEF Events
  <2>2. callback # Null =>
          /\ callback \in DOMAIN waits \ orphans
          /\ waits[callback] = [fd |-> e.fd, event |-> "write"]
    BY <2>1 DEF CoreInv, CallbacksLive
  <2> QED
    BY <2>2
<1>4. batch # <<>> /\ IF "read" \in e.events THEN batch' = <<half>> \o Tail(batch)
                                            ELSE batch' = Tail(batch)
  BY DEF DispatchWrite
<1>5. \A i \in DOMAIN batch \ {1} : \E j \in DOMAIN batch' : batch'[j] = batch[i]
  <2>1. CASE "read" \in e.events
    BY <1>1, <1>4, <2>1, HeadReplacedKeeps DEF CoreInv
  <2>2. CASE "read" \notin e.events
    BY <1>4, <2>2, TailKeeps DEF CoreInv
  <2> QED
    BY <2>1, <2>2
<1>6. "read" \in e.events => 1 \in DOMAIN batch' /\ batch'[1] = half
  BY <1>1, <1>4, HeadReplacedKeeps DEF CoreInv
<1>7. /\ DOMAIN handles_' = DOMAIN handles_
      /\ \A x \in DOMAIN handles_ \ {e.fd} :
           handles_'[x] = handles_[x] /\ armed'[x] = armed[x]
      /\ \/ armed'[e.fd] = Interest(handles_'[e.fd])
         \/ callback = Null /\ UNCHANGED <<handles_, armed>>
  <2>1. CASE callback = Null
    BY <1>2, <2>1 DEF Call
  <2>2. CASE callback # Null
    <3>1. DestroyFrame(callback) /\ callback \in DOMAIN waits /\ waits[callback].fd = e.fd
      BY <1>2, <1>3, <2>2 DEF Call
    <3> HIDE DEF callback, e
    <3> QED
      BY <1>2, <3>1, DestroyFrameEffect DEF CoreInv, TypeOK, Registered
  <2> QED
    BY <2>1, <2>2
<1> HIDE DEF e, half
<1> PICK fd \in DOMAIN handles_ : fd = e.fd
  BY <1>2
<1>8. ASSUME NEW x \in DOMAIN handles_ \ {fd} PROVE MaskOK(x)'
  <2>1. CASE Pending(x)
    <3>1. PICK i \in DOMAIN batch : batch[i].fd = x /\ batch[i].events \cap Interest(handles_[x]) # {}
      BY <2>1 DEF Pending
    <3>2. i # 1
      BY <1>1, <3>1
    <3>3. PICK j \in DOMAIN batch' : batch'[j] = batch[i]
      BY <1>5, <3>2
    <3> QED
      BY <1>7, <3>1, <3>3 DEF MaskOK, Pending, Interest
  <2>2. CASE armed[x] = Interest(handles_[x])
    BY <1>7, <2>2 DEF MaskOK, Interest
  <2> QED
    BY <2>1, <2>2 DEF MaskOK
<1>9. MaskOK(fd)'
  <2>1. CASE armed'[fd] = Interest(handles_'[fd])
    BY <2>1 DEF MaskOK, Interest
  <2>2. CASE callback = Null /\ UNCHANGED <<handles_, armed>> /\ armed[fd] = Interest(handles_[fd])
    BY <2>2 DEF MaskOK, Interest
  <2>3. CASE callback = Null /\ UNCHANGED <<handles_, armed>> /\ Pending(fd)
    <3>1. PICK i \in DOMAIN batch :
            batch[i].fd = fd /\ batch[i].events \cap Interest(handles_[fd]) # {}
      BY <2>3 DEF Pending
    <3>2. CASE i # 1
      <4>1. PICK j \in DOMAIN batch' : batch'[j] = batch[i]
        BY <1>5, <3>2
      <4> QED
        BY <2>3, <3>1, <4>1 DEF MaskOK, Pending, Interest
    <3>3. CASE i = 1
      <4>1. "read" \in e.events /\ "read" \in Interest(handles_[fd])
        BY <1>1, <2>3, <3>1, <3>3 DEF Interest, Events
      <4>2. 1 \in DOMAIN batch' /\ batch'[1].fd = fd /\ batch'[1].events = {"read"}
        BY <1>1, <1>6, <4>1
      <4> QED
        BY <2>3, <4>1, <4>2 DEF MaskOK, Pending, Interest
    <3> QED
      BY <3>2, <3>3
  <2> QED
    BY <1>2, <1>7, <2>1, <2>2, <2>3 DEF MaskOK
<1> QED
  BY <1>2, <1>7, <1>8, <1>9

LEMMA DispatchReadMask ==
  ASSUME CoreInv, DispatchRead, it # "dangling", \A x \in DOMAIN handles_ : MaskOK(x)
  PROVE  \A x \in DOMAIN handles_' : MaskOK(x)'
<1> DEFINE e == Head(batch)
           callback == handles_[e.fd]["read"]
<1>1. e = batch[1] /\ e.events = {"read"} /\ batch # <<>> /\ batch' = Tail(batch)
  BY HeadTailProperties DEF CoreInv, TypeOK, DispatchRead
<1>2. e.fd \in DOMAIN handles_ /\ Call(callback)
  BY DEF CoreInv, TypeOK, BatchInv, DispatchRead, Registered
<1>3. \A i \in DOMAIN batch \ {1} : \E j \in DOMAIN batch' : batch'[j] = batch[i]
  BY <1>1, TailKeeps DEF CoreInv
<1> HIDE DEF e
<1> PICK fd \in DOMAIN handles_ : fd = e.fd
  BY <1>2
<1>4. /\ DOMAIN handles_' = DOMAIN handles_
      /\ \A x \in DOMAIN handles_ \ {fd} :
           handles_'[x] = handles_[x] /\ armed'[x] = armed[x]
      /\ \/ armed'[fd] = Interest(handles_'[fd])
         \/ callback = Null /\ UNCHANGED <<handles_, armed>>
  <2>1. CASE callback = Null
    BY <1>2, <2>1 DEF Call
  <2>2. CASE callback # Null
    <3>1. "read" \in Events
      BY DEF Events
    <3>2. callback \in DOMAIN waits /\ waits[callback] = [fd |-> e.fd, event |-> "read"]
      BY <1>2, <2>2, <3>1 DEF CoreInv, CallbacksLive
    <3>3. DestroyFrame(callback) /\ callback \in DOMAIN waits /\ waits[callback].fd = fd
      BY <1>2, <2>2, <3>2 DEF Call
    <3> HIDE DEF callback
    <3> QED
      BY <3>3, DestroyFrameEffect DEF CoreInv, TypeOK, Registered
  <2> QED
    BY <2>1, <2>2
<1>5. ASSUME NEW x \in DOMAIN handles_, x # fd \/ (callback = Null /\ UNCHANGED <<handles_, armed>>)
      PROVE  MaskOK(x)'
  <2>1. CASE Pending(x)
    <3>1. PICK i \in DOMAIN batch : batch[i].fd = x /\ batch[i].events \cap Interest(handles_[x]) # {}
      BY <2>1 DEF Pending
    <3>2. i # 1
      BY <1>1, <1>5, <3>1 DEF Interest
    <3>3. PICK j \in DOMAIN batch' : batch'[j] = batch[i]
      BY <1>3, <3>2
    <3> QED
      BY <1>4, <1>5, <3>1, <3>3 DEF MaskOK, Pending, Interest
  <2>2. CASE armed[x] = Interest(handles_[x])
    BY <1>4, <1>5, <2>2 DEF MaskOK, Interest
  <2> QED
    BY <2>1, <2>2 DEF MaskOK
<1>6. CASE armed'[fd] = Interest(handles_'[fd])
  BY <1>4, <1>5, <1>6 DEF MaskOK, Interest
<1>7. CASE callback = Null /\ UNCHANGED <<handles_, armed>>
  BY <1>4, <1>5, <1>7
<1> QED
  BY <1>4, <1>6, <1>7

LEMMA EpollWaitMask ==
  ASSUME CoreInv, EpollWait, \A x \in DOMAIN handles_ : MaskOK(x)
  PROVE  \A x \in DOMAIN handles_' : MaskOK(x)'
<1>1. batch = <<>> /\ UNCHANGED handles_
  BY DEF CoreInv, BatchInv, EpollWait
<1>2. \A x \in DOMAIN handles_ : armed[x] = Interest(handles_[x])
  BY <1>1 DEF MaskOK, Pending
<1>3. ASSUME NEW x \in DOMAIN handles_ PROVE MaskOK(x)'
  <2>1. CASE x \in Deliverable
    <3>1. PICK i \in DOMAIN batch' : batch'[i].fd = x
      BY <2>1 DEF EpollWait, Batches
    <3>2. PICK y \in Deliverable : batch'[i] = Report(y)
      BY <3>1 DEF EpollWait, Batches
    <3>3. batch'[i].fd = x /\ batch'[i].events = Reported(x)
      BY <3>1, <3>2 DEF Report
    <3>4. Reported(x) # {} /\ Reported(x) \subseteq Interest(handles_[x])
      BY <1>2, <2>1 DEF Deliverable, Reported
    <3>5. batch'[i].events \cap Interest(handles_[x]) # {}
      BY <3>3, <3>4
    <3> QED
      BY <1>1, <3>3, <3>5 DEF MaskOK, Pending, Interest
  <2>2. CASE x \notin Deliverable
    <3>1. armed'[x] = armed[x]
      BY <2>2 DEF EpollWait, CoreInv, TypeOK
    <3> QED
      BY <1>1, <1>2, <3>1 DEF MaskOK, Interest
  <2> QED
    BY <2>1, <2>2
<1> QED
  BY <1>1, <1>3

LEMMA MaskNext ==
  ASSUME CoreInv, MaskArmed, [Next]_vars
  PROVE  MaskArmed'
<1> SUFFICES ASSUME pc' # "crashed" PROVE \A x \in DOMAIN handles_' : MaskOK(x)'
  BY DEF MaskArmed, MaskOK
<1>a. ASSUME pc # "crashed" PROVE \A x \in DOMAIN handles_ : MaskOK(x)
  BY <1>a DEF MaskArmed, MaskOK
<1>1. ASSUME NEW f \in Frames, Drop(f) PROVE \A x \in DOMAIN handles_' : MaskOK(x)'
  <2>1. waits[f].event \in Events /\ pc # "crashed" /\ UNCHANGED batch
    BY <1>1 DEF CoreInv, TypeOK, Slots, Drop, Suspended
  <2>2. CASE Registered(waits[f].fd)
    BY <1>1, <1>a, <2>1, <2>2, SetCallbackMask DEF Drop, DestroyFrame, Registered
  <2>3. CASE UNCHANGED <<handles_, armed>>
    BY <1>a, <2>1, <2>3 DEF MaskOK, Pending, Interest
  <2> QED
    BY <1>1, <2>2, <2>3 DEF Drop, DestroyFrame
<1>2. ASSUME NEW f \in Frames, NEW fd \in Fds, NEW ev \in Events, Wait(f, fd, ev)
      PROVE  \A x \in DOMAIN handles_' : MaskOK(x)'
  BY <1>2, <1>a, SetCallbackMask DEF Wait, Registered
<1>3. ASSUME NEW fd \in Fds, Open(fd) PROVE \A x \in DOMAIN handles_' : MaskOK(x)'
  <2>1. handles_' = [x \in DOMAIN handles_ \cup {fd} |->
                       IF x = fd THEN [ev \in Events |-> Null] ELSE handles_[x]]
    BY <1>3 DEF Open, Extended
  <2>2. /\ fd \notin DOMAIN handles_ /\ pc # "crashed" /\ UNCHANGED batch
        /\ armed'[fd] = {} /\ \A x \in Fds \ {fd} : armed'[x] = armed[x]
    BY <1>3 DEF Open, Registered, CoreInv, TypeOK
  <2>3. MaskOK(fd)'
    BY <2>1, <2>2 DEF MaskOK, Interest
  <2>4. ASSUME NEW x \in DOMAIN handles_ PROVE MaskOK(x)'
    <3>1. armed'[x] = armed[x] /\ handles_'[x] = handles_[x] /\ MaskOK(x)
      BY <1>a, <2>1, <2>2 DEF CoreInv, TypeOK
    <3> QED
      BY <2>2, <3>1 DEF MaskOK, Pending, Interest
  <2> QED
    BY <2>1, <2>3, <2>4
<1>4. ASSUME NEW fd \in Fds, Close(fd) PROVE \A x \in DOMAIN handles_' : MaskOK(x)'
  <2>1. handles_' = [x \in DOMAIN handles_ \ {fd} |-> handles_[x]]
    BY <1>4 DEF Close, Without
  <2>2. /\ pc # "crashed" /\ UNCHANGED batch
        /\ \A x \in Fds \ {fd} : armed'[x] = armed[x]
    BY <1>4 DEF Close, KernelForgetsFd, CoreInv, TypeOK
  <2>3. ASSUME NEW x \in DOMAIN handles_ \ {fd} PROVE MaskOK(x)'
    <3>1. armed'[x] = armed[x] /\ handles_'[x] = handles_[x] /\ MaskOK(x)
      BY <1>a, <2>1, <2>2 DEF CoreInv, TypeOK
    <3> QED
      BY <2>2, <3>1 DEF MaskOK, Pending, Interest
  <2> QED
    BY <2>1, <2>3
<1>5. CASE EpollWait
  BY <1>5, <1>a, EpollWaitMask DEF EpollWait
<1>6. CASE Skip
  <2>1. /\ batch # <<>> /\ batch' = Tail(batch) /\ pc # "crashed"
        /\ UNCHANGED <<handles_, armed>> /\ batch[1].fd \notin DOMAIN handles_
    BY <1>6, HeadTailProperties DEF Skip, Registered, CoreInv, TypeOK
  <2>2. \A i \in DOMAIN batch \ {1} : \E j \in DOMAIN batch' : batch'[j] = batch[i]
    BY <2>1, TailKeeps DEF CoreInv
  <2>3. ASSUME NEW x \in DOMAIN handles_ PROVE MaskOK(x)'
    <3>1. CASE Pending(x)
      BY <2>1, <2>2, <3>1 DEF MaskOK, Pending, Interest
    <3>2. CASE armed[x] = Interest(handles_[x])
      BY <2>1, <3>2 DEF MaskOK, Interest
    <3> QED
      BY <1>a, <2>1, <3>1, <3>2 DEF MaskOK
  <2> QED
    BY <2>1, <2>3
<1>7. CASE DispatchWrite
  BY <1>7, <1>a, DispatchWriteMask DEF DispatchWrite
<1>8. CASE DispatchRead
  <2>1. it # "dangling" /\ pc # "crashed"
    BY <1>8 DEF DispatchRead
  <2> QED
    BY <1>8, <1>a, <2>1, DispatchReadMask
<1>9. CASE UNCHANGED <<handles_, armed, batch>> /\ pc # "crashed"
  BY <1>9, <1>a DEF MaskOK, Pending, Interest
<1> QED
  BY <1>1, <1>2, <1>3, <1>4, <1>5, <1>6, <1>7, <1>8, <1>9
  DEF Next, Poll, Consume, BecomeReady, Yield, EndBatch, vars

(* The kernel watches every event that a frame waits for, unless poll()    *)
(* is about to call a callback of the descriptor: whatever else happens to *)
(* the descriptor, EPOLLONESHOT never leaves a waiter behind a spent mask. *)
THEOREM MaskNeverSpent == Spec => []MaskArmed
<1>1. Init => CoreInv /\ MaskArmed
  BY CoreInit DEF Init, MaskArmed
<1>2. CoreInv /\ MaskArmed /\ [Next]_vars => CoreInv' /\ MaskArmed'
  BY CoreNext, MaskNext
<1> QED
  BY <1>1, <1>2, PTL DEF Spec

-----------------------------------------------------------------------------
(* The loop with either poller. *)
Proofs == INSTANCE SelectPoller_proofs WITH
  Frames <- SelectFrames, handles_ <- select_handles_, ready <- select_ready,
  waits <- select_waits, orphans <- select_orphans, pc <- select_pc

(* A loop implements both pollers: what it does is a behaviour of either,  *)
(* of which the one that it does not use only stutters.                    *)
THEOREM LoopImplementsPollers == LoopSpec => Spec /\ Select!Spec
<1>1. LoopInit => Init /\ Select!Init
  BY DEF LoopInit
<1>2. [LoopNext]_loopVars => [Next]_vars /\ [Select!Next]_(Select!vars)
  <2>1. UNCHANGED selectVars => UNCHANGED Select!vars
    BY DEF selectVars, Select!vars, Select!walk
  <2>2. LoopNext => [Next]_vars /\ [Select!Next]_(Select!vars)
    BY <2>1 DEF LoopNext, EPollLoop, SelectLoop
  <2>3. UNCHANGED loopVars => UNCHANGED vars /\ UNCHANGED Select!vars
    BY <2>1 DEF loopVars
  <2> QED
    BY <2>2, <2>3
<1> QED
  BY <1>1, <1>2, PTL DEF LoopSpec, Spec, Select!Spec

-----------------------------------------------------------------------------
(* The two instances of SelectPoller are the same.                         *)
LEMMA SameAssumption == Proofs!SelectAssumption
BY LoopAssumption DEF Select!SelectAssumption, Proofs!SelectAssumption

LEMMA SameInit == Select!Init => Proofs!Init
BY DEF Select!Init, Proofs!Init, Select!None, Proofs!None

LEMMA SameNext == [Select!Next]_(Select!vars) => [Proofs!Next]_(Proofs!vars)
BY DEF Select!walk, Proofs!walk, Select!vars, Proofs!vars, Select!Slots,
  Proofs!Slots, Select!Stages, Proofs!Stages, Select!None, Proofs!None,
  Select!Suspended, Proofs!Suspended, Select!Greatest, Proofs!Greatest,
  Select!Without, Proofs!Without, Select!Extended, Proofs!Extended,
  Select!Entry, Proofs!Entry, Select!AddEvent, Proofs!AddEvent,
  Select!ClearsSets, Proofs!ClearsSets, Select!RemoveEvents,
  Proofs!RemoveEvents, Select!DestroyFrame, Proofs!DestroyFrame, Select!Wait,
  Proofs!Wait, Select!Drop, Proofs!Drop, Select!Open, Proofs!Open,
  Select!Close, Proofs!Close, Select!Consume, Proofs!Consume, Select!Yield,
  Proofs!Yield, Select!BecomeReady, Proofs!BecomeReady, Select!Reported,
  Proofs!Reported, Select!Pselect, Proofs!Pselect, Select!Callable,
  Proofs!Callable, Select!Idle, Proofs!Idle, Select!Leave, Proofs!Leave,
  Select!Go, Proofs!Go, Select!Visit, Proofs!Visit, Select!GoOn, Proofs!GoOn,
  Select!EndWalk, Proofs!EndWalk, Select!Poll, Proofs!Poll, Select!Next,
  Proofs!Next

LEMMA SameSpec == Select!Spec => Proofs!Spec
BY SameInit, SameNext, PTL DEF Select!Spec, Proofs!Spec

LEMMA SameInvariants ==
  Proofs!TypeOK /\ Proofs!IteratorValid /\ Proofs!CallbacksMatchWaits =>
    SelectTypeOK /\ SelectIteratorValid /\ SelectCallbacksMatchWaits
BY DEF Select!TypeOK, Proofs!TypeOK, Select!IteratorValid,
  Proofs!IteratorValid, Select!CallbacksMatchWaits,
  Proofs!CallbacksMatchWaits, Select!Entry, Proofs!Entry, Select!Slots,
  Proofs!Slots,
  SelectTypeOK, SelectIteratorValid, SelectCallbacksMatchWaits

LEMMA SelectLoopSafe ==
  LoopSpec => [](SelectTypeOK /\ SelectIteratorValid /\ SelectCallbacksMatchWaits)
BY LoopImplementsPollers, SameAssumption, SameSpec, Proofs!SelectSafe, SameInvariants, PTL

(* Every variable of SelectPoller has its type in every loop.              *)
THEOREM SelectTypeCorrect == LoopSpec => []SelectTypeOK
BY SelectLoopSafe, PTL

(* poll() of SelectPoller never goes on from an erased entry of handles_,  *)
(* whatever files the handlers that it calls open, wait for and close.     *)
THEOREM SelectIteratorSafe == LoopSpec => []SelectIteratorValid
BY SelectLoopSafe, PTL

(* The callbacks and the fd_sets of SelectPoller are those of the frames   *)
(* that wait for open files, however handlers change them in a walk.       *)
THEOREM SelectWaitersMatch == LoopSpec => []SelectCallbacksMatchWaits
BY SelectLoopSafe, PTL

(* What is proved of EPollPoller holds of a loop that polls with it.       *)
THEOREM EPollLoopSafe == LoopSpec => [](TypeOK /\ CallbacksLive /\ MaskArmed)
BY LoopImplementsPollers, TypeCorrect, CallsOnlyWaiters, MaskNeverSpent, PTL
=============================================================================
