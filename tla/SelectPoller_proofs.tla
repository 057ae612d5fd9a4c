------------------------ MODULE SelectPoller_proofs ------------------------
(***************************************************************************)
(* Theorems about SelectPoller for every set of descriptors below          *)
(* FD_SETSIZE, every set of frames and any number of rehashes.             *)
(***************************************************************************)
EXTENDS SelectPoller, WellFoundedInduction, TLAPS

Match == TypeOK /\ CallbacksMatchWaits

(* The parts that changes of handles_, sets and waits can disturb. *)
TablesOK ==
  /\ DOMAIN handles_ \subseteq Fds
  /\ handles_ \in [DOMAIN handles_ -> [Events -> Frames \cup {Null}]]
  /\ sets \in [Events -> SUBSET Fds]
  /\ DOMAIN waits \subseteq Frames
  /\ waits \in [DOMAIN waits -> Slots]
  /\ orphans \subseteq DOMAIN waits

-----------------------------------------------------------------------------
(* The callback of an entry, and of one that is not there.                 *)
LEMMA EntryValue ==
  ASSUME NEW fd, NEW ev \in Events
  PROVE  /\ fd \in DOMAIN handles_ => Entry(fd)[ev] = handles_[fd][ev]
         /\ fd \notin DOMAIN handles_ => Entry(fd)[ev] = Null
BY DEF Entry

(* A set of naturals has a minimal element for a well-founded relation.    *)
LEMMA MinimalElement ==
  ASSUME NEW R, IsWellFoundedOn(R, Nat), NEW T, T \subseteq Nat, T # {}
  PROVE  \E m \in T : \A y \in T : ~ (<<y, m>> \in R)
BY WFMin

(* The greatest descriptor of a set is one of them.                        *)
LEMMA GreatestType ==
  ASSUME NEW S, S \subseteq 0 .. 1023
  PROVE  Greatest(S) \in S \cup {-1}
<1>1. CASE S = {}
  BY <1>1 DEF Greatest
<1>2. CASE S # {}
  <2> DEFINE R == {p \in Nat \X Nat : p[1] < p[2]}
             D == {1023 - x : x \in S}
  <2>1. \A x \in S : x \in Int /\ 1023 - x \in Nat
    OBVIOUS
  <2>2. D \subseteq Nat /\ D # {}
    <3>1. PICK x \in S : TRUE
      BY <1>2, ZenonT(30)
    <3>2. 1023 - x \in D
      OBVIOUS
    <3>3. D \subseteq Nat
      BY <2>1
    <3> QED
      BY <3>2, <3>3
  <2>3. IsWellFoundedOn(R, Nat)
    BY NatLessThanWellFounded DEF OpToRel
  <2>4. \E m \in D : \A y \in D : ~ (<<y, m>> \in R)
    <3> HIDE DEF R, D
    <3> QED
      BY <2>2, <2>3, MinimalElement, ZenonT(30)
  <2>5. PICK x \in S : \A y \in S : <<1023 - y, 1023 - x>> \notin R
    BY <2>4
  <2>6. \A y \in S : y <= x
    <3>1. SUFFICES ASSUME NEW y \in S PROVE y <= x
      OBVIOUS
    <3>2. 1023 - y \in Nat /\ 1023 - x \in Nat /\ y \in Int /\ x \in Int
      BY <2>1
    <3>3. <<1023 - y, 1023 - x>> \notin R
      BY <2>5
    <3>4. ~ (1023 - y < 1023 - x)
      BY <3>2, <3>3
    <3> QED
      BY <3>2, <3>4
  <2> QED
    BY <1>2, <2>6 DEF Greatest
<1> QED
  BY <1>1, <1>2

(* What remove_event changes. *)
LEMMA RemoveEffect ==
  ASSUME SelectAssumption, Match, NEW fd \in Fds, NEW S \in SUBSET Events, RemoveEvents(fd, S)
  PROVE  /\ DOMAIN handles_' = DOMAIN handles_
         /\ handles_' \in [DOMAIN handles_ -> [Events -> Frames \cup {Null}]]
         /\ sets' \in [Events -> SUBSET Fds]
         /\ \A x \in DOMAIN handles_, e \in Events :
              handles_'[x][e] = IF x = fd /\ e \in S THEN Null ELSE handles_[x][e]
         /\ \A x \in Fds, e \in Events :
              x \in sets'[e] <=> x \in sets[e] /\ ~(x = fd /\ e \in S)
<1>1. CASE fd \in DOMAIN handles_
  <2> DEFINE h == [e \in Events |-> IF e \in S THEN Null ELSE handles_[fd][e]]
  <2>1. handles_' = [handles_ EXCEPT ![fd] = h] /\ sets' = ClearsSets(fd, S)
    BY <1>1 DEF RemoveEvents
  <2>2. handles_ \in [DOMAIN handles_ -> [Events -> Frames \cup {Null}]]
    BY DEF Match, TypeOK
  <2>3. h \in [Events -> Frames \cup {Null}]
    BY <1>1, <2>2
  <2>4. sets \in [Events -> SUBSET Fds]
    BY DEF Match, TypeOK
  <2>5. sets' = [e \in Events |-> IF e \in S THEN sets[e] \ {fd} ELSE sets[e]]
    BY <2>1 DEF ClearsSets
  <2>6. \A e \in Events : h[e] = IF e \in S THEN Null ELSE handles_[fd][e]
    OBVIOUS
  <2> HIDE DEF h
  <2>7. sets' \in [Events -> SUBSET Fds]
    BY <2>4, <2>5
  <2>8. /\ DOMAIN handles_' = DOMAIN handles_
        /\ handles_' \in [DOMAIN handles_ -> [Events -> Frames \cup {Null}]]
        /\ \A x \in DOMAIN handles_ : handles_'[x] = IF x = fd THEN h ELSE handles_[x]
    BY <1>1, <2>1, <2>2, <2>3
  <2> QED
    BY <2>5, <2>6, <2>7, <2>8
<1>2. CASE fd \notin DOMAIN handles_
  <2>1. UNCHANGED <<handles_, sets>>
    BY <1>2 DEF RemoveEvents
  <2>2. \A e \in Events : fd \notin sets[e]
    BY <1>2 DEF Match, CallbacksMatchWaits, Entry
  <2> QED
    BY <1>2, <2>1, <2>2 DEF Match, TypeOK
<1> QED
  BY <1>1, <1>2

(* A frame that is destroyed takes its callback with it. *)
LEMMA DestroyKeeps ==
  ASSUME SelectAssumption, Match, NEW f \in DOMAIN waits \ orphans, DestroyFrame(f), UNCHANGED <<files, orphans>>
  PROVE  /\ TablesOK' /\ CallbacksMatchWaits'
         /\ DOMAIN handles_' = DOMAIN handles_
<1> DEFINE fd == waits[f].fd
           ev == waits[f].event
<1>1. fd \in Fds /\ ev \in Events
  BY DEF Match, TypeOK, Slots
<1>2. RemoveEvents(fd, {ev}) /\ waits' = Without(waits, f)
  BY DEF DestroyFrame
<1>3. /\ DOMAIN handles_' = DOMAIN handles_
      /\ handles_' \in [DOMAIN handles_ -> [Events -> Frames \cup {Null}]]
      /\ sets' \in [Events -> SUBSET Fds]
      /\ \A x \in DOMAIN handles_, e \in Events :
           handles_'[x][e] = IF x = fd /\ e = ev THEN Null ELSE handles_[x][e]
      /\ \A x \in Fds, e \in Events :
           x \in sets'[e] <=> x \in sets[e] /\ ~(x = fd /\ e = ev)
  <2> HIDE DEF fd, ev
  <2> QED
    BY <1>1, <1>2, RemoveEffect
<1>4. waits' = [g \in DOMAIN waits \ {f} |-> waits[g]]
  BY <1>2 DEF Without
<1>5. DOMAIN waits' = DOMAIN waits \ {f} /\ \A g \in DOMAIN waits \ {f} : waits'[g] = waits[g]
  BY <1>4
<1>6. waits' \in [DOMAIN waits' -> Slots]
  BY <1>4 DEF Match, TypeOK
<1>7. TablesOK'
  BY <1>3, <1>5, <1>6 DEF TablesOK, Match, TypeOK
<1>8. ASSUME NEW g \in DOMAIN waits' \ orphans'
      PROVE  /\ waits'[g].fd \in DOMAIN handles_' \cap files'
             /\ handles_'[waits'[g].fd][waits'[g].event] = g
  <2>1. g \in DOMAIN waits \ orphans /\ g # f /\ waits'[g] = waits[g]
    BY <1>5
  <2>2. /\ waits[g].fd \in DOMAIN handles_ \cap files
        /\ handles_[waits[g].fd][waits[g].event] = g
        /\ handles_[fd][ev] = f
    BY <2>1 DEF Match, CallbacksMatchWaits
  <2>3. waits[g].event \in Events
    BY <2>1 DEF Match, TypeOK, Slots
  <2>4. ~(waits[g].fd = fd /\ waits[g].event = ev)
    BY <2>1, <2>2
  <2> QED
    BY <1>3, <2>1, <2>2, <2>3, <2>4
<1>9. ASSUME NEW x \in Fds, NEW e \in Events
      PROVE  /\ x \in sets'[e] <=> Entry(x)'[e] # Null
             /\ Entry(x)'[e] # Null =>
                  /\ Entry(x)'[e] \in DOMAIN waits' \ orphans'
                  /\ waits'[Entry(x)'[e]] = [fd |-> x, event |-> e]
  <2>1. CASE x \notin DOMAIN handles_
    <3>1. Entry(x)'[e] = Null /\ Entry(x)[e] = Null
      BY <1>3, <2>1 DEF Entry
    <3>2. x \notin sets[e]
      BY <3>1 DEF Match, CallbacksMatchWaits
    <3> QED
      BY <1>3, <3>1, <3>2
  <2>2. CASE x \in DOMAIN handles_ /\ x = fd /\ e = ev
    <3>1. Entry(x)'[e] = Null
      BY <1>3, <2>2 DEF Entry
    <3> QED
      BY <1>3, <2>2, <3>1
  <2>3. CASE x \in DOMAIN handles_ /\ ~(x = fd /\ e = ev)
    <3>1. Entry(x)'[e] = Entry(x)[e]
      BY <1>3, <2>3 DEF Entry
    <3>2. /\ x \in sets[e] <=> Entry(x)[e] # Null
          /\ Entry(x)[e] # Null =>
               /\ Entry(x)[e] \in DOMAIN waits \ orphans
               /\ waits[Entry(x)[e]] = [fd |-> x, event |-> e]
      BY DEF Match, CallbacksMatchWaits
    <3>3. ASSUME Entry(x)[e] = f PROVE x = fd /\ e = ev
      <4>1. waits[f] = [fd |-> x, event |-> e]
        <5>1. f # Null
          BY DEF SelectAssumption, Match, TypeOK
        <5> QED
          BY <3>2, <3>3, <5>1
      <4> QED
        BY <4>1
    <3> QED
      BY <1>3, <1>5, <2>3, <3>1, <3>2, <3>3
  <2> QED
    BY <2>1, <2>2, <2>3
<1> QED
  BY <1>3, <1>7, <1>8, <1>9 DEF CallbacksMatchWaits
(* A wait adds its callback at a place that was empty. *)
LEMMA AddKeeps ==
  ASSUME SelectAssumption, Match,
         NEW f \in Frames, NEW fd \in files, NEW ev \in Events,
         f \notin DOMAIN waits, Entry(fd)[ev] = Null, AddEvent(fd, ev, f),
         waits' = Extended(waits, f, [fd |-> fd, event |-> ev]), UNCHANGED <<files, orphans>>
  PROVE  /\ TablesOK' /\ CallbacksMatchWaits'
         /\ DOMAIN handles_' = DOMAIN handles_ \cup {fd}
<1> DEFINE h == [Entry(fd) EXCEPT ![ev] = f]
<1>1. /\ fd \in Fds /\ f # Null
      /\ handles_ \in [DOMAIN handles_ -> [Events -> Frames \cup {Null}]]
      /\ sets \in [Events -> SUBSET Fds] /\ DOMAIN handles_ \subseteq Fds
  BY DEF SelectAssumption, Match, TypeOK
<1>2. Entry(fd) \in [Events -> Frames \cup {Null}]
  BY <1>1 DEF Entry
<1>3. /\ h \in [Events -> Frames \cup {Null}]
      /\ \A e \in Events : h[e] = IF e = ev THEN f ELSE Entry(fd)[e]
  BY <1>2
<1>4. /\ handles_' = [y \in DOMAIN handles_ \cup {fd} |-> IF y = fd THEN h ELSE handles_[y]]
      /\ sets' = [sets EXCEPT ![ev] = @ \cup {fd}]
  BY DEF AddEvent, Extended
<1> HIDE DEF h
<1>5. /\ DOMAIN handles_' = DOMAIN handles_ \cup {fd}
      /\ handles_' \in [DOMAIN handles_' -> [Events -> Frames \cup {Null}]]
      /\ handles_'[fd] = h
      /\ \A x \in DOMAIN handles_ \ {fd} : handles_'[x] = handles_[x]
  BY <1>1, <1>3, <1>4
<1>6. /\ sets' \in [Events -> SUBSET Fds]
      /\ \A x \in Fds, e \in Events :
           x \in sets'[e] <=> x \in sets[e] \/ (x = fd /\ e = ev)
  BY <1>1, <1>4
<1>7. waits' = [g \in DOMAIN waits \cup {f} |->
                  IF g = f THEN [fd |-> fd, event |-> ev] ELSE waits[g]]
  BY DEF Extended
<1>8. /\ DOMAIN waits' = DOMAIN waits \cup {f}
      /\ waits'[f] = [fd |-> fd, event |-> ev]
      /\ \A g \in DOMAIN waits : waits'[g] = waits[g]
  BY <1>7
<1>9. waits' \in [DOMAIN waits' -> Slots]
  BY <1>1, <1>7 DEF Match, TypeOK, Slots
<1>10. TablesOK'
  BY <1>1, <1>5, <1>6, <1>8, <1>9 DEF TablesOK, Match, TypeOK
<1>11. \A x \in Fds, e \in Events :
         Entry(x)'[e] = IF x = fd /\ e = ev THEN f ELSE Entry(x)[e]
  BY <1>1, <1>3, <1>5 DEF Entry
<1>12. ASSUME NEW g \in DOMAIN waits' \ orphans'
       PROVE  /\ waits'[g].fd \in DOMAIN handles_' \cap files'
              /\ handles_'[waits'[g].fd][waits'[g].event] = g
  <2>1. CASE g = f
    BY <1>3, <1>5, <1>8, <2>1
  <2>2. CASE g # f
    <3>1. /\ g \in DOMAIN waits \ orphans /\ waits'[g] = waits[g]
          /\ waits[g].fd \in DOMAIN handles_ \cap files
          /\ handles_[waits[g].fd][waits[g].event] = g
          /\ waits[g].event \in Events
      BY <1>8, <2>2 DEF Match, TypeOK, Slots, CallbacksMatchWaits
    <3>2. g # Null
      BY <3>1 DEF SelectAssumption, Match, TypeOK
    <3>3. Entry(waits[g].fd)[waits[g].event] = g
      BY <3>1 DEF Entry
    <3>4. ~(waits[g].fd = fd /\ waits[g].event = ev)
      BY <3>2, <3>3
    <3> QED
      BY <1>3, <1>5, <3>1, <3>3, <3>4
  <2> QED
    BY <2>1, <2>2
<1>13. ASSUME NEW x \in Fds, NEW e \in Events
       PROVE  /\ x \in sets'[e] <=> Entry(x)'[e] # Null
              /\ Entry(x)'[e] # Null =>
                   /\ Entry(x)'[e] \in DOMAIN waits' \ orphans'
                   /\ waits'[Entry(x)'[e]] = [fd |-> x, event |-> e]
  <2>1. CASE x = fd /\ e = ev
    <3>1. f \notin orphans
      BY DEF Match, TypeOK
    <3> QED
      BY <1>1, <1>6, <1>8, <1>11, <2>1, <3>1
  <2>2. CASE ~(x = fd /\ e = ev)
    <3>1. /\ x \in sets[e] <=> Entry(x)[e] # Null
          /\ Entry(x)[e] # Null =>
               /\ Entry(x)[e] \in DOMAIN waits \ orphans
               /\ waits[Entry(x)[e]] = [fd |-> x, event |-> e]
      BY DEF Match, CallbacksMatchWaits
    <3> QED
      BY <1>6, <1>8, <1>11, <2>2, <3>1
  <2> QED
    BY <2>1, <2>2
<1> QED
  BY <1>5, <1>10, <1>12, <1>13 DEF CallbacksMatchWaits

(* An entry without callbacks can be erased. *)
LEMMA EraseKeeps ==
  ASSUME SelectAssumption, Match, NEW fd \in DOMAIN handles_, Idle(fd),
         handles_' = Without(handles_, fd), UNCHANGED <<files, sets, waits, orphans>>
  PROVE  /\ TablesOK' /\ CallbacksMatchWaits'
         /\ DOMAIN handles_' = DOMAIN handles_ \ {fd}
<1>1. handles_' = [y \in DOMAIN handles_ \ {fd} |-> handles_[y]]
  BY DEF Without
<1>2. /\ DOMAIN handles_' = DOMAIN handles_ \ {fd}
      /\ handles_' \in [DOMAIN handles_' -> [Events -> Frames \cup {Null}]]
      /\ \A x \in DOMAIN handles_ \ {fd} : handles_'[x] = handles_[x]
  BY <1>1 DEF Match, TypeOK
<1>3. TablesOK'
  BY <1>2 DEF TablesOK, Match, TypeOK
<1>4. \A x \in Fds, e \in Events : Entry(x)'[e] = Entry(x)[e]
  BY <1>2 DEF Entry, Idle
<1>5. ASSUME NEW g \in DOMAIN waits \ orphans
      PROVE  /\ waits[g].fd \in DOMAIN handles_' \cap files
             /\ handles_'[waits[g].fd][waits[g].event] = g
  <2>1. /\ waits[g].fd \in DOMAIN handles_ \cap files
        /\ handles_[waits[g].fd][waits[g].event] = g
        /\ waits[g].event \in Events /\ g # Null
    BY DEF SelectAssumption, Match, TypeOK, Slots, CallbacksMatchWaits
  <2>2. waits[g].fd # fd
    BY <2>1 DEF Idle
  <2> QED
    BY <1>2, <2>1, <2>2
<1> QED
  BY <1>2, <1>3, <1>4, <1>5 DEF CallbacksMatchWaits, Match
(* unregister_fd() leaves the frames that waited without their file. *)
LEMMA CloseKeeps ==
  ASSUME SelectAssumption, Match, NEW fd \in Fds, Close(fd)
  PROVE  /\ TablesOK' /\ CallbacksMatchWaits'
         /\ DOMAIN handles_' = DOMAIN handles_
<1>1. /\ DOMAIN handles_' = DOMAIN handles_
      /\ handles_' \in [DOMAIN handles_ -> [Events -> Frames \cup {Null}]]
      /\ sets' \in [Events -> SUBSET Fds]
      /\ \A x \in DOMAIN handles_, e \in Events :
           handles_'[x][e] = IF x = fd /\ e \in Events THEN Null ELSE handles_[x][e]
      /\ \A x \in Fds, e \in Events :
           x \in sets'[e] <=> x \in sets[e] /\ ~(x = fd /\ e \in Events)
  BY RemoveEffect DEF Close
<1>2. /\ files' = files \ {fd} /\ waits' = waits
      /\ orphans' = orphans \cup {f \in DOMAIN waits : waits[f].fd = fd}
  BY DEF Close
<1>3. TablesOK'
  BY <1>1, <1>2 DEF TablesOK, Match, TypeOK
<1>4. \A x \in Fds, e \in Events :
        Entry(x)'[e] = IF x = fd THEN Null ELSE Entry(x)[e]
  BY <1>1 DEF Entry
<1>5. ASSUME NEW g \in DOMAIN waits' \ orphans'
      PROVE  /\ waits'[g].fd \in DOMAIN handles_' \cap files'
             /\ handles_'[waits'[g].fd][waits'[g].event] = g
  <2>1. /\ g \in DOMAIN waits \ orphans /\ waits[g].fd # fd
        /\ waits[g].fd \in DOMAIN handles_ \cap files
        /\ handles_[waits[g].fd][waits[g].event] = g
        /\ waits[g].event \in Events
    BY <1>2 DEF Match, TypeOK, Slots, CallbacksMatchWaits
  <2> QED
    BY <1>1, <1>2, <2>1
<1>6. ASSUME NEW x \in Fds, NEW e \in Events
      PROVE  /\ x \in sets'[e] <=> Entry(x)'[e] # Null
             /\ Entry(x)'[e] # Null =>
                  /\ Entry(x)'[e] \in DOMAIN waits' \ orphans'
                  /\ waits'[Entry(x)'[e]] = [fd |-> x, event |-> e]
  <2>1. CASE x = fd
    BY <1>1, <1>4, <2>1
  <2>2. CASE x # fd
    <3>1. /\ x \in sets[e] <=> Entry(x)[e] # Null
          /\ Entry(x)[e] # Null =>
               /\ Entry(x)[e] \in DOMAIN waits \ orphans
               /\ waits[Entry(x)[e]] = [fd |-> x, event |-> e]
      BY DEF Match, CallbacksMatchWaits
    <3> QED
      BY <1>1, <1>2, <1>4, <2>2, <3>1
  <2> QED
    BY <2>1, <2>2
<1> QED
  BY <1>1, <1>3, <1>5, <1>6 DEF CallbacksMatchWaits

-----------------------------------------------------------------------------
(* The walk over handles_: the part of the invariant that iterators need.  *)
WalkOK ==
  /\ todo \subseteq DOMAIN handles_ \ behind
  /\ behind \subseteq Fds
  /\ entry = Null \/ entry \in [fd : Fds, rest : {{2}, {}}]
  /\ pc = "poll" => entry = Null /\ todo = {}
  /\ rehashes \in 0 .. MaxRehashes
  /\ IteratorValid

(* The rest of the type invariant. *)
ScalarsOK ==
  /\ files \subseteq Fds
  /\ max_fd_ \in Fds \cup {-1, 0}
  /\ ready \in [Fds -> SUBSET Events]
  /\ chosen \in [Events -> SUBSET Fds]
  /\ pc \in {"run", "poll", "dispatch"}

(* The inductive invariant is what the runs check, in other parts.         *)
Inv == TablesOK /\ CallbacksMatchWaits /\ WalkOK /\ ScalarsOK

LEMMA Parts == Inv <=> TypeOK /\ IteratorValid /\ CallbacksMatchWaits
BY DEF Inv, TypeOK, TablesOK, WalkOK, ScalarsOK

(* A step at an entry keeps the invariant if the entry is in the table and *)
(* the walk has passed it.                                                 *)
LEMMA GoKeeps ==
  ASSUME SelectAssumption, Inv, pc = "dispatch",
         NEW fd \in DOMAIN handles_, NEW stages \in SUBSET {1, 2}, Go(fd, stages),
         fd \in behind', behind' \subseteq Fds, todo' \subseteq DOMAIN handles_ \ behind'
  PROVE  Inv'
<1>1. Match /\ fd \in Fds /\ UNCHANGED <<files, ready, chosen, rehashes, orphans>>
  BY Parts DEF Match, Inv, TypeOK, Go
<1>2. CASE Callable(fd, stages) = {}
  <2>1. Leave(fd)
    BY <1>2 DEF Go
  <2>2. CASE Idle(fd)
    <3>1. TablesOK' /\ CallbacksMatchWaits' /\ DOMAIN handles_' = DOMAIN handles_ \ {fd}
      BY <1>1, <2>1, <2>2, EraseKeeps DEF Leave
    <3>2. WalkOK' /\ ScalarsOK'
      BY <1>1, <2>1, <3>1 DEF Inv, Leave, WalkOK, ScalarsOK, IteratorValid
    <3> QED
      BY <3>1, <3>2 DEF Inv
  <2>3. CASE ~Idle(fd)
    <3>1. UNCHANGED <<handles_, sets, waits, files, orphans>>
      BY <1>1, <2>1, <2>3 DEF Leave
    <3>2. TablesOK' /\ CallbacksMatchWaits'
      BY <3>1 DEF Inv, TablesOK, CallbacksMatchWaits, Entry
    <3>3. WalkOK' /\ ScalarsOK'
      BY <1>1, <2>1, <2>3 DEF Inv, Leave, WalkOK, ScalarsOK, IteratorValid
    <3> QED
      BY <3>2, <3>3 DEF Inv
  <2> QED
    BY <2>2, <2>3
<1>3. CASE Callable(fd, stages) # {}
  <2>1. PICK k \in {1, 2} :
          /\ k \in Callable(fd, stages)
          /\ DestroyFrame(handles_[fd][Stages[k]])
          /\ entry' = [fd |-> fd, rest |-> (k + 1) .. 2]
          /\ pc' = "run"
          /\ UNCHANGED max_fd_
    <3>1. Callable(fd, stages) \subseteq {1, 2}
      BY DEF Callable
    <3> QED
      BY <1>3, <3>1 DEF Go
  <2> DEFINE f == handles_[fd][Stages[k]]
  <2>2. Stages[k] \in Events /\ f # Null
    BY <2>1 DEF Callable
  <2>3. f \in DOMAIN waits \ orphans
    <3>1. Entry(fd)[Stages[k]] = f
      BY <2>2 DEF Entry
    <3> QED
      BY <1>1, <2>2, <3>1 DEF Match, CallbacksMatchWaits
  <2> HIDE DEF f
  <2>4. TablesOK' /\ CallbacksMatchWaits' /\ DOMAIN handles_' = DOMAIN handles_
    BY <1>1, <2>1, <2>3, DestroyKeeps DEF f
  <2>5. (k + 1) .. 2 \in {{2}, {}}
    <3>1. CASE k = 1
      BY <3>1
    <3>2. CASE k = 2
      BY <3>2
    <3> QED
      BY <3>1, <3>2
  <2>6. WalkOK'
    <3>1. entry' \in [fd : Fds, rest : {{2}, {}}] /\ entry'.fd = fd
      BY <1>1, <2>1, <2>5
    <3> QED
      BY <1>1, <2>1, <2>4, <3>1 DEF Inv, WalkOK, IteratorValid
  <2>7. ScalarsOK'
    BY <1>1, <2>1 DEF Inv, ScalarsOK
  <2> QED
    BY <2>4, <2>6, <2>7 DEF Inv
<1> QED
  BY <1>2, <1>3
LEMMA WaitKeeps ==
  ASSUME SelectAssumption, Inv,
         NEW f \in Frames, NEW fd \in Fds, NEW ev \in Events, Wait(f, fd, ev)
  PROVE  Inv'
<1>1. /\ Match /\ fd \in files /\ f \notin DOMAIN waits /\ AddEvent(fd, ev, f)
      /\ UNCHANGED <<files, ready, chosen, entry, orphans, pc>> /\ pc = "run"
  BY Parts DEF Match, Wait, Suspended
<1>2. TablesOK' /\ CallbacksMatchWaits' /\ DOMAIN handles_' = DOMAIN handles_ \cup {fd}
  BY <1>1, AddKeeps DEF Wait
<1>3. ScalarsOK'
  BY <1>1 DEF AddEvent, Inv, ScalarsOK
<1>4. CASE UNCHANGED <<todo, rehashes, behind>>
  BY <1>1, <1>2, <1>3, <1>4 DEF Inv, WalkOK, IteratorValid
<1>5. CASE /\ entry # Null /\ fd \notin DOMAIN handles_ \cup behind
           /\ todo' = todo \cup {fd} /\ UNCHANGED <<rehashes, behind>>
  BY <1>1, <1>2, <1>3, <1>5 DEF Inv, WalkOK, IteratorValid
<1>6. CASE /\ entry # Null /\ fd \notin DOMAIN handles_
           /\ rehashes < MaxRehashes
           /\ rehashes' = rehashes + 1
           /\ todo' \in SUBSET (DOMAIN handles_' \ {entry.fd})
           /\ behind' = DOMAIN handles_' \ todo'
  <2>1. rehashes' \in 0 .. MaxRehashes
    BY <1>6 DEF SelectAssumption, Inv, WalkOK
  <2>2. behind' \subseteq Fds
    BY <1>2, <1>6 DEF TablesOK
  <2>3. entry.fd \in DOMAIN handles_'
    BY <1>2, <1>6 DEF Inv, WalkOK, IteratorValid
  <2> QED
    BY <1>1, <1>2, <1>3, <1>6, <2>1, <2>2, <2>3 DEF Inv, WalkOK, IteratorValid
<1> QED
  BY <1>1, <1>2, <1>3, <1>4, <1>5, <1>6 DEF AddEvent, Inv

LEMMA InvInit == SelectAssumption /\ Init => Inv
<1> SUFFICES ASSUME SelectAssumption, Init PROVE Inv
  OBVIOUS
<1>1. TablesOK
  BY DEF Init, TablesOK, None
<1>2. CallbacksMatchWaits
  BY DEF Init, CallbacksMatchWaits, Entry, None
<1>3. WalkOK
  BY DEF SelectAssumption, Init, WalkOK, IteratorValid
<1>4. ScalarsOK
  BY DEF Init, ScalarsOK, None
<1> QED
  BY <1>1, <1>2, <1>3, <1>4 DEF Inv

LEMMA InvNext ==
  ASSUME SelectAssumption, Inv, [Next]_vars
  PROVE  Inv'
<1>1. ASSUME NEW f \in Frames, Drop(f) PROVE Inv'
  <2>1. Match /\ f \in DOMAIN waits \ orphans /\ DestroyFrame(f)
    BY <1>1, Parts DEF Match, Drop, Suspended
  <2>2. UNCHANGED <<files, max_fd_, ready, chosen, walk, orphans, pc>>
    BY <1>1 DEF Drop
  <2>3. TablesOK' /\ CallbacksMatchWaits' /\ DOMAIN handles_' = DOMAIN handles_
    BY <2>1, <2>2, DestroyKeeps
  <2> QED
    BY <2>2, <2>3 DEF Inv, WalkOK, ScalarsOK, IteratorValid, walk
<1>2. ASSUME NEW f \in Frames, NEW fd \in Fds, NEW ev \in Events, Wait(f, fd, ev)
      PROVE  Inv'
  BY <1>2, WaitKeeps
<1>3. ASSUME NEW fd \in Fds, Open(fd) PROVE Inv'
  BY <1>3 DEF Open, Inv, TablesOK, WalkOK, ScalarsOK, CallbacksMatchWaits, IteratorValid, Entry, walk
<1>4. ASSUME NEW fd \in Fds, Close(fd) PROVE Inv'
  <2>1. TablesOK' /\ CallbacksMatchWaits' /\ DOMAIN handles_' = DOMAIN handles_
    BY <1>4, CloseKeeps, Parts DEF Match
  <2>2. UNCHANGED <<max_fd_, chosen, walk, waits, pc>> /\ files' = files \ {fd}
    BY <1>4 DEF Close
  <2>3. ready' \in [Fds -> SUBSET Events]
    BY <1>4 DEF Close, Inv, ScalarsOK
  <2> QED
    BY <2>1, <2>2, <2>3 DEF Inv, WalkOK, ScalarsOK, IteratorValid, walk
<1>5. ASSUME NEW fd \in Fds, NEW ev \in Events, Consume(fd, ev) \/ BecomeReady(fd, ev)
      PROVE  Inv'
  <2>1. UNCHANGED <<files, handles_, sets, max_fd_, chosen, walk, waits, orphans, pc>>
    BY <1>5 DEF Consume, BecomeReady
  <2>2. ready' \in [Fds -> SUBSET Events]
    BY <1>5 DEF Consume, BecomeReady, Inv, ScalarsOK
  <2> QED
    BY <2>1, <2>2
    DEF Inv, TablesOK, WalkOK, ScalarsOK, CallbacksMatchWaits, IteratorValid, Entry, walk
<1>6. CASE Yield
  BY <1>6 DEF Yield, Inv, TablesOK, WalkOK, ScalarsOK, CallbacksMatchWaits, IteratorValid, Entry, walk
<1>7. CASE Pselect
  <2>1. chosen' \in [Events -> SUBSET Fds]
    BY <1>7 DEF Pselect, Reported, Inv, TablesOK
  <2>2. TablesOK' /\ CallbacksMatchWaits' /\ ScalarsOK'
    BY <1>7, <2>1 DEF Pselect, Inv, TablesOK, ScalarsOK, CallbacksMatchWaits, Entry
  <2>3. WalkOK'
    BY <1>7 DEF Pselect, Inv, TablesOK, WalkOK, IteratorValid
  <2> QED
    BY <2>2, <2>3 DEF Inv
<1>8. ASSUME NEW fd \in Fds, Visit(fd) PROVE Inv'
  <2>1. /\ pc = "dispatch" /\ fd \in DOMAIN handles_ /\ Go(fd, {1, 2})
        /\ fd \in behind' /\ behind' \subseteq Fds /\ todo' \subseteq DOMAIN handles_ \ behind'
    BY <1>8 DEF Visit, Inv, WalkOK
  <2> QED
    BY <2>1, GoKeeps
<1>9. CASE GoOn
  <2>1. /\ pc = "dispatch" /\ entry.fd \in DOMAIN handles_ /\ Go(entry.fd, entry.rest)
        /\ entry.fd \in behind' /\ behind' \subseteq Fds /\ todo' \subseteq DOMAIN handles_ \ behind'
    BY <1>9 DEF GoOn, Inv, WalkOK, IteratorValid
  <2>2. entry.rest \in SUBSET {1, 2}
    BY <1>9 DEF GoOn, Inv, WalkOK
  <2> QED
    BY <2>1, <2>2, GoKeeps
<1>10. CASE EndWalk
  <2>1. max_fd_' \in Fds \cup {-1, 0}
    <3>1. DOMAIN handles_ \subseteq Fds /\ DOMAIN handles_ \subseteq 0 .. 1023
      BY DEF SelectAssumption, Inv, TablesOK
    <3>2. Greatest(DOMAIN handles_) \in Fds \cup {-1}
      BY <3>1, GreatestType
    <3> QED
      BY <1>10, <3>2 DEF EndWalk, Inv, ScalarsOK
  <2>2. TablesOK' /\ CallbacksMatchWaits'
    BY <1>10 DEF EndWalk, Inv, TablesOK, CallbacksMatchWaits, Entry
  <2>3. ScalarsOK'
    BY <1>10, <2>1 DEF EndWalk, Inv, ScalarsOK, None
  <2>4. WalkOK'
    BY <1>10 DEF EndWalk, SelectAssumption, Inv, WalkOK, IteratorValid
  <2> QED
    BY <2>2, <2>3, <2>4 DEF Inv
<1>11. CASE UNCHANGED vars
  BY <1>11
  DEF vars, walk, Inv, TablesOK, WalkOK, ScalarsOK, CallbacksMatchWaits, IteratorValid, Entry
<1> QED
  BY <1>1, <1>2, <1>3, <1>4, <1>5, <1>6, <1>7, <1>8, <1>9, <1>10, <1>11 DEF Next, Poll

-----------------------------------------------------------------------------
(* What the walk over handles_ relies on holds for every set of files and  *)
(* frames: each variable has its type, the entry at which poll() stands is *)
(* in the table, and callbacks, fd_sets and waiting frames agree.          *)
THEOREM SelectSafe ==
  SelectAssumption /\ Spec => [](TypeOK /\ IteratorValid /\ CallbacksMatchWaits)
<1>1. CASE ~SelectAssumption
  BY <1>1
<1>2. CASE SelectAssumption
  <2>1. Init => Inv
    BY <1>2, InvInit
  <2>2. Inv /\ [Next]_vars => Inv'
    BY <1>2, InvNext
  <2> QED
    BY <2>1, <2>2, Parts, PTL DEF Spec
<1> QED
  BY <1>1, <1>2
=============================================================================
