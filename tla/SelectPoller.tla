---------------------------- MODULE SelectPoller ----------------------------
(***************************************************************************)
(* io/poller.{hpp,cpp}: SelectPoller, with the coroutines that wait on it  *)
(* and the loop of Loop<SelectPoller>::run() that polls.                   *)
(*                                                                         *)
(* As in EPollPoller, the application runs (pc = "run") before the loop    *)
(* starts and whenever poll() has called a handle. Here registration is a  *)
(* no-op, entries of handles_ are added by the first wait for a descriptor *)
(* and erased only by poll(), which walks over handles_ while the handles  *)
(* that it calls change it. pselect() is level triggered and looks at the  *)
(* descriptors up to max_fd_ only.                                         *)
(***************************************************************************)
EXTENDS Integers, FiniteSets

CONSTANTS
  Fds,      \* descriptors
  Events,   \* the events waited for
  Frames,   \* frames of waiting_for_event()
  Null,     \* an empty callback
  MaxRehashes  \* bound: how often handles_ gets more buckets in one walk

SelectAssumption ==
  /\ Fds \subseteq 0 .. 1023   \* FD_SETSIZE
  /\ Events \subseteq {"read", "write"}
  /\ Null \notin Frames
  /\ MaxRehashes \in Nat

VARIABLES
  files,     \* descriptors that an AsyncFile owns
  handles_,  \* descriptor -> event -> callback
  sets,      \* event -> read_set_ or write_set_
  max_fd_,
  ready,     \* what each descriptor is ready for
  chosen,    \* event -> the set that pselect() left
  todo,      \* descriptors that the walk over handles_ has still to visit
  behind,    \* descriptors whose place in the table it has passed
  entry,     \* the entry it visits, and the stages left; Null between two
  rehashes,  \* how often handles_ has been rehashed in this walk
  waits,     \* suspended frame -> its promise's [fd, event]
  orphans,   \* frames whose file was closed under them
  pc         \* "run" | "poll" | "dispatch"

walk == <<todo, behind, entry, rehashes>>
vars == <<files, handles_, sets, max_fd_, ready, chosen, walk, waits, orphans, pc>>

Slots == [fd : Fds, event : Events]
Stages == <<"read", "write">>
None == [ev \in Events |-> {}]
Suspended(f) == f \in DOMAIN waits
Greatest(S) == IF S = {} THEN -1 ELSE CHOOSE x \in S : \A y \in S : y <= x

Without(g, x) == [y \in DOMAIN g \ {x} |-> g[y]]
Extended(g, x, v) == [y \in DOMAIN g \cup {x} |-> IF y = x THEN v ELSE g[y]]

Init ==
  /\ files = {}
  /\ handles_ = [fd \in {} |-> [ev \in Events |-> Null]]
  /\ sets = None
  /\ max_fd_ = 0
  /\ ready = [fd \in Fds |-> {}]
  /\ chosen = None
  /\ todo = {}
  /\ behind = {}
  /\ entry = Null
  /\ rehashes = 0
  /\ waits = [f \in {} |-> [fd |-> 0, event |-> "read"]]
  /\ orphans = {}
  /\ pc = "run"

-----------------------------------------------------------------------------
(* add_event. The walk may meet a new entry if its place is still ahead;   *)
(* if it makes the table rehash, any entries can come after the current.   *)
Entry(fd) == IF fd \in DOMAIN handles_ THEN handles_[fd] ELSE [ev \in Events |-> Null]

AddEvent(fd, ev, callback) ==
  /\ handles_' = Extended(handles_, fd, [Entry(fd) EXCEPT ![ev] = callback])
  /\ sets' = [sets EXCEPT ![ev] = @ \cup {fd}]
  /\ max_fd_' = IF max_fd_ < fd THEN fd ELSE max_fd_
  /\ \/ /\ \/ UNCHANGED todo
           \/ /\ entry # Null /\ fd \notin DOMAIN handles_ \cup behind
              /\ todo' = todo \cup {fd}
        /\ UNCHANGED <<rehashes, behind>>
     \/ /\ entry # Null /\ fd \notin DOMAIN handles_
        /\ rehashes < MaxRehashes
        /\ rehashes' = rehashes + 1
        /\ todo' \in SUBSET (DOMAIN handles_' \ {entry.fd})
        /\ behind' = DOMAIN handles_' \ todo'

(* remove_event of the events S; the entry stays. *)
KeepsSets(fd, S) == sets  \* mutant
ClearsSets(fd, S) == [ev \in Events |-> IF ev \in S THEN sets[ev] \ {fd} ELSE sets[ev]]

ErasesEntry(fd, S) ==  \* mutant
  IF S = Events
  THEN handles_' = Without(handles_, fd) /\ sets' = ClearsSets(fd, S)
  ELSE IF fd \in DOMAIN handles_
  THEN /\ handles_' = [handles_ EXCEPT ![fd] =
                         [ev \in Events |-> IF ev \in S THEN Null ELSE handles_[fd][ev]]]
       /\ sets' = ClearsSets(fd, S)
  ELSE UNCHANGED <<handles_, sets>>

RemoveEvents(fd, S) ==
  IF fd \in DOMAIN handles_
  THEN /\ handles_' = [handles_ EXCEPT ![fd] =
                         [ev \in Events |-> IF ev \in S THEN Null ELSE handles_[fd][ev]]]
       /\ sets' = ClearsSets(fd, S)
  ELSE UNCHANGED <<handles_, sets>>

DestroyFrame(f) ==
  /\ waits' = Without(waits, f)
  /\ RemoveEvents(waits[f].fd, {waits[f].event})

(* PollerAwaiter::await_suspend *)
Wait(f, fd, ev) ==
  /\ pc = "run"
  /\ ~Suspended(f)
  /\ fd \in files
  /\ Entry(fd)[ev] = Null
  /\ AddEvent(fd, ev, f)
  /\ waits' = Extended(waits, f, [fd |-> fd, event |-> ev])
  /\ UNCHANGED <<files, ready, chosen, entry, orphans, pc>>

(* ~PollerPromise of the loser of when_any, before its file is closed. *)
Drop(f) ==
  /\ pc = "run"
  /\ Suspended(f) /\ f \notin orphans
  /\ DestroyFrame(f)
  /\ UNCHANGED <<files, max_fd_, ready, chosen, walk, orphans, pc>>

Open(fd) ==
  /\ pc = "run"
  /\ fd \notin files
  /\ files' = files \cup {fd}
  /\ UNCHANGED <<handles_, sets, max_fd_, ready, chosen, walk, waits, orphans, pc>>

(* ~AsyncFile: unregister_fd removes both events, then the number is free. *)
Close(fd) ==
  /\ pc = "run"
  /\ fd \in files
  /\ files' = files \ {fd}
  /\ ready' = [ready EXCEPT ![fd] = {}]
  /\ RemoveEvents(fd, Events)
  /\ orphans' = orphans \cup {f \in DOMAIN waits : waits[f].fd = fd}
  /\ UNCHANGED <<max_fd_, chosen, walk, waits, pc>>

Consume(fd, ev) ==
  /\ pc = "run"
  /\ ev \in ready[fd]
  /\ ready' = [ready EXCEPT ![fd] = @ \ {ev}]
  /\ UNCHANGED <<files, handles_, sets, max_fd_, chosen, walk, waits, orphans, pc>>

Yield ==
  /\ pc = "run"
  /\ pc' = "dispatch"
  /\ UNCHANGED <<files, handles_, sets, max_fd_, ready, chosen, walk, waits, orphans>>

BecomeReady(fd, ev) ==
  /\ fd \in files
  /\ ev \notin ready[fd]
  /\ ready' = [ready EXCEPT ![fd] = @ \cup {ev}]
  /\ UNCHANGED <<files, handles_, sets, max_fd_, chosen, walk, waits, orphans, pc>>

-----------------------------------------------------------------------------
(* poll() *)
Reported ==
  [ev \in Events |-> {fd \in sets[ev] : fd <= max_fd_ /\ fd \in files /\ ev \in ready[fd]}]

Pselect ==
  /\ pc = "poll"
  /\ Reported # None
  /\ chosen' = Reported
  /\ todo' = DOMAIN handles_
  /\ behind' = {}
  /\ pc' = "dispatch"
  /\ UNCHANGED <<files, handles_, sets, max_fd_, rehashes, ready, entry, waits, orphans>>

(* At an entry, the walk calls its callbacks that are set and chosen, the  *)
(* read one first; a frame that is called ends and is destroyed. At last   *)
(* it erases an entry without callbacks; max_fd_ = -1 asks for a new one.  *)
Callable(fd, stages) ==
  {k \in stages : /\ Stages[k] \in Events
                  /\ fd \in chosen[Stages[k]]
                  /\ handles_[fd][Stages[k]] # Null}

Idle(fd) == \A ev \in Events : handles_[fd][ev] = Null

Leave(fd) ==
  /\ IF Idle(fd)
     THEN /\ handles_' = Without(handles_, fd)
          /\ max_fd_' = IF max_fd_ = fd THEN -1 ELSE max_fd_
     ELSE UNCHANGED <<handles_, max_fd_>>
  /\ entry' = Null
  /\ UNCHANGED <<sets, waits, pc>>

Go(fd, stages) ==
  /\ IF Callable(fd, stages) = {} THEN Leave(fd)
     ELSE LET k == IF 1 \in Callable(fd, stages) THEN 1 ELSE 2 IN
          /\ DestroyFrame(handles_[fd][Stages[k]])
          /\ entry' = [fd |-> fd, rest |-> (k + 1) .. 2]
          /\ pc' = "run"
          /\ UNCHANGED max_fd_
  /\ UNCHANGED <<files, ready, chosen, rehashes, orphans>>

Visit(fd) ==
  /\ pc = "dispatch"
  /\ entry = Null
  /\ fd \in todo
  /\ todo' = todo \ {fd}
  /\ behind' = behind \cup {fd}
  /\ Go(fd, {1, 2})

GoOn ==
  /\ pc = "dispatch"
  /\ entry # Null
  /\ UNCHANGED <<todo, behind>>
  /\ Go(entry.fd, entry.rest)

EndWalk ==
  /\ pc = "dispatch"
  /\ entry = Null /\ todo = {}
  /\ max_fd_' = IF max_fd_ = -1 THEN Greatest(DOMAIN handles_) ELSE max_fd_
  /\ chosen' = None
  /\ behind' = {}
  /\ rehashes' = 0
  /\ pc' = "poll"
  /\ UNCHANGED <<files, handles_, sets, ready, todo, entry, waits, orphans>>

Poll == Pselect \/ (\E fd \in Fds : Visit(fd)) \/ GoOn \/ EndWalk

Next ==
  \/ \E f \in Frames : \/ Drop(f)
                       \/ \E fd \in Fds, ev \in Events : Wait(f, fd, ev)
  \/ \E fd \in Fds : \/ Open(fd)
                     \/ Close(fd)
                     \/ \E ev \in Events : Consume(fd, ev) \/ BecomeReady(fd, ev)
  \/ Yield
  \/ Poll

Spec == Init /\ [][Next]_vars

(* Coroutines suspend at last and the loop polls for ever. *)
FairSpec == Spec /\ WF_vars(Yield) /\ WF_vars(Poll)
-----------------------------------------------------------------------------
(* Every variable has its type; the walk is over when pselect() is called. *)
TypeOK ==
  /\ files \subseteq Fds
  /\ DOMAIN handles_ \subseteq Fds
  /\ handles_ \in [DOMAIN handles_ -> [Events -> Frames \cup {Null}]]
  /\ sets \in [Events -> SUBSET Fds]
  /\ max_fd_ \in Fds \cup {-1, 0}
  /\ ready \in [Fds -> SUBSET Events]
  /\ chosen \in [Events -> SUBSET Fds]
  /\ todo \subseteq DOMAIN handles_ \ behind
  /\ behind \subseteq Fds
  /\ entry = Null \/ entry \in [fd : Fds, rest : {{2}, {}}]
  /\ pc = "poll" => entry = Null /\ todo = {}
  /\ rehashes \in 0 .. MaxRehashes
  /\ DOMAIN waits \subseteq Frames
  /\ waits \in [DOMAIN waits -> Slots]
  /\ orphans \subseteq DOMAIN waits
  /\ pc \in {"run", "poll", "dispatch"}

(* No handler takes the entry at which poll() stands out of handles_: the  *)
(* iterator that poll() goes on to use is that of the descriptor whose     *)
(* callback it called, even if that closed the file.                       *)
IteratorValid ==
  entry # Null => entry.fd \in DOMAIN handles_ \cap behind

(* Whatever handlers do while poll() walks over handles_, its callbacks    *)
(* are exactly the frames that wait for a file that is open, and read_set_ *)
(* and write_set_ are exactly their descriptors: pselect() is never given  *)
(* a closed one.                                                           *)
CallbacksMatchWaits ==
  /\ \A f \in DOMAIN waits \ orphans :
       /\ waits[f].fd \in DOMAIN handles_ \cap files
       /\ handles_[waits[f].fd][waits[f].event] = f
  /\ \A fd \in Fds, ev \in Events :
       /\ fd \in sets[ev] <=> Entry(fd)[ev] # Null
       /\ Entry(fd)[ev] # Null =>
            /\ Entry(fd)[ev] \in DOMAIN waits \ orphans
            /\ waits[Entry(fd)[ev]] = [fd |-> fd, event |-> ev]

(* A frame does not wait for ever on a descriptor that stays ready for it. *)
Starving(f) == /\ Suspended(f)
               /\ f \notin orphans
               /\ waits[f].event \in ready[waits[f].fd]

ReadyWaitersResume == \A f \in Frames : []<>~Starving(f)
=============================================================================
