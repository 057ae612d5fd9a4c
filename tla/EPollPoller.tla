---------------------------- MODULE EPollPoller ----------------------------
(***************************************************************************)
(* io/poller.{hpp,cpp}: EPollPoller, the coroutines of waiting_for_event() *)
(* that suspend on it, and the loop of Loop::run() that polls.             *)
(*                                                                         *)
(* Everything runs on one thread. Coroutines of the application run before *)
(* the loop starts and whenever poll() has called a handle (pc = "run");   *)
(* they may wait, drop a wait (when_any), open and close files, until they *)
(* are all suspended again (Yield). The kernel keeps a one-shot mask for   *)
(* each descriptor: it reports a ready descriptor of the mask once, then   *)
(* ignores it until the next EPOLL_CTL_MOD, which looks at the readiness   *)
(* again, so that edge triggering loses nothing.                           *)
(***************************************************************************)
EXTENDS Integers, Sequences, FiniteSets

CONSTANTS
  Fds,           \* descriptors (fewer than the 1024 of events_)
  Frames,        \* frames of waiting_for_event()
  Null,          \* an empty callback
  SharedWaits,   \* may two frames wait for one event of one descriptor?
  WriterCloses,  \* may a write handler close the file it is called for?
  LateDrops      \* may a frame be destroyed after its file was closed?

ASSUME PollerAssumption ==
  /\ IsFiniteSet(Fds)
  /\ Null \notin Frames
  /\ SharedWaits \in BOOLEAN
  /\ WriterCloses \in BOOLEAN
  /\ LateDrops \in BOOLEAN

Events == {"read", "write"}

VARIABLES
  handles_,  \* registered descriptor -> event -> callback
  armed,     \* the kernel's one-shot mask of each descriptor
  ready,     \* what each descriptor is ready for
  batch,     \* the rest of events_: the entries not handled yet
  it,        \* the iterator for Head(batch): "none" | "found" | "dangling"
  waits,     \* suspended frame -> its promise's [fd, event]
  orphans,   \* frames whose file was closed under them: never resumed
  pc         \* "run" | "poll" | "dispatch" | "crashed"

vars == <<handles_, armed, ready, batch, it, waits, orphans, pc>>

Slots == [fd : Fds, event : Events]
Entry == [fd : Fds, events : (SUBSET Events) \ {{}}]

(* PollerEvent.event always names exactly the callbacks that are set.      *)
Interest(h) == {ev \in Events : h[ev] # Null}

Registered(fd) == fd \in DOMAIN handles_
Suspended(f) == f \in DOMAIN waits

Without(g, x) == [y \in DOMAIN g \ {x} |-> g[y]]
Extended(g, x, v) == [y \in DOMAIN g \cup {x} |-> IF y = x THEN v ELSE g[y]]

Init ==
  /\ handles_ = [fd \in {} |-> [ev \in Events |-> Null]]
  /\ armed = [fd \in Fds |-> {}]
  /\ ready = [fd \in Fds |-> {}]
  /\ batch = <<>>
  /\ it = "none"
  /\ waits = [f \in {} |-> [fd |-> Null, event |-> "read"]]
  /\ orphans = {}
  /\ pc = "run"

-----------------------------------------------------------------------------
(* add_event and remove_event: change the callback of a slot, then MOD the *)
(* kernel's mask to the callbacks that are left, which arms it again.      *)

SetWithoutModWhenCleared(fd, ev, callback) ==  \* mutant
  LET h == [handles_[fd] EXCEPT ![ev] = callback]
  IN  /\ handles_' = [handles_ EXCEPT ![fd] = h]
      /\ armed' = IF callback = Null THEN armed
                  ELSE [armed EXCEPT ![fd] = Interest(h)]

SetWithoutMod(fd, ev, callback) ==  \* mutant
  /\ handles_' = [handles_ EXCEPT ![fd][ev] = callback]
  /\ UNCHANGED armed

SetCallback(fd, ev, callback) ==
  LET h == [handles_[fd] EXCEPT ![ev] = callback]
  IN  /\ handles_' = [handles_ EXCEPT ![fd] = h]
      /\ armed' = [armed EXCEPT ![fd] = Interest(h)]

(* ~PollerPromise: remove_event(fd_, event_) of a descriptor that may have *)
(* been unregistered before.                                               *)
LeaveCallback(f) ==  \* mutant
  /\ waits' = Without(waits, f)
  /\ UNCHANGED <<handles_, armed>>

DestroyFrame(f) ==
  /\ waits' = Without(waits, f)
  /\ IF Registered(waits[f].fd)
     THEN SetCallback(waits[f].fd, waits[f].event, Null)
     ELSE UNCHANGED <<handles_, armed>>

(* PollerAwaiter::await_suspend *)
Wait(f, fd, ev) ==
  /\ pc = "run"
  /\ ~Suspended(f)
  /\ Registered(fd)
  /\ SharedWaits \/ handles_[fd][ev] = Null
  /\ SetCallback(fd, ev, f)
  /\ waits' = Extended(waits, f, [fd |-> fd, event |-> ev])
  /\ UNCHANGED <<ready, batch, it, orphans, pc>>

(* A suspended frame is destroyed with its Task, as the loser of when_any. *)
(* If its file was closed before, it may clear the callback of whoever     *)
(* waits for the file that has the number now.                             *)
Drop(f) ==
  /\ pc = "run"
  /\ Suspended(f)
  /\ LateDrops \/ f \notin orphans
  /\ DestroyFrame(f)
  /\ orphans' = orphans \ {f}
  /\ UNCHANGED <<ready, batch, it, pc>>

(* AsyncFile(fd, loop): register_fd. A closed descriptor's number returns. *)
Open(fd) ==
  /\ pc = "run"
  /\ ~Registered(fd)
  /\ handles_' = Extended(handles_, fd, [ev \in Events |-> Null])
  /\ armed' = [armed EXCEPT ![fd] = {}]
  /\ ready' = [ready EXCEPT ![fd] = {}]
  /\ UNCHANGED <<batch, it, waits, orphans, pc>>

(* ~AsyncFile: unregister_fd, then close. Frames still waiting for the     *)
(* descriptor are forgotten; the iterator poll() may hold is invalidated.  *)
InUse(fd) == it = "found" /\ Head(batch).fd = fd

KernelKeepsFd(fd) == armed  \* mutant
KernelForgetsFd(fd) == [armed EXCEPT ![fd] = {}]

Close(fd) ==
  /\ pc = "run"
  /\ Registered(fd)
  /\ WriterCloses \/ ~InUse(fd)
  /\ handles_' = Without(handles_, fd)
  /\ armed' = KernelForgetsFd(fd)
  /\ orphans' = orphans \cup {f \in DOMAIN waits : waits[f].fd = fd}
  /\ it' = IF InUse(fd) THEN "dangling" ELSE it
  /\ UNCHANGED <<ready, batch, waits, pc>>

(* A read() empties the file's input, or a write() fills its output. *)
Consume(fd, ev) ==
  /\ pc = "run"
  /\ ev \in ready[fd]
  /\ ready' = [ready EXCEPT ![fd] = @ \ {ev}]
  /\ UNCHANGED <<handles_, armed, batch, it, waits, orphans, pc>>

(* All coroutines are suspended: back in poll(), or the loop polls. *)
Yield ==
  /\ pc = "run"
  /\ pc' = "dispatch"
  /\ UNCHANGED <<handles_, armed, ready, batch, it, waits, orphans>>

(* The peer sends data or takes it, at any time. *)
BecomeReady(fd, ev) ==
  /\ Registered(fd)
  /\ ev \notin ready[fd]
  /\ ready' = [ready EXCEPT ![fd] = @ \cup {ev}]
  /\ UNCHANGED <<handles_, armed, batch, it, waits, orphans, pc>>

-----------------------------------------------------------------------------
(* poll() *)

Reported(fd) == armed[fd] \cap ready[fd]
Deliverable == {fd \in Fds : Reported(fd) # {}}

(* One entry for each descriptor of S, in any order. *)
Report(fd) == [fd |-> fd, events |-> Reported(fd)]
Batches(S) ==
  {b \in [1 .. Cardinality(S) -> {Report(fd) : fd \in S}] :
     \A fd \in S : \E i \in DOMAIN b : b[i].fd = fd}

(* epoll_pwait, and the loop that calls poll() again. *)
EpollWait ==
  /\ pc = "poll"
  /\ Deliverable # {}
  /\ batch' \in Batches(Deliverable)
  /\ armed' = [fd \in Fds |-> IF fd \in Deliverable THEN {} ELSE armed[fd]]
  /\ pc' = "dispatch"
  /\ UNCHANGED <<handles_, ready, it, waits, orphans>>

EndBatch ==
  /\ pc = "dispatch"
  /\ batch = <<>>
  /\ pc' = "poll"
  /\ UNCHANGED <<handles_, armed, ready, batch, it, waits, orphans>>

(* Calling a callback resumes its frame, which ends and is destroyed by    *)
(* its Task before the coroutine that awaited it goes on.                  *)
Call(callback) ==
  IF callback = Null
  THEN UNCHANGED <<handles_, armed, waits, pc>>
  ELSE DestroyFrame(callback) /\ pc' = "run"

(* An entry for a descriptor unregistered since is skipped. *)
Skip ==
  /\ pc = "dispatch"
  /\ batch # <<>>
  /\ it = "none"
  /\ ~Registered(Head(batch).fd)
  /\ batch' = Tail(batch)
  /\ UNCHANGED <<handles_, armed, ready, it, waits, orphans, pc>>

(* The write handler comes first; poll() then uses the iterator again if   *)
(* the entry also reports input.                                           *)
DispatchWrite ==
  LET e == Head(batch) IN
  /\ pc = "dispatch"
  /\ batch # <<>>
  /\ it = "none"
  /\ Registered(e.fd)
  /\ "write" \in e.events
  /\ IF "read" \in e.events
     THEN /\ batch' = <<[e EXCEPT !.events = {"read"}]>> \o Tail(batch)
          /\ it' = "found"
     ELSE /\ batch' = Tail(batch)
          /\ it' = "none"
  /\ Call(handles_[e.fd]["write"])
  /\ UNCHANGED <<ready, orphans>>

DispatchRead ==
  LET e == Head(batch) IN
  /\ pc = "dispatch"
  /\ batch # <<>>
  /\ e.events = {"read"}
  /\ it = "none" => Registered(e.fd)
  /\ batch' = Tail(batch)
  /\ it' = "none"
  /\ IF it = "dangling"   \* a freed node of handles_ is read
     THEN pc' = "crashed" /\ UNCHANGED <<handles_, armed, waits>>
     ELSE Call(handles_[e.fd]["read"])
  /\ UNCHANGED <<ready, orphans>>

Poll == EpollWait \/ EndBatch \/ Skip \/ DispatchWrite \/ DispatchRead

Next ==
  \/ \E f \in Frames : \/ Drop(f)
                       \/ \E fd \in Fds, ev \in Events : Wait(f, fd, ev)
  \/ \E fd \in Fds : \/ Open(fd)
                     \/ Close(fd)
                     \/ \E ev \in Events : Consume(fd, ev) \/ BecomeReady(fd, ev)
  \/ Yield
  \/ Poll

Spec == Init /\ [][Next]_vars

(* Coroutines suspend at last and the loop polls for ever. *)
FairSpec == Spec /\ WF_vars(Yield) /\ WF_vars(Poll)
-----------------------------------------------------------------------------
(* Every variable has its type, the kernel's masks are those of registered *)
(* descriptors only and the batch is that of one epoll_pwait.              *)
TypeOK ==
  /\ DOMAIN handles_ \subseteq Fds
  /\ handles_ \in [DOMAIN handles_ -> [Events -> Frames \cup {Null}]]
  /\ armed \in [Fds -> SUBSET Events]
  /\ \A fd \in Fds : ~Registered(fd) => armed[fd] = {}
  /\ ready \in [Fds -> SUBSET Events]
  /\ batch \in Seq(Entry)
  /\ it \in {"none", "found", "dangling"}
  /\ it # "none" => batch # <<>> /\ Head(batch).events = {"read"}
  /\ DOMAIN waits \subseteq Frames
  /\ waits \in [DOMAIN waits -> Slots]
  /\ orphans \subseteq DOMAIN waits
  /\ pc \in {"run", "poll", "dispatch", "crashed"}

(* A callback is never that of a frame already resumed, destroyed or       *)
(* waiting for something else: poll() calls only the frame that waits for  *)
(* this event of this descriptor.                                          *)
CallbacksLive ==
  \A fd \in DOMAIN handles_, ev \in Events :
    handles_[fd][ev] # Null =>
      /\ handles_[fd][ev] \in DOMAIN waits \ orphans
      /\ waits[handles_[fd][ev]] = [fd |-> fd, event |-> ev]

(* The callbacks are exactly the frames that wait: besides, a suspended    *)
(* frame whose file is open is the callback of its own slot, through any   *)
(* order of waits, drops, closes and reuses of a number.                   *)
CallbacksMatchWaits ==
  /\ CallbacksLive
  /\ \A f \in DOMAIN waits \ orphans :
       /\ Registered(waits[f].fd)
       /\ handles_[waits[f].fd][waits[f].event] = f

(* No one-shot mask stays spent: the kernel watches every event somebody   *)
(* waits for, unless poll() has still to call one of the descriptor's      *)
(* callbacks, whose end will MOD the mask again. In particular the report  *)
(* of one direction does not silence the other.                            *)
Pending(fd) ==
  \E i \in DOMAIN batch :
    /\ batch[i].fd = fd
    /\ batch[i].events \cap Interest(handles_[fd]) # {}

MaskArmed ==
  pc # "crashed" =>
    \A fd \in DOMAIN handles_ :
      armed[fd] = Interest(handles_[fd]) \/ Pending(fd)

(* A frame does not wait for ever on a descriptor that stays ready for it. *)
Starving(f) == /\ Suspended(f)
               /\ f \notin orphans
               /\ waits[f].event \in ready[waits[f].fd]

ReadyWaitersResume == \A f \in Frames : []<>~Starving(f)
=============================================================================
