-------------------------------- MODULE Loop --------------------------------
(***************************************************************************)
(* io/loop.hpp: Loop<POLLER>, the loop with either of its pollers. The     *)
(* template parameter is chosen once; the loop then runs the application's *)
(* coroutines and the poll() of that poller only: EPollLoop is the module  *)
(* EPollPoller and SelectLoop the module SelectPoller.                     *)
(***************************************************************************)
EXTENDS EPollPoller

CONSTANTS
  SelectFrames,  \* frames of waiting_for_event() in a SelectLoop
  MaxRehashes    \* bound: how often SelectPoller's handles_ is rehashed in a walk

VARIABLES
  POLLER,  \* "EPollPoller" | "SelectPoller"
  files, select_handles_, sets, max_fd_, select_ready, chosen, todo, behind,
  entry, rehashes, select_waits, select_orphans, select_pc

Select == INSTANCE SelectPoller WITH
  Frames <- SelectFrames, handles_ <- select_handles_, ready <- select_ready,
  waits <- select_waits, orphans <- select_orphans, pc <- select_pc

ASSUME LoopAssumption == Select!SelectAssumption

selectVars ==
  <<files, select_handles_, sets, max_fd_, select_ready, chosen, todo, behind,
    entry, rehashes, select_waits, select_orphans, select_pc>>
loopVars == <<POLLER, vars, selectVars>>

LoopInit ==
  /\ POLLER \in {"EPollPoller", "SelectPoller"}
  /\ Init
  /\ Select!Init

EPollLoop(A) == POLLER = "EPollPoller" /\ A /\ UNCHANGED <<POLLER, selectVars>>
SelectLoop(A) == POLLER = "SelectPoller" /\ A /\ UNCHANGED <<POLLER, vars>>

LoopNext == EPollLoop(Next) \/ SelectLoop(Select!Next)

(* Coroutines suspend at last and run() polls for ever. *)
LoopSpec ==
  /\ LoopInit
  /\ [][LoopNext]_loopVars
  /\ WF_loopVars(EPollLoop(Yield)) /\ WF_loopVars(EPollLoop(Poll))
-----------------------------------------------------------------------------
(* Every variable of SelectPoller has its type. *)
SelectTypeOK == Select!TypeOK

(* In a SelectLoop no handler takes the entry at which poll() stands out   *)
(* of handles_, even one that closes the file it is called for: unlike     *)
(* that of EPollPoller, the iterator that poll() goes on to use is valid.  *)
SelectIteratorValid == Select!IteratorValid

(* In a SelectLoop, whatever handlers do while poll() walks over handles_, *)
(* its callbacks and the fd_sets are exactly the frames that wait for an   *)
(* open file: pselect() is never given a closed descriptor.                *)
SelectCallbacksMatchWaits == Select!CallbacksMatchWaits
=============================================================================
