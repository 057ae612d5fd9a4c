----------------------------- MODULE Coroutines -----------------------------
(***************************************************************************)
(* coroutine/task.hpp, when_any.hpp and when_all.hpp: how control and the  *)
(* life of frames move through a tree of tasks; and the retry loops of     *)
(* io/async_file.cpp, which are such trees.                                *)
(*                                                                         *)
(* A node of the tree is one coroutine of the program: the wrapper of      *)
(* run_task() at the root, tasks that co_await one expression after the    *)
(* other, the calls of when_any and when_all, and the leaves that wait for *)
(* the poller or a timer. The tasks named in an expression are temporaries *)
(* of the task that evaluates it, destroyed when it goes on, or parameters *)
(* of that task, destroyed with it. A combinator has besides one helper    *)
(* frame for each of its arguments.                                        *)
(*                                                                         *)
(* One action is one stretch of a coroutine, from a resume to its next     *)
(* suspension, where control goes to another frame (symmetric transfer) or *)
(* returns to the resume() that started the stretch: the loop of a         *)
(* combinator that is starting its helpers, or the event loop.             *)
(***************************************************************************)
EXTENDS Integers, Sequences, FiniteSets

CONSTANTS
  Trees,     \* the programs, one of which is run
  Root,      \* the node of auto_destory()
  Nobody,    \* std::noop_coroutine(), or no coroutine is running
  MaxTries   \* bound: how often a file operation is tried

Leaves == {"event", "timer", "now", "fail"}
Bodies == {"task", "io"}
Combinators == {"any", "all"}

(* The frames of a program: one of each node, and the helpers.             *)
FramesOfTree(t) ==
  {<<n, 0>> : n \in DOMAIN t.kind} \cup
  UNION {{<<n, i>> : i \in DOMAIN t.subs[n]} :
           n \in {m \in DOMAIN t.kind : t.kind[m] \in Combinators}}

(* A file operation waits for the file, or for the file and a timer under  *)
(* when_any; nothing else is made for it.                                  *)
IsWait(t, n) ==
  LET e == t.subs[n][1] IN
  /\ \/ t.kind[e] = "event"
     \/ /\ t.kind[e] = "any" /\ Len(t.subs[e]) = 2
        /\ t.kind[t.subs[e][1]] = "event" /\ t.kind[t.subs[e][2]] = "timer"
  /\ \A m \in DOMAIN t.kind :
       n \in t.above[m] =>
         /\ t.stmt[m] = 1
         /\ m = e \/ (\E i \in DOMAIN t.subs[e] : m = t.subs[e][i])

(* above: the nodes on the way from the root to a node, of which the       *)
(* innermost task is the owner; a frame is destroyed with those it owns.   *)
IsRooted(t) ==
  LET Node == DOMAIN t.kind
      IsBody(n) == t.kind[n] \in Bodies \cup {"run"}
  IN
  /\ t.above[Root] = {}
  /\ \A n \in Node : \A i \in DOMAIN t.subs[n] :
       LET m == t.subs[n][i] IN
       /\ t.above[m] = t.above[n] \cup {n}
       /\ \A x \in Node : \A j \in DOMAIN t.subs[x] : t.subs[x][j] = m => x = n /\ j = i
  /\ \A n \in Node :
       /\ n # Root =>
            /\ \E x \in Node : \E i \in DOMAIN t.subs[x] : t.subs[x][i] = n
            /\ t.owner[n] \in t.above[n] /\ t.stmt[n] \in 0 .. Len(t.subs[t.owner[n]])
       /\ n \notin t.above[n] /\ t.above[n] \subseteq Node
       /\ \A x \in t.above[n] :
            /\ t.above[x] \subseteq t.above[n]
            /\ IsBody(x) => x = t.owner[n] \/ x \in t.above[t.owner[n]]
       /\ t.inside[n] = {x \in Node : x = n \/ (IsBody(n) /\ n \in t.above[x])}

(* subs: the expressions of a task in order, or the arguments of a         *)
(* combinator; owner and stmt: the task, and its statement, of which the   *)
(* node is a temporary, or 0 for a parameter of the task; inside: what is  *)
(* destroyed with a node.                                                  *)
IsTree(t) ==
  LET Node == DOMAIN t.kind IN
  /\ IsFiniteSet(Node) /\ Root \in Node /\ IsRooted(t)
  /\ t.owner[Root] = Root /\ t.stmt[Root] = 0
  /\ t.kind \in [Node -> Leaves \cup Bodies \cup Combinators \cup {"run"}]
  /\ \A n \in Node :
       /\ t.kind[n] = "run" <=> n = Root
       /\ t.subs[n] \in Seq(Node)
       /\ t.kind[n] \in Leaves => t.subs[n] = <<>>
       /\ t.kind[n] \in {"run", "io"} => Len(t.subs[n]) = 1
       /\ t.kind[n] \in {"task", "all"} => t.subs[n] # <<>>
       /\ t.kind[n] = "io" => IsWait(t, n)
       /\ t.owner[n] \in Node /\ t.stmt[n] \in Nat
       /\ t.kind[t.owner[n]] \in Bodies \cup {"run"}
       /\ t.stmt[n] = 0 /\ n # Root => t.stmt[t.owner[n]] # 0
       /\ \A i \in DOMAIN t.subs[n] :
            LET m == t.subs[n][i] IN
            /\ m # Root
            /\ t.kind[n] \in Combinators
                 => t.owner[m] = t.owner[n] /\ t.stmt[m] \in {0, t.stmt[n]}
            /\ t.kind[n] \notin Combinators
                 => t.owner[m] = n /\ t.stmt[m] = i

ASSUME TreesAssumption ==
  /\ \A t \in Trees : IsTree(t) /\ Nobody \notin (DOMAIN t.kind) \X Nat
  /\ MaxTries \in Nat \ {0}

VARIABLES
  tree,      \* the program
  state,     \* frame -> "none" | "fresh" | "suspended" | "done" | "freed"
  prev,      \* frame -> previous_handle_
  outcome,   \* frame -> what its promise holds
  at,        \* node -> statement, try or helper it has come to
  index,     \* when_any -> WhenAnyResult::index, 0 for size_t(-1)
  count,     \* when_all -> complete_count
  armed,     \* leaf frames whose handle the poller or the timer holds
  running,   \* the frame that control goes to, or Nobody
  loops      \* combinators whose await_suspend() is resuming helpers

vars == <<tree, state, prev, outcome, at, index, count, armed, running, loops>>
-----------------------------------------------------------------------------
Kind(n) == tree.kind[n]
Subs(n) == tree.subs[n]
Frames == FramesOfTree(tree)
Frame(n) == <<n, 0>>
Helpers(n) == {<<n, i>> : i \in DOMAIN Subs(n)}

(* The frames destroyed with node n, and at the end of its statement; the  *)
(* nodes a statement makes, its tasks with their parameters.               *)
FramesIn(n) == {f \in Frames : f[1] \in tree.inside[n]}
Stmt(n) == IF Kind(n) = "io" THEN 1 ELSE at[n]
Awaited(n) == Subs(n)[Stmt(n)]
Temporaries(n, k) ==
  {m \in DOMAIN tree.kind \ {Root} : tree.owner[m] = n /\ tree.stmt[m] = k}
Made(n, k) == Temporaries(n, k) \cup UNION {Temporaries(m, 0) : m \in Temporaries(n, k)}

DestroyWinnerOnly(n) == FramesIn(Awaited(n))  \* mutant
StatementFrames(n) == UNION {FramesIn(m) : m \in Temporaries(n, Stmt(n))}

Init ==
  /\ tree \in Trees
  /\ LET F == FramesOfTree(tree)  Node == DOMAIN tree.kind IN
     /\ state = [f \in F |-> IF f \in {Frame(n) : n \in {Root} \cup Made(Root, 1)}
                             THEN "fresh" ELSE "none"]
     /\ prev = [f \in F |-> Nobody]
     /\ outcome = [f \in F |-> "none"]
     /\ at = [n \in Node |-> 0]
     /\ index = [n \in Node |-> 0]
     /\ count = [n \in Node |-> 0]
  /\ armed = {}
  /\ running = Frame(Root)   \* run_task(): handle.resume()
  /\ loops = <<>>

(* Frame f comes to s; before, freed are destroyed and made are created.   *)
(* ~PollerPromise and ~TimerPromise take their handles back.               *)
LeavesHandles(freed) == armed  \* mutant
TakesHandlesBack(freed) == armed \ freed

Become(f, s, freed, made) ==
  /\ state' = [g \in Frames |->
                 IF g = f THEN s
                 ELSE IF g \in made THEN "fresh"
                 ELSE IF g \in freed /\ state[g] # "none" THEN "freed" ELSE state[g]]
  /\ armed' = TakesHandlesBack(freed)

Entered(f) == running = f /\ state[f] = "fresh"
Resumed(f) == running = f /\ state[f] = "suspended"

(* The end of a coroutine: locals are destroyed, the promise keeps the     *)
(* result or the exception, final_suspend() transfers to previous_handle_. *)
FinishTo(f, result, freed, next) ==
  /\ Become(f, "done", freed, {})
  /\ outcome' = [outcome EXCEPT ![f] = result]
  /\ running' = next

Finish(f, result, freed) == FinishTo(f, result, freed, prev[f])

-----------------------------------------------------------------------------
(* Tasks: co_await of an expression (Task::Awaiter), its end, the return.  *)
Await(n, k, freed) ==
  LET e == Subs(n)[IF Kind(n) = "io" THEN 1 ELSE k]
      made == {Frame(m) : m \in Made(n, tree.stmt[e])}
  IN  /\ Become(Frame(n), "suspended", freed, made)
      /\ outcome' = [f \in Frames |-> IF f \in made THEN "none" ELSE outcome[f]]
      /\ prev' = [prev EXCEPT ![Frame(e)] = Frame(n)]
      /\ at' = [at EXCEPT ![n] = k]
      /\ running' = Frame(e)
      /\ UNCHANGED <<tree, index, count, loops>>

StartTask(n) ==
  /\ Kind(n) \in Bodies \cup {"run"}
  /\ Entered(Frame(n))
  /\ Await(n, 1, {})

NextStatement(n) ==
  /\ Kind(n) = "task"
  /\ Resumed(Frame(n))
  /\ outcome[Frame(Awaited(n))] # "thrown"
  /\ at[n] < Len(Subs(n))
  /\ Await(n, at[n] + 1, StatementFrames(n))

Return(n, result) ==
  /\ Finish(Frame(n), result, StatementFrames(n))
  /\ UNCHANGED <<tree, prev, at, index, count, loops>>

ReturnTask(n) ==
  /\ Kind(n) = "task"
  /\ Resumed(Frame(n))
  /\ outcome[Frame(Awaited(n))] # "thrown"
  /\ at[n] = Len(Subs(n))
  /\ Return(n, "value")

(* await_resume() rethrows, unhandled_exception() catches. *)
Propagate(n) ==
  /\ Kind(n) \in Bodies
  /\ Resumed(Frame(n))
  /\ outcome[Frame(Awaited(n))] = "thrown"
  /\ Return(n, "thrown")

(* async_read, async_write, async_accept and async_connect: wait for the   *)
(* file, or under when_any for the file and a timer; the call may say      *)
(* EAGAIN, and all is done again with a new timer.                         *)
TimedOut(n) == index[Awaited(n)] = 2

Waited(n) ==
  /\ Kind(n) = "io"
  /\ Resumed(Frame(n))
  /\ outcome[Frame(Awaited(n))] # "thrown"

Retry(n) ==
  /\ Waited(n) /\ ~TimedOut(n)
  /\ at[n] < MaxTries
  /\ Await(n, at[n] + 1, StatementFrames(n))

ReturnIo(n) ==
  /\ Waited(n)
  /\ Return(n, IF TimedOut(n) THEN "timeout" ELSE "value")

(* auto_destory(): the wrapper destroys itself, and with it the task; an   *)
(* exception that comes as far as this ends the process.                   *)
WrapperAlone == {Frame(Root)}  \* mutant
WrapperAndTask == FramesIn(Root)

EndRun ==
  /\ Resumed(Frame(Root))
  /\ outcome[Frame(Subs(Root)[1])] # "thrown"
  /\ Become(Frame(Root), "freed", WrapperAndTask, {})
  /\ outcome' = [outcome EXCEPT ![Frame(Root)] = "value"]
  /\ running' = Nobody
  /\ UNCHANGED <<tree, prev, at, index, count, loops>>

Terminate ==
  /\ Resumed(Frame(Root))
  /\ outcome[Frame(Subs(Root)[1])] = "thrown"
  /\ outcome' = [outcome EXCEPT ![Frame(Root)] = "thrown"]
  /\ running' = Nobody
  /\ UNCHANGED <<tree, state, prev, at, index, count, armed, loops>>

-----------------------------------------------------------------------------
(* Leaves. The event loop calls the handle of an armed leaf; the poller    *)
(* keeps the handle until ~PollerPromise, the timers have popped theirs.   *)
SuspendLeaf(n) ==
  /\ Kind(n) \in Leaves \ {"now"}
  /\ Entered(Frame(n))
  /\ state' = [state EXCEPT ![Frame(n)] = "suspended"]
  /\ armed' = armed \cup {Frame(n)}
  /\ running' = Nobody
  /\ UNCHANGED <<tree, prev, outcome, at, index, count, loops>>

EndLeaf(n) ==
  /\ Kind(n) \in Leaves
  /\ IF Kind(n) = "now" THEN Entered(Frame(n)) ELSE Resumed(Frame(n))
  /\ Finish(Frame(n), IF Kind(n) = "fail" THEN "thrown" ELSE "value", {})
  /\ UNCHANGED <<tree, prev, at, index, count, loops>>

Event(n) ==
  /\ running = Nobody /\ loops = <<>>
  /\ outcome[Frame(Root)] = "none"
  /\ Frame(n) \in armed
  /\ armed' = IF Kind(n) = "event" THEN armed ELSE armed \ {Frame(n)}
  /\ running' = Frame(n)
  /\ UNCHANGED <<tree, state, prev, outcome, at, index, count, loops>>

-----------------------------------------------------------------------------
(* when_any and when_all *)
PreviousOfHelper(n) == IF Kind(n) = "any" THEN Frame(n) ELSE Nobody

OnlyTheLast(n) == Len(Subs(n))  \* mutant
FirstResumed(n) == 1

(* The helpers are created; await_suspend() resumes all but the last one   *)
(* and transfers to the last.                                              *)
StartCombinator(n) ==
  /\ Kind(n) \in Combinators
  /\ Subs(n) # <<>>
  /\ Entered(Frame(n))
  /\ Become(Frame(n), "suspended", {}, Helpers(n))
  /\ outcome' = [f \in Frames |-> IF f \in Helpers(n) THEN "none" ELSE outcome[f]]
  /\ prev' = [f \in Frames |-> IF f \in Helpers(n) THEN PreviousOfHelper(n) ELSE prev[f]]
  /\ at' = [at EXCEPT ![n] = FirstResumed(n)]
  /\ index' = [index EXCEPT ![n] = 0]
  /\ count' = [count EXCEPT ![n] = 0]
  /\ running' = <<n, FirstResumed(n)>>
  /\ loops' = IF FirstResumed(n) = Len(Subs(n)) THEN loops ELSE Append(loops, n)
  /\ UNCHANGED tree

ResumeNext(n) ==
  LET i == at[n] + 1 IN
  /\ running = Nobody
  /\ loops # <<>> /\ loops[Len(loops)] = n
  /\ state[Frame(n)] = "suspended"
  /\ at' = [at EXCEPT ![n] = i]
  /\ loops' = IF i = Len(Subs(n)) THEN SubSeq(loops, 1, Len(loops) - 1) ELSE loops
  /\ running' = <<n, i>>
  /\ UNCHANGED <<tree, state, prev, outcome, index, count, armed>>

(* when_any of an empty vector *)
ReturnEmpty(n) ==
  /\ Kind(n) = "any" /\ Subs(n) = <<>>
  /\ Entered(Frame(n))
  /\ index' = [index EXCEPT ![n] = 0]
  /\ Finish(Frame(n), "value", {})
  /\ UNCHANGED <<tree, prev, at, count, loops>>

StartHelper(n, i) ==
  /\ Entered(<<n, i>>)
  /\ state' = [state EXCEPT ![<<n, i>>] = "suspended"]
  /\ prev' = [prev EXCEPT ![Frame(Subs(n)[i])] = <<n, i>>]
  /\ running' = Frame(Subs(n)[i])
  /\ UNCHANGED <<tree, outcome, at, index, count, armed, loops>>

EndAnyHelper(n, i) ==
  /\ Kind(n) = "any"
  /\ Resumed(<<n, i>>)
  /\ outcome[Frame(Subs(n)[i])] # "thrown"
  /\ index' = [index EXCEPT ![n] = i]
  /\ Finish(<<n, i>>, "value", {})
  /\ UNCHANGED <<tree, prev, at, count, loops>>

(* The helper that completes the count gets the parent as its previous     *)
(* handle; the others return to whoever resumed them.                      *)
LastButOne(n) == count[n] + 2 >= Len(Subs(n))  \* mutant

CountBeforeIncrement(n) == count[n] = Len(Subs(n))  \* mutant

LastOfAll(n) == count[n] + 1 = Len(Subs(n))

EndAllHelper(n, i) ==
  /\ Kind(n) = "all"
  /\ Resumed(<<n, i>>)
  /\ outcome[Frame(Subs(n)[i])] # "thrown"
  /\ count' = [count EXCEPT ![n] = @ + 1]
  /\ LET next == IF LastOfAll(n) THEN Frame(n) ELSE prev[<<n, i>>] IN
     /\ prev' = [prev EXCEPT ![<<n, i>>] = next]
     /\ FinishTo(<<n, i>>, "value", {}, next)
  /\ UNCHANGED <<tree, at, index, loops>>

(* The promise of the helper keeps the exception; nobody asks for it. *)
FailHelper(n, i) ==
  /\ Resumed(<<n, i>>)
  /\ outcome[Frame(Subs(n)[i])] = "thrown"
  /\ Finish(<<n, i>>, "thrown", {})
  /\ UNCHANGED <<tree, prev, at, index, count, loops>>

EndCombinator(n) ==
  /\ Kind(n) \in Combinators
  /\ Resumed(Frame(n))
  /\ Finish(Frame(n), "value", Helpers(n))
  /\ UNCHANGED <<tree, prev, at, index, count, loops>>

-----------------------------------------------------------------------------
Nodes == UNION {DOMAIN t.kind : t \in Trees}

Body(n) ==
  \/ StartTask(n)
  \/ NextStatement(n)
  \/ ReturnTask(n)
  \/ Propagate(n)
  \/ Retry(n)
  \/ ReturnIo(n)
Leaf(n) == SuspendLeaf(n) \/ EndLeaf(n)
Helper(n, i) ==
  \/ StartHelper(n, i)
  \/ EndAnyHelper(n, i)
  \/ EndAllHelper(n, i)
  \/ FailHelper(n, i)
Combinator(n) ==
  \/ StartCombinator(n)
  \/ ResumeNext(n)
  \/ ReturnEmpty(n)
  \/ EndCombinator(n)
  \/ \E i \in DOMAIN Subs(n) : Helper(n, i)

Run ==
  \/ EndRun
  \/ Terminate
  \/ \E n \in DOMAIN tree.kind : Body(n) \/ Leaf(n) \/ Combinator(n)

Next == Run \/ \E n \in DOMAIN tree.kind : Event(n)

Spec == Init /\ [][Next]_vars

(* A thread goes on with its code; what a leaf waits for happens at last,  *)
(* and the event loop calls its handle.                                    *)
FairSpec ==
  /\ Spec
  /\ WF_vars(Run)
  /\ \A n \in Nodes : WF_vars(n \in DOMAIN tree.kind /\ Event(n))
-----------------------------------------------------------------------------
(* Every variable has its type; only leaves are armed, and none of them is *)
(* destroyed or not yet waiting.                                           *)
TypeOK ==
  /\ tree \in Trees
  /\ state \in [Frames -> {"none", "fresh", "suspended", "done", "freed"}]
  /\ prev \in [Frames -> Frames \cup {Nobody}]
  /\ outcome \in [Frames -> {"none", "value", "thrown", "timeout"}]
  /\ DOMAIN at = DOMAIN tree.kind /\ DOMAIN index = DOMAIN at /\ DOMAIN count = DOMAIN at
  /\ \A n \in DOMAIN at :
       /\ at[n] \in 0 .. (IF Kind(n) = "io" THEN MaxTries ELSE Len(Subs(n)))
       /\ index[n] \in 0 .. Len(Subs(n))
       /\ count[n] \in 0 .. Len(Subs(n))
  /\ armed \subseteq {f \in Frames : /\ Kind(f[1]) \in Leaves
                                   /\ state[f] \in {"suspended", "done"}}
  /\ running \in Frames \cup {Nobody}
  /\ loops \in Seq({n \in DOMAIN tree.kind : Kind(n) \in Combinators})

(* What can end in the same go as it begins, without an event.             *)
Quick(t, quick) ==
  {n \in DOMAIN t.kind :
     LET args == {t.subs[n][i] : i \in DOMAIN t.subs[n]} IN
     \/ t.kind[n] = "now"
     \/ t.kind[n] = "any" /\ (args = {} \/ args \cap quick # {})
     \/ t.kind[n] \in Bodies \cup {"all"} /\ args \subseteq quick}

EndsAtOnce(t) ==
  {n \in DOMAIN t.kind : \A S \in SUBSET DOMAIN t.kind : Quick(t, S) \subseteq S => n \in S}

(* What the code asks of a program: of the arguments of when_any none but  *)
(* the last ends at once, or the parent is resumed inside the loop of      *)
(* await_suspend() (when_any.hpp:24); under when_all there is no wait for  *)
(* the poller, which keeps the handle of a frame that has ended, and no    *)
(* when_any, whose losers would stay (when_any.hpp:66); and a parameter of *)
(* a task, which lives as long as the task, is given to a when_all that    *)
(* the task awaits.                                                        *)
SafeTree(t) ==
  \A n \in DOMAIN t.kind : \A i \in DOMAIN t.subs[n] :
    LET m == t.subs[n][i] IN
    /\ t.kind[n] = "any" => (i < Len(t.subs[n]) => m \notin EndsAtOnce(t))
    /\ t.kind[n] = "all" => t.kind[m] \notin {"any", "event"}
    /\ t.stmt[m] = 0 =>
         /\ t.kind[n] = "all"
         /\ \A x \in DOMAIN t.kind : t.kind[x] \in Combinators =>
              \A j \in DOMAIN t.subs[x] : t.subs[x][j] # n

(* What may end with an exception; an argument of when_all must not, for   *)
(* then it is never complete, and its awaiter waits for ever               *)
(* (when_all.hpp:39).                                                      *)
Throws(t, thrown) ==
  {n \in DOMAIN t.kind :
     \/ t.kind[n] = "fail"
     \/ /\ t.kind[n] \in Bodies \cup {"run"}
        /\ \E i \in DOMAIN t.subs[n] : t.subs[n][i] \in thrown}

MayThrow(t) ==
  {n \in DOMAIN t.kind : \A S \in SUBSET DOMAIN t.kind : Throws(t, S) \subseteq S => n \in S}

AllSucceed(t) ==
  \A n \in DOMAIN t.kind : t.kind[n] = "all" =>
    \A i \in DOMAIN t.subs[n] : t.subs[n][i] \notin MayThrow(t)

(* Control never comes to a dead coroutine. Whoever is resumed - by the    *)
(* poller, a timer, a previous_handle_ or a combinator - exists and has    *)
(* not ended, and the awaiter of a combinator that is still resuming its   *)
(* helpers, whose loop reads the tasks of the combinator, has not been     *)
(* left by its coroutine.                                                  *)
ControlLive ==
  /\ running # Nobody => state[running] \in {"fresh", "suspended"}
  /\ \A i \in DOMAIN loops :
       /\ state[Frame(loops[i])] = "suspended"
       /\ running # Frame(loops[i])

(* What f waits for when it is suspended. *)
AwaitedBy(f) ==
  LET n == f[1] IN
  IF f[2] > 0 THEN {Frame(Subs(n)[f[2]])}
  ELSE IF Kind(n) \in Combinators THEN Helpers(n)
  ELSE IF Kind(n) \in Leaves THEN {} ELSE {Frame(Awaited(n))}

(* Whenever the event loop has control, a suspended frame is reached from  *)
(* run_task() through suspended frames: it waits for an armed leaf or for  *)
(* another suspended frame, and its previous_handle_ is alive and waits    *)
(* for it. So a loser is gone when its winner's statement is over, and     *)
(* run_task() leaves nothing behind when its task has returned.            *)
Idle == running = Nobody /\ loops = <<>> /\ outcome[Frame(Root)] # "thrown"

OnlyAwaitedFramesRemain ==
  Idle =>
    \A f \in Frames :
      /\ state[f] = "suspended" =>
           /\ IF Kind(f[1]) \in Leaves THEN f \in armed
              ELSE \E g \in AwaitedBy(f) : state[g] = "suspended"
           /\ f # Frame(Root) =>
                \E g \in Frames :
                  /\ state[g] = "suspended" /\ f \in AwaitedBy(g)
                  /\ prev[f] \in {g, Nobody}
                  /\ prev[f] = Nobody => Kind(g[1]) = "all" /\ g[2] = 0
      /\ state[f] = "fresh" => f[2] = 0 /\ tree.stmt[f[1]] = 0
      /\ state[Frame(Root)] = "freed" => state[f] \in {"none", "freed"}

(* A wait for the poller that never ran is not destroyed: ~PollerPromise   *)
(* reads fields that only await_suspend() sets.                            *)
StartedBeforeDestroyed ==
  [][\A f \in Frames :
       state[f] = "fresh" /\ Kind(f[1]) = "event" => state'[f] # "freed"]_vars

(* The awaiter of a when_all is resumed by the end of the last of its      *)
(* helpers: a helper that ends and gives it control leaves none behind.    *)
LastEndResumes ==
  [][\A n \in DOMAIN tree.kind : \A h \in Helpers(n) :
       Kind(n) = "all" /\ running = h /\ state'[h] = "done" /\ running' = Frame(n)
         => \A g \in Helpers(n) : state'[g] \in {"done", "freed"}]_vars

(* The frames, handles and counters implement structured concurrency.      *)
PhaseOf(n) ==
  LET f == Frame(n) IN
  IF outcome[f] # "none" THEN outcome[f]
  ELSE CASE state[f] = "none" -> "idle"
         [] state[f] = "freed" -> "dropped"
         [] OTHER -> "open"

Structured == INSTANCE StructuredTasks WITH
  phase <- [n \in DOMAIN tree.kind |-> PhaseOf(n)],
  at <- [n \in DOMAIN tree.kind |-> IF Kind(n) \in Combinators THEN 0 ELSE at[n]]

ImplementsStructuredTasks == Structured!Spec

(* The task of run_task() returns if its leaves end, unless an exception   *)
(* reaches run_task(): nobody waits for a frame that cannot go on.         *)
RunReturns ==
  <>(state[Frame(Root)] = "freed" \/ outcome[Frame(Root)] = "thrown")
=============================================================================
