-------------------- MODULE Coroutines_control_proofs --------------------
(***************************************************************************)
(* The theorems about Coroutines that rest on where control is: for every  *)
(* program that keeps the rules of SafeTree, in every order in which its   *)
(* waits may end and be cancelled, whoever has control is a coroutine that *)
(* can run, a wait that has not begun is not destroyed, what remains when  *)
(* the event loop has control is awaited; and the frames do what           *)
(* StructuredTasks says.                                                   *)
(***************************************************************************)
EXTENDS Coroutines_proofs, WellFoundedInduction

-----------------------------------------------------------------------------
(* Control. The frame that awaits the ith argument of q, which is a helper *)
(* of a combinator, or else the task itself; and what the task n awaits.   *)
ParentOf(t, q, i) == IF q \in Combs(t) THEN <<q, i>> ELSE Frame(q)
Current(t, a, n) == IF t.kind[n] = "io" THEN 1 ELSE a[n]
BodiesOf(t) == {n \in NodesOf(t) : t.kind[n] \in Bodies \cup {"run"}}
Alive == {"fresh", "suspended"}

(* A suspended coroutine has its awaiter as previous_handle_, suspended as *)
(* well; only the losers of a when_any that has ended have none left.      *)
ParentsWait(t, st, p) ==
  \A q \in NodesOf(t) : \A i \in DOMAIN t.subs[q] :
    st[Frame(t.subs[q][i])] = "suspended" =>
      \/ st[ParentOf(t, q, i)] = "suspended" /\ p[Frame(t.subs[q][i])] = ParentOf(t, q, i)
      \/ t.kind[q] = "any" /\ st[Frame(q)] = "done"

HelpersBelong(t, st, p) ==
  \A q \in Combs(t) : \A i \in DOMAIN t.subs[q] :
    /\ st[Frame(q)] = "suspended" => st[<<q, i>>] \in {"fresh", "suspended", "done"}
    /\ st[<<q, i>>] \in Alive =>
         /\ st[Frame(q)] = "suspended"
         /\ p[<<q, i>>] = IF t.kind[q] = "any" THEN Frame(q) ELSE Nobody

(* Who has control is alive, and its awaiter waits for it.                 *)
ControlComes(t, st, p, run) ==
  run # Nobody =>
    /\ st[run] \in Alive
    /\ \A q \in NodesOf(t) : \A i \in DOMAIN t.subs[q] :
         run = Frame(t.subs[q][i]) =>
           st[ParentOf(t, q, i)] = "suspended" /\ p[run] = ParentOf(t, q, i)

(* Before a combinator, and before a helper, its argument has not begun;   *)
(* a parameter is there as long as its task.                               *)
ArgumentsLast(t, st) ==
  /\ \A q \in Combs(t) : \A i \in DOMAIN t.subs[q] :
       st[Frame(q)] = "fresh" \/ st[<<q, i>>] = "fresh" => st[Frame(t.subs[q][i])] = "fresh"
  /\ \A m \in NodesOf(t) \ {Root} :
       t.stmt[m] = 0 /\ st[Frame(t.owner[m])] \in Alive => st[Frame(m)] \notin {"none", "freed"}

(* The helpers begin in their order.                                       *)
HelpersInTurn(t, st, a, run) ==
  \A q \in Combs(t) : \A i \in DOMAIN t.subs[q] :
    /\ st[Frame(q)] = "suspended" /\ i > a[q] => st[<<q, i>>] = "fresh"
    /\ run = <<q, i>> => i <= a[q]

(* A helper ends after its argument, a when_all after all of them.         *)
ArgumentsEnd(t, st) ==
  \A q \in Combs(t) : \A i \in DOMAIN t.subs[q] :
    /\ st[<<q, i>>] = "done" => st[Frame(t.subs[q][i])] = "done"
    /\ t.kind[q] = "all" /\ st[Frame(q)] = "done" => st[Frame(t.subs[q][i])] \in {"done", "freed"}

(* Of a task's temporaries only those of its statement are there.          *)
OneStatement(t, st, a) ==
  \A m \in NodesOf(t) \ {Root} :
    t.stmt[m] # 0 /\ a[t.owner[m]] # 0 /\ st[Frame(m)] \notin {"none", "freed"} =>
      t.stmt[m] = Current(t, a, t.owner[m])

(* What the promises hold, and what a task has behind it.                  *)
OutcomesKept(t, st, o) ==
  \A f \in FramesOfTree(t) :
    /\ st[f] = "done" => o[f] # "none"
    /\ st[f] \in {"none", "fresh", "suspended"} /\ f # Frame(Root) => o[f] = "none"

StatementsEnded(t, st, a, o) ==
  \A n \in BodiesOf(t) :
    /\ st[Frame(n)] = "suspended" => a[n] # 0
    /\ t.kind[n] = "task" =>
         \A k \in DOMAIN t.subs[n] : k < a[n] => o[Frame(t.subs[n][k])] # "none"

(* Why a suspended coroutine has been resumed.                             *)
ResumedBecause(t, st, a, run) ==
  run # Nobody /\ st[run] = "suspended" =>
    /\ \A n \in BodiesOf(t) :
         run = Frame(n) => a[n] # 0 /\ st[Frame(t.subs[n][Current(t, a, n)])] = "done"
    /\ \A q \in Combs(t) :
         /\ run = Frame(q) /\ t.kind[q] = "any" => \E i \in DOMAIN t.subs[q] : st[<<q, i>>] = "done"
         /\ run = Frame(q) /\ t.kind[q] = "all" => \A i \in DOMAIN t.subs[q] : st[<<q, i>>] = "done"
         /\ \A i \in DOMAIN t.subs[q] : run = <<q, i>> => st[Frame(t.subs[q][i])] = "done"

(* When a wait for the poller or a when_any has ended, control goes up to  *)
(* the task whose statement it is, which destroys it.                      *)
GoesToOwner(t, st, run) ==
  \A m \in NodesOf(t) :
    t.kind[m] \in {"any", "event"} /\ st[Frame(m)] = "done" =>
      /\ run # Nobody /\ st[run] = "suspended" /\ run[1] \in t.above[m]
      /\ run[1] = t.owner[m] \/ (t.kind[run[1]] = "any" /\ t.owner[run[1]] = t.owner[m])

(* A leaf goes on when no combinator is resuming helpers; a timer that has *)
(* called a handle holds it no longer.                                     *)
LeavesAtRest(t, st, arm, lp, run) ==
  \A n \in NodesOf(t) :
    /\ t.kind[n] \in Leaves /\ run = Frame(n) /\ st[run] = "suspended" => lp = <<>>
    /\ Frame(n) \in arm /\ t.kind[n] # "event" => st[Frame(n)] = "suspended" /\ run # Frame(n)

(* The combinators that are resuming helpers wait, each above the next and *)
(* above who has control; and what has ended below them ended at once.     *)
LoopsNested(t, st, a, lp, run) ==
  \A i \in 1 .. Len(lp) :
    /\ st[Frame(lp[i])] = "suspended" /\ a[lp[i]] >= 1
    /\ run # Nobody => run # Frame(lp[i]) /\ (run[1] = lp[i] \/ lp[i] \in t.above[run[1]])
    /\ \A j \in 1 .. Len(lp) : i < j => lp[i] \in t.above[lp[j]]

EndedAtOnce(t, o, lp) ==
  \A i \in 1 .. Len(lp) : \A m \in NodesOf(t) :
    lp[i] \in t.above[m] =>
      o[Frame(m)] # "thrown" /\ (o[Frame(m)] # "none" => m \in EndsAtOnce(t))

(* Below what has not begun nothing is alive.                              *)
NothingBelow(t, st, o) ==
  \A m \in NodesOf(t) : \A n \in t.above[m] :
    st[Frame(n)] \in Unborn => st[Frame(m)] \in Unborn \cup {"freed"} /\ o[Frame(m)] = "none"

FramesWait ==
  /\ ParentsWait(tree, state, prev)
  /\ HelpersBelong(tree, state, prev)
  /\ ArgumentsLast(tree, state)
  /\ ArgumentsEnd(tree, state)
  /\ OneStatement(tree, state, at)
  /\ OutcomesKept(tree, state, outcome)
  /\ StatementsEnded(tree, state, at, outcome)
  /\ NothingBelow(tree, state, outcome)
ControlGoes ==
  /\ ControlComes(tree, state, prev, running)
  /\ HelpersInTurn(tree, state, at, running)
  /\ ResumedBecause(tree, state, at, running)
  /\ GoesToOwner(tree, state, running)
  /\ LeavesAtRest(tree, state, armed, loops, running)
  /\ LoopsNested(tree, state, at, loops, running)
  /\ EndedAtOnce(tree, outcome, loops)

Main == SafeTree(tree) /\ FramesWait /\ ControlGoes
Over == outcome[Frame(Root)] # "none" /\ running = Nobody /\ loops = <<>>
-----------------------------------------------------------------------------
(* What a safe tree is. *)
LEMMA SafeIs ==
  ASSUME tree \in Trees, SafeTree(tree), NEW q \in NodesOf(tree), NEW i \in DOMAIN tree.subs[q]
  PROVE  LET m == tree.subs[q][i] IN
         /\ tree.kind[q] = "any" /\ i < Len(tree.subs[q]) => m \notin EndsAtOnce(tree)
         /\ tree.kind[q] = "all" => tree.kind[m] \notin {"any", "event"}
         /\ tree.stmt[m] = 0 =>
              /\ tree.kind[q] = "all"
              /\ \A x \in Combs(tree) : \A j \in DOMAIN tree.subs[x] : tree.subs[x][j] # q
<1>1. /\ tree.kind[q] = "any" => (i < Len(tree.subs[q]) => tree.subs[q][i] \notin EndsAtOnce(tree))
      /\ tree.kind[q] = "all" => tree.kind[tree.subs[q][i]] \notin {"any", "event"}
      /\ tree.stmt[tree.subs[q][i]] = 0 =>
           /\ tree.kind[q] = "all"
           /\ \A x \in DOMAIN tree.kind : tree.kind[x] \in Combinators =>
                \A j \in DOMAIN tree.subs[x] : tree.subs[x][j] # q
  BY Zenon DEF SafeTree, NodesOf
<1> QED
  BY <1>1 DEF Combs, NodesOf

(* A wait for the poller and a when_any are temporaries. *)
LEMMA WaitMade ==
  ASSUME tree \in Trees, SafeTree(tree), NEW m \in NodesOf(tree),
         tree.kind[m] \in {"any", "event"}
  PROVE  /\ m # Root /\ tree.stmt[m] # 0
         /\ tree.owner[m] \in BodiesOf(tree) /\ tree.owner[m] \in tree.above[m]
<1>1. m # Root
  BY TreeNodes
<1>2. PICK x \in NodesOf(tree) : \E i \in DOMAIN tree.subs[x] : tree.subs[x][i] = m
  BY <1>1, TreeAbove
<1>3. PICK i \in DOMAIN tree.subs[x] : tree.subs[x][i] = m
  BY <1>2
<1>4. tree.stmt[m] # 0
  BY <1>2, <1>3, SafeIs
<1>5. tree.owner[m] \in NodesOf(tree) /\ tree.kind[tree.owner[m]] \in Bodies \cup {"run"}
  BY TreeNodes
<1> QED
  BY <1>1, <1>4, <1>5, TreeAbove DEF BodiesOf

(* The frames of an argument and of its awaiter. *)
LEMMA EdgeIs ==
  ASSUME tree \in Trees, NEW q \in NodesOf(tree), NEW i \in DOMAIN tree.subs[q]
  PROVE  LET m == tree.subs[q][i] IN
         /\ m \in NodesOf(tree) \ {Root} /\ Frame(m) \in FramesOfTree(tree)
         /\ ParentOf(tree, q, i) \in FramesOfTree(tree) /\ ParentOf(tree, q, i) # Frame(m)
         /\ ParentOf(tree, q, i) # Nobody
         /\ ParentOf(tree, q, i)[1] = q
         /\ q \in Combs(tree) => ParentOf(tree, q, i) = <<q, i>> /\ \A x : <<q, i>> # Frame(x)
         /\ q \notin Combs(tree) =>
              /\ ParentOf(tree, q, i) = Frame(q) /\ q \in BodiesOf(tree)
              /\ tree.owner[m] = q /\ tree.stmt[m] = i
         /\ tree.above[m] = tree.above[q] \cup {q} /\ q \notin tree.above[q]
         /\ \A x \in NodesOf(tree) : \A j \in DOMAIN tree.subs[x] : tree.subs[x][j] = m => x = q /\ j = i
<1> DEFINE m == tree.subs[q][i]
<1>1. /\ m \in NodesOf(tree) \ {Root}
      /\ tree.kind[q] \notin Combinators => tree.owner[m] = q /\ tree.stmt[m] = i
  BY TreeSubs
<1>2. /\ tree.above[m] = tree.above[q] \cup {q}
      /\ \A x \in NodesOf(tree) : \A j \in DOMAIN tree.subs[x] : tree.subs[x][j] = m => x = q /\ j = i
  BY TreeEdge
<1>3. q \notin tree.above[q] /\ m \notin tree.above[m]
  BY <1>1, TreeAbove
<1>4. Frame(m) \in FramesOfTree(tree) /\ Frame(q) \in FramesOfTree(tree) /\ Frame(m) # Frame(q)
  BY <1>1, <1>2, <1>3, FrameKinds
<1>5. q \in Combs(tree) => <<q, i>> \in FramesOfTree(tree) /\ \A x : <<q, i>> # Frame(x)
  BY NotAFrame
<1>6. q \notin Combs(tree) => q \in BodiesOf(tree)
  <2>1. SUFFICES ASSUME q \notin Combs(tree) PROVE tree.kind[q] \in Bodies \cup {"run"}
    BY DEF BodiesOf
  <2>2. tree.kind[q] \in Leaves \cup Bodies \cup Combinators \cup {"run"}
    BY TreeNodes
  <2>3. tree.kind[q] \notin Leaves
    <3>1. tree.kind[q] \in Leaves => tree.subs[q] = <<>>
      BY TreeNodes
    <3> QED
      BY <3>1
  <2> QED
    BY <2>1, <2>2, <2>3 DEF Combs
<1>7. Nobody \notin FramesOfTree(tree)
  BY FrameKinds
<1> HIDE DEF m
<1>8. q \in Combs(tree) <=> tree.kind[q] \in Combinators
  BY DEF Combs
<1>9. q \in Combs(tree) => ParentOf(tree, q, i) = <<q, i>>
  BY DEF ParentOf
<1>10. q \notin Combs(tree) => ParentOf(tree, q, i) = Frame(q)
  BY DEF ParentOf
<1>11. ParentOf(tree, q, i)[1] = q
  BY <1>9, <1>10 DEF Frame
<1>12. /\ ParentOf(tree, q, i) \in FramesOfTree(tree) /\ ParentOf(tree, q, i) # Frame(m)
       /\ ParentOf(tree, q, i) # Nobody
  BY <1>4, <1>5, <1>7, <1>9, <1>10
<1> QED
  BY <1>1, <1>2, <1>3, <1>4, <1>5, <1>6, <1>8, <1>9, <1>10, <1>11, <1>12 DEF m

LEMMA KindsApart ==
  ASSUME tree \in Trees
  PROVE  /\ \A n \in BodiesOf(tree) : /\ n \in NodesOf(tree) /\ n \notin Combs(tree)
                                      /\ tree.kind[n] \notin Leaves /\ tree.kind[n] # "any"
                                      /\ tree.kind[n] # "event"
         /\ \A q \in Combs(tree) : /\ q \in NodesOf(tree) /\ q # Root /\ tree.kind[q] \in {"any", "all"}
                                   /\ tree.kind[q] \notin Leaves
         /\ \A n \in NodesOf(tree) : tree.kind[n] \in Leaves => n # Root /\ DOMAIN tree.subs[n] = {}
         /\ \A n \in NodesOf(tree) : n \in BodiesOf(tree) \/ n \in Combs(tree) \/ tree.kind[n] \in Leaves
         /\ Root \in BodiesOf(tree)
<1>1. \A n \in NodesOf(tree) : /\ tree.kind[n] \in Leaves \cup Bodies \cup Combinators \cup {"run"}
                               /\ tree.kind[n] = "run" <=> n = Root
                               /\ tree.kind[n] \in Leaves => tree.subs[n] = <<>>
  BY TreeNodes
<1>2. Root \in NodesOf(tree)
  BY TreesAssumption DEF IsTree, NodesOf
<1>3. DOMAIN <<>> = {}
  OBVIOUS
<1> QED
  BY <1>1, <1>2, <1>3 DEF BodiesOf, Combs, Leaves, Bodies, Combinators

-----------------------------------------------------------------------------
(* What is destroyed when frame f goes on or ends: nothing, the helpers of *)
(* a combinator, or what a statement of a task has made.                   *)
Swept(f, freed) ==
  /\ freed \subseteq FramesOfTree(tree) /\ f \notin freed
  /\ \A m \in NodesOf(tree) : Frame(m) \in freed => f[1] \in tree.above[m]
  /\ \A q \in Combs(tree) : \A i \in DOMAIN tree.subs[q] :
       LET m == tree.subs[q][i] IN
       /\ <<q, i>> \in freed <=> Frame(q) \in freed \/ f = Frame(q)
       /\ Frame(m) \in freed => Frame(q) \in freed
       /\ Frame(q) \in freed /\ Frame(m) \notin freed =>
            /\ tree.stmt[m] = 0 /\ f = Frame(f[1]) /\ f[1] \in BodiesOf(tree)
            /\ tree.owner[q] = f[1] /\ tree.stmt[q] = Current(tree, at, f[1])
  /\ \A q \in BodiesOf(tree) : Frame(q) \in freed =>
       \A i \in DOMAIN tree.subs[q] : Frame(tree.subs[q][i]) \in freed
  /\ \A q \in BodiesOf(tree) : q # f[1] =>
       \A i \in DOMAIN tree.subs[q] : Frame(tree.subs[q][i]) \in freed => Frame(q) \in freed
  /\ \A q \in BodiesOf(tree) : Frame(q) \in freed =>
       \A m \in NodesOf(tree) : q \in tree.above[m] => Frame(m) \in freed
  /\ \A m \in NodesOf(tree) \ {Root} :
       tree.stmt[m] = 0 /\ Frame(m) \in freed => Frame(tree.owner[m]) \in freed

Clears(n, freed) ==
  \A m \in NodesOf(tree) \ {Root} :
    tree.owner[m] = n /\ tree.stmt[m] = Current(tree, at, n) => Frame(m) \in freed

LEMMA SweptNone ==
  ASSUME NEW f, \A q \in Combs(tree) : f = Frame(q) => DOMAIN tree.subs[q] = {}
  PROVE  Swept(f, {})
BY DEF Swept

LEMMA SweptHelpers ==
  ASSUME tree \in Trees, NEW c \in Combs(tree)
  PROVE  Swept(Frame(c), Helpers(c))
<1>1. \A m : Frame(m) \notin Helpers(c)
  BY NotAFrame DEF Helpers, Subs
<1>2. Helpers(c) \subseteq FramesOfTree(tree)
  BY NotAFrame DEF Helpers, Subs
<1>3. \A q \in Combs(tree) : \A i \in DOMAIN tree.subs[q] : <<q, i>> \in Helpers(c) <=> q = c
  BY DEF Helpers, Subs
<1>4. \A q \in Combs(tree) : Frame(c) = Frame(q) <=> q = c
  BY DEF Frame
<1> QED
  BY <1>1, <1>2, <1>3, <1>4 DEF Swept

LEMMA SweptStatement ==
  ASSUME Inv, NEW n \in BodiesOf(tree), Current(tree, at, n) # 0
  PROVE  Swept(Frame(n), StatementFrames(n)) /\ Clears(n, StatementFrames(n))
<1> DEFINE S == StatementFrames(n)
           k == Current(tree, at, n)
           T == Temporaries(n, k)
<1>1. tree \in Trees
  BY InvFacts
<1>2. Stmt(n) = k
  BY DEF Stmt, Current, Kind
<1>3. \A x \in T : x \in NodesOf(tree) \ {Root} /\ tree.owner[x] = n /\ tree.stmt[x] = k
  BY DEF Temporaries, NodesOf
<1>4. \A m \in NodesOf(tree) \ {Root} : tree.owner[m] = n /\ tree.stmt[m] = k => m \in T
  BY DEF Temporaries, NodesOf
<1>5. n \in NodesOf(tree) /\ k # 0
  BY DEF BodiesOf
<1>6. S = UNION {FramesIn(x) : x \in T}
  BY <1>2 DEF StatementFrames
<1> DEFINE In(m) == \E x \in T : m = x \/ (x \in BodiesOf(tree) /\ x \in tree.above[m])
<1>7. \A x \in T : FramesIn(x) \subseteq FramesOfTree(tree)
                /\ tree.inside[x] = {m \in NodesOf(tree) :
                       m = x \/ (x \in BodiesOf(tree) /\ x \in tree.above[m])}
  BY <1>1, <1>3, FramesInIs, TreeAbove DEF BodiesOf
<1>8. S \subseteq FramesOfTree(tree)
  BY <1>6, <1>7
<1>9. \A m \in NodesOf(tree) : Frame(m) \in S <=> In(m)
  <2>1. ASSUME NEW m \in NodesOf(tree) PROVE Frame(m) \in S <=> \E x \in T : m \in tree.inside[x]
    <3>1. \A x \in T : Frame(m) \in FramesIn(x) <=> m \in tree.inside[x]
      BY <1>1, <1>3, FramesInIs
    <3> QED
      BY <1>6, <3>1
  <2> QED
    BY <1>7, <2>1
<1>10. \A q \in Combs(tree) : \A i \in DOMAIN tree.subs[q] : <<q, i>> \in S <=> In(q)
  <2>1. ASSUME NEW q \in Combs(tree), NEW i \in DOMAIN tree.subs[q]
        PROVE  <<q, i>> \in S <=> \E x \in T : q \in tree.inside[x]
    <3>1. \A x \in T : <<q, i>> \in FramesIn(x) <=> q \in tree.inside[x]
      BY <1>1, <1>3, FramesInIs
    <3> QED
      BY <1>6, <3>1
  <2> QED
    BY <1>7, <2>1 DEF Combs
<1> HIDE DEF S, k, T
<1>11. \A m \in NodesOf(tree) : In(m) => n \in tree.above[m]
  <2>1. SUFFICES ASSUME NEW m \in NodesOf(tree), In(m) PROVE n \in tree.above[m]
    OBVIOUS
  <2>2. PICK x \in T : m = x \/ (x \in BodiesOf(tree) /\ x \in tree.above[m])
    BY <2>1
  <2>3. x \in NodesOf(tree) \ {Root} /\ n \in tree.above[x]
    BY <1>1, <1>3, TreeAbove
  <2>4. x \in tree.above[m] => tree.above[x] \subseteq tree.above[m]
    BY <1>1, TreeAbove
  <2> QED
    BY <2>2, <2>3, <2>4
<1>12. ASSUME NEW q \in Combs(tree), NEW i \in DOMAIN tree.subs[q]
       PROVE  LET m == tree.subs[q][i] IN
              /\ In(m) => In(q)
              /\ In(q) /\ ~In(m) => tree.stmt[m] = 0 /\ tree.owner[q] = n /\ tree.stmt[q] = k
  <2> DEFINE m == tree.subs[q][i]
  <2>1. /\ q \in NodesOf(tree) \ {Root} /\ m \in NodesOf(tree) \ {Root}
        /\ tree.above[m] = tree.above[q] \cup {q}
    BY <1>1, EdgeIs, KindsApart
  <2>2. tree.owner[m] = tree.owner[q] /\ tree.stmt[m] \in {0, tree.stmt[q]}
    BY <1>1, <2>1, TreeSubs DEF Combs
  <2> HIDE DEF m
  <2>3. ASSUME In(m) PROVE In(q)
    <3>1. PICK x \in T : m = x \/ (x \in BodiesOf(tree) /\ x \in tree.above[m])
      BY <2>3
    <3>2. CASE m = x
      <4>1. tree.owner[q] = n /\ tree.stmt[q] = k
        BY <1>3, <1>5, <2>2, <3>2
      <4> QED
        BY <1>4, <2>1, <4>1
    <3>3. CASE x \in BodiesOf(tree) /\ x \in tree.above[m]
      <4>1. x # q
        BY <1>1, <3>3, KindsApart
      <4> QED
        BY <2>1, <3>3, <4>1
    <3> QED
      BY <3>1, <3>2, <3>3
  <2>4. ASSUME In(q), ~In(m) PROVE tree.stmt[m] = 0 /\ tree.owner[q] = n /\ tree.stmt[q] = k
    <3>1. PICK x \in T : q = x \/ (x \in BodiesOf(tree) /\ x \in tree.above[q])
      BY <2>4
    <3>2. q = x
      BY <2>1, <2>4, <3>1
    <3>3. tree.owner[q] = n /\ tree.stmt[q] = k
      BY <1>3, <3>2
    <3>4. m \notin T
      BY <2>4
    <3> QED
      BY <1>4, <2>1, <2>2, <3>3, <3>4
  <2> QED
    BY <2>3, <2>4 DEF m
<1>13. ASSUME NEW q \in BodiesOf(tree), In(q), NEW i \in DOMAIN tree.subs[q]
       PROVE  In(tree.subs[q][i])
  <2>1. q \in NodesOf(tree) /\ tree.above[tree.subs[q][i]] = tree.above[q] \cup {q}
    BY <1>1, EdgeIs DEF BodiesOf
  <2> QED
    BY <1>13, <2>1
<1>21. ASSUME NEW q \in BodiesOf(tree), In(q), NEW m \in NodesOf(tree), q \in tree.above[m]
       PROVE  In(m)
  <2>1. PICK x \in T : q = x \/ (x \in BodiesOf(tree) /\ x \in tree.above[q])
    BY <1>21
  <2>2. tree.above[q] \subseteq tree.above[m]
    BY <1>1, <1>21, TreeAbove
  <2> QED
    BY <1>21, <2>1, <2>2
<1>20. ASSUME NEW q \in BodiesOf(tree), q # n, NEW i \in DOMAIN tree.subs[q], In(tree.subs[q][i])
       PROVE  In(q)
  <2>1. /\ q \in NodesOf(tree) /\ q \notin Combs(tree)
        /\ tree.above[tree.subs[q][i]] = tree.above[q] \cup {q}
    BY <1>1, EdgeIs, KindsApart
  <2>2. tree.owner[tree.subs[q][i]] = q
    BY <1>1, <2>1, EdgeIs
  <2>3. PICK x \in T : tree.subs[q][i] = x \/ (x \in BodiesOf(tree) /\ x \in tree.above[tree.subs[q][i]])
    BY <1>20
  <2>4. tree.subs[q][i] # x
    BY <1>3, <1>20, <2>2
  <2> QED
    BY <2>1, <2>3, <2>4
<1>14. ASSUME NEW m \in NodesOf(tree) \ {Root}, tree.stmt[m] = 0, In(m)
       PROVE  In(tree.owner[m]) /\ tree.owner[m] \in NodesOf(tree)
  <2>1. PICK x \in T : m = x \/ (x \in BodiesOf(tree) /\ x \in tree.above[m])
    BY <1>14
  <2>2. x # m /\ x \in NodesOf(tree)
    BY <1>3, <1>5, <1>14
  <2>3. x = tree.owner[m] \/ x \in tree.above[tree.owner[m]]
    BY <1>1, <2>1, <2>2, TreeAbove DEF BodiesOf
  <2> QED
    BY <1>1, <2>1, <2>2, <2>3, TreeNodes
<1>15. ~In(n)
  BY <1>1, <1>5, <1>11, TreeAbove
<1>16. ASSUME NEW m \in NodesOf(tree) \ {Root}, tree.owner[m] = n, tree.stmt[m] = k PROVE In(m)
  BY <1>4, <1>16
<1>17. Frame(n)[1] = n /\ \A q \in Combs(tree) : Frame(n) # Frame(q) /\ q \in NodesOf(tree)
  BY <1>1, KindsApart DEF Frame
<1> HIDE DEF In
<1>18. Swept(Frame(n), S)
  <2>1. Frame(n) \notin S /\ \A m \in NodesOf(tree) : Frame(m) \in S => n \in tree.above[m]
    BY <1>5, <1>9, <1>11, <1>15
  <2>2. ASSUME NEW q \in Combs(tree), NEW i \in DOMAIN tree.subs[q]
        PROVE  LET m == tree.subs[q][i] IN
               /\ <<q, i>> \in S <=> Frame(q) \in S \/ Frame(n) = Frame(q)
               /\ Frame(m) \in S => Frame(q) \in S
               /\ Frame(q) \in S /\ Frame(m) \notin S =>
                    tree.stmt[m] = 0 /\ tree.owner[q] = n /\ tree.stmt[q] = k
    <3>1. q \in NodesOf(tree) /\ tree.subs[q][i] \in NodesOf(tree)
      BY <1>1, <1>17, EdgeIs
    <3> QED
      BY <1>9, <1>10, <1>12, <1>17, <3>1
  <2>3. ASSUME NEW q \in BodiesOf(tree), Frame(q) \in S, NEW i \in DOMAIN tree.subs[q]
        PROVE  Frame(tree.subs[q][i]) \in S
    <3>1. q \in NodesOf(tree) /\ tree.subs[q][i] \in NodesOf(tree)
      BY <1>1, EdgeIs DEF BodiesOf
    <3> QED
      BY <1>9, <1>13, <2>3, <3>1
  <2>4. \A m \in NodesOf(tree) \ {Root} :
          tree.stmt[m] = 0 /\ Frame(m) \in S => Frame(tree.owner[m]) \in S
    BY <1>9, <1>14
  <2>5. ASSUME NEW q \in BodiesOf(tree), q # n, NEW i \in DOMAIN tree.subs[q], Frame(tree.subs[q][i]) \in S
        PROVE  Frame(q) \in S
    <3>1. q \in NodesOf(tree) /\ tree.subs[q][i] \in NodesOf(tree)
      BY <1>1, EdgeIs DEF BodiesOf
    <3> QED
      BY <1>9, <1>20, <2>5, <3>1
  <2>6. ASSUME NEW q \in BodiesOf(tree), Frame(q) \in S, NEW m \in NodesOf(tree), q \in tree.above[m]
        PROVE  Frame(m) \in S
    BY <1>9, <1>21, <2>6 DEF BodiesOf
  <2> QED
    BY <1>8, <1>17, <2>1, <2>2, <2>3, <2>4, <2>5, <2>6 DEF Swept, k
<1>19. Clears(n, S)
  BY <1>9, <1>16 DEF Clears, k
<1> QED
  BY <1>18, <1>19 DEF S

-----------------------------------------------------------------------------
(* What ends at once is closed. *)
LEMMA EndsClosed ==
  ASSUME NEW t, NEW n \in NodesOf(t), n \in Quick(t, EndsAtOnce(t))
  PROVE  n \in EndsAtOnce(t)
<1> SUFFICES ASSUME NEW S \in SUBSET NodesOf(t), Quick(t, S) \subseteq S PROVE n \in S
  BY DEF EndsAtOnce, NodesOf
<1>1. EndsAtOnce(t) \subseteq S
  BY DEF EndsAtOnce, NodesOf
<1>2. n \in Quick(t, S)
  BY <1>1 DEF Quick
<1> QED
  BY <1>2

(* Whoever has control, all above it have begun. *)
LEMMA AllAboveBegun ==
  ASSUME Inv, Main, running # Nobody, NEW y \in tree.above[running[1]]
  PROVE  state[Frame(y)] \notin Unborn
<1>1. tree \in Trees /\ running \in FramesOfTree(tree)
  BY InvFacts
<1>2. \A x \in NodesOf(tree), z \in NodesOf(tree) :
        z \in tree.above[x] /\ state[Frame(x)] = "suspended" => state[Frame(z)] \notin Unborn
  BY DEF Main, FramesWait, NothingBelow, Unborn
<1>3. CASE \E x \in NodesOf(tree) : running = Frame(x)
  <2>1. PICK x \in NodesOf(tree) : running = Frame(x)
    BY <1>3
  <2>2. running[1] = x /\ x # Root /\ y \in NodesOf(tree)
    BY <1>1, <2>1, TreeAbove DEF Frame
  <2>3. PICK q \in NodesOf(tree) : \E i \in DOMAIN tree.subs[q] : tree.subs[q][i] = x
    BY <1>1, <2>2, TreeAbove
  <2>4. PICK i \in DOMAIN tree.subs[q] : tree.subs[q][i] = x
    BY <2>3
  <2>5. state[ParentOf(tree, q, i)] = "suspended"
    BY <2>1, <2>4 DEF Main, ControlGoes, ControlComes
  <2>6. state[Frame(q)] = "suspended"
    <3>1. q \in Combs(tree) => state[<<q, i>>] = "suspended"
      BY <2>5 DEF ParentOf
    <3>2. q \notin Combs(tree) => state[Frame(q)] = "suspended"
      BY <2>5 DEF ParentOf
    <3> QED
      BY <3>1, <3>2 DEF Main, FramesWait, HelpersBelong, Alive
  <2>7. y = q \/ y \in tree.above[q]
    BY <1>1, <2>2, <2>4, EdgeIs
  <2> QED
    BY <1>2, <2>2, <2>6, <2>7 DEF Unborn
<1>4. CASE \E x \in Combs(tree) : \E i \in DOMAIN tree.subs[x] : running = <<x, i>>
  <2>1. PICK x \in Combs(tree) : \E i \in DOMAIN tree.subs[x] : running = <<x, i>>
    BY <1>4
  <2>2. state[running] \in Alive
    BY DEF Main, ControlGoes, ControlComes
  <2>3. state[Frame(x)] = "suspended" /\ x \in NodesOf(tree) /\ running[1] = x
    BY <2>1, <2>2 DEF Main, FramesWait, HelpersBelong, Combs
  <2>4. y \in NodesOf(tree)
    BY <1>1, <2>3, TreeAbove
  <2> QED
    BY <1>2, <2>3, <2>4
<1> QED
  BY <1>1, <1>3, <1>4, FrameKinds

(* A task that has control destroys the wait or the when_any of its        *)
(* statement that has ended, and there is no other.                        *)
LEMMA EndedIsCurrent ==
  ASSUME Inv, Main, NEW n \in BodiesOf(tree), running = Frame(n),
         NEW m \in NodesOf(tree), tree.kind[m] \in {"any", "event"}, state[Frame(m)] = "done"
  PROVE  /\ state[Frame(n)] = "suspended" /\ at[n] # 0
         /\ m # Root /\ tree.owner[m] = n /\ tree.stmt[m] = Current(tree, at, n) /\ tree.stmt[m] # 0
<1>1. tree \in Trees /\ Nobody \notin FramesOfTree(tree)
  BY InvFacts
<1>2. /\ state[running] = "suspended"
      /\ running[1] = tree.owner[m] \/ tree.kind[running[1]] = "any"
  BY DEF Main, ControlGoes, GoesToOwner
<1>3. running[1] = n /\ tree.kind[n] # "any"
  BY <1>1, KindsApart DEF Frame
<1>4. m # Root /\ tree.stmt[m] # 0
  BY <1>1, WaitMade DEF Main
<1>5. at[n] # 0
  BY <1>2 DEF Main, FramesWait, StatementsEnded
<1>6. tree.stmt[m] = Current(tree, at, n)
  BY <1>2, <1>3, <1>4, <1>5 DEF Main, FramesWait, OneStatement
<1> QED
  BY <1>2, <1>3, <1>4, <1>5, <1>6

-----------------------------------------------------------------------------
(* co_await of the statement i of the task n, the kth thing it does.       *)
AwaitIs(n, i, k, freed) ==
  LET e == tree.subs[n][i]
      M == Made(n, i)
  IN
  /\ n \in BodiesOf(tree) /\ i \in DOMAIN tree.subs[n] /\ k \in Nat \ {0}
  /\ i = IF tree.kind[n] = "io" THEN 1 ELSE k
  /\ running = Frame(n) /\ state[Frame(n)] \in Alive
  /\ \/ state[Frame(n)] = "fresh" /\ freed = {} /\ k = 1
     \/ state[Frame(n)] = "suspended" /\ Clears(n, freed) /\ k = at[n] + 1
  /\ Swept(Frame(n), freed)
  /\ e \in M
  /\ \A m \in M :
       /\ m \in NodesOf(tree) \ {Root} /\ n \in tree.above[m]
       /\ tree.stmt[m] # 0 => tree.owner[m] = n /\ tree.stmt[m] = i
       /\ \/ state[Frame(m)] \in Unborn
          \/ /\ Frame(m) \in freed /\ m \notin BodiesOf(tree)
             /\ \A x \in NodesOf(tree) : n \in tree.above[x] => x \in M
  /\ \A m \in NodesOf(tree) \ {Root} :
       /\ tree.owner[m] = n /\ tree.stmt[m] = i => m \in M
       /\ tree.stmt[m] = 0 /\ tree.owner[m] \in M => m \in M
  /\ tree' = tree
  /\ \A m \in NodesOf(tree) :
       state'[Frame(m)] = IF m = n THEN "suspended"
                          ELSE IF m \in M THEN "fresh"
                          ELSE IF Frame(m) \in freed /\ state[Frame(m)] # "none" THEN "freed"
                          ELSE state[Frame(m)]
  /\ \A q \in Combs(tree) : \A j \in DOMAIN tree.subs[q] :
       state'[<<q, j>>] = IF Frame(q) \in freed /\ state[<<q, j>>] # "none" THEN "freed"
                          ELSE state[<<q, j>>]
  /\ \A f \in FramesOfTree(tree) :
       /\ prev'[f] = IF f = Frame(e) THEN Frame(n) ELSE prev[f]
       /\ outcome'[f] = IF f \in {Frame(m) : m \in M} THEN "none" ELSE outcome[f]
  /\ \A m \in NodesOf(tree) : at'[m] = IF m = n THEN k ELSE at[m]
  /\ armed' = armed \ freed
  /\ running' = Frame(e)
  /\ loops' = loops

LEMMA MadeFacts ==
  ASSUME tree \in Trees, NEW n \in NodesOf(tree), NEW i \in Nat \ {0}
  PROVE  /\ \A m \in Made(n, i) :
              /\ m \in NodesOf(tree) \ {Root} /\ n \in tree.above[m]
              /\ tree.stmt[m] # 0 => tree.owner[m] = n /\ tree.stmt[m] = i
         /\ \A m \in NodesOf(tree) \ {Root} :
              /\ tree.owner[m] = n /\ tree.stmt[m] = i => m \in Made(n, i)
              /\ tree.stmt[m] = 0 /\ tree.owner[m] \in Made(n, i) => m \in Made(n, i)
<1>1. ASSUME NEW m \in Made(n, i)
      PROVE  /\ m \in NodesOf(tree) \ {Root} /\ n \in tree.above[m]
             /\ tree.stmt[m] # 0 => tree.owner[m] = n /\ tree.stmt[m] = i
  <2>1. /\ m \in NodesOf(tree) \ {Root} /\ Maker(tree, m) = n
        /\ tree.stmt[m] # 0 => tree.owner[m] = n /\ tree.stmt[m] = i
    BY MadeBy
  <2>2. tree.owner[m] \in tree.above[m] /\ tree.owner[m] \in NodesOf(tree)
    BY <2>1, TreeAbove, TreeNodes
  <2>3. CASE tree.stmt[m] # 0
    BY <2>1, <2>2, <2>3
  <2>4. CASE tree.stmt[m] = 0
    <3>1. tree.owner[tree.owner[m]] = n /\ tree.stmt[tree.owner[m]] # 0
      BY <2>1, <2>4, TreeNodes DEF Maker
    <3>2. tree.owner[m] # Root
      BY <3>1, TreesAssumption DEF IsTree
    <3>3. n \in tree.above[tree.owner[m]]
      BY <2>2, <3>1, <3>2, TreeAbove
    <3> QED
      BY <2>1, <2>2, <2>4, <3>3, TreeAbove
  <2> QED
    BY <2>3, <2>4
<1>2. ASSUME NEW m \in NodesOf(tree) \ {Root}, tree.owner[m] = n, tree.stmt[m] = i
      PROVE  m \in Made(n, i)
  BY <1>2 DEF Made, Temporaries, NodesOf
<1>3. ASSUME NEW m \in NodesOf(tree) \ {Root}, tree.stmt[m] = 0, tree.owner[m] \in Made(n, i)
      PROVE  m \in Made(n, i)
  <2>1. tree.stmt[tree.owner[m]] # 0
    BY <1>3, TreeNodes
  <2>2. tree.owner[m] \in Temporaries(n, i)
    BY <1>1, <1>3, <2>1 DEF Temporaries, NodesOf
  <2>3. m \in Temporaries(tree.owner[m], 0)
    BY <1>3 DEF Temporaries, NodesOf
  <2> QED
    BY <2>2, <2>3 DEF Made
<1> QED
  BY <1>1, <1>2, <1>3

LEMMA AwaitFacts ==
  ASSUME Inv, NEW n \in BodiesOf(tree), running = Frame(n),
         NEW i \in DOMAIN tree.subs[n], NEW k \in Nat \ {0},
         i = IF tree.kind[n] = "io" THEN 1 ELSE k,
         NEW freed, Await(n, k, freed), Swept(Frame(n), freed),
         \/ state[Frame(n)] = "fresh" /\ freed = {} /\ k = 1
         \/ state[Frame(n)] = "suspended" /\ Clears(n, freed) /\ k = at[n] + 1,
         \A m \in Made(n, i) :
           \/ state[Frame(m)] \in Unborn
           \/ /\ Frame(m) \in freed /\ m \notin BodiesOf(tree)
              /\ \A x \in NodesOf(tree) : n \in tree.above[x] => x \in Made(n, i)
  PROVE  AwaitIs(n, i, k, freed)
<1> DEFINE e == tree.subs[n][i]
           M == Made(n, i)
<1>1. /\ tree \in Trees
      /\ state \in [FramesOfTree(tree) -> States]
      /\ prev \in [FramesOfTree(tree) -> FramesOfTree(tree) \cup {Nobody}]
      /\ at \in [NodesOf(tree) -> Nat]
      /\ n \in NodesOf(tree)
  BY InvFacts DEF BodiesOf
<1>2. /\ n \notin Combs(tree) /\ e \in NodesOf(tree) \ {Root} /\ tree.owner[e] = n /\ tree.stmt[e] = i
  BY <1>1, EdgeIs, KindsApart
<1>3. i \in Nat \ {0}
  <2>1. DOMAIN tree.subs[n] = 1 .. Len(tree.subs[n])
    BY <1>1, TreeNodes
  <2> QED
    BY <2>1
<1>4. /\ Become(Frame(n), "suspended", freed, {Frame(m) : m \in M})
      /\ outcome' = [f \in Frames |-> IF f \in {Frame(m) : m \in M} THEN "none" ELSE outcome[f]]
      /\ prev' = [prev EXCEPT ![Frame(e)] = Frame(n)]
      /\ at' = [at EXCEPT ![n] = k]
      /\ running' = Frame(e) /\ tree' = tree /\ loops' = loops
  BY <1>2 DEF Await, Subs, Kind
<1>5. /\ \A m \in M : /\ m \in NodesOf(tree) \ {Root} /\ n \in tree.above[m]
                      /\ tree.stmt[m] # 0 => tree.owner[m] = n /\ tree.stmt[m] = i
      /\ \A m \in NodesOf(tree) \ {Root} :
           /\ tree.owner[m] = n /\ tree.stmt[m] = i => m \in M
           /\ tree.stmt[m] = 0 /\ tree.owner[m] \in M => m \in M
  BY <1>1, <1>3, MadeFacts
<1> HIDE DEF M, e
<1>6. armed' = armed \ freed
  BY <1>4 DEF Become, TakesHandlesBack
<1>7. \A f \in FramesOfTree(tree) :
        state'[f] = IF f = Frame(n) THEN "suspended"
                    ELSE IF f \in {Frame(m) : m \in M} THEN "fresh"
                    ELSE IF f \in freed /\ state[f] # "none" THEN "freed" ELSE state[f]
  BY <1>4 DEF Become, Frames
<1>8. \A m \in NodesOf(tree) :
       state'[Frame(m)] = IF m = n THEN "suspended"
                          ELSE IF m \in M THEN "fresh"
                          ELSE IF Frame(m) \in freed /\ state[Frame(m)] # "none" THEN "freed"
                          ELSE state[Frame(m)]
  <2>1. SUFFICES ASSUME NEW m \in NodesOf(tree)
                 PROVE  state'[Frame(m)] = IF m = n THEN "suspended"
                          ELSE IF m \in M THEN "fresh"
                          ELSE IF Frame(m) \in freed /\ state[Frame(m)] # "none" THEN "freed"
                          ELSE state[Frame(m)]
    OBVIOUS
  <2>2. Frame(m) \in FramesOfTree(tree) /\ (Frame(m) = Frame(n) <=> m = n)
    BY <1>1, FrameKinds
  <2>3. Frame(m) \in {Frame(x) : x \in M} <=> m \in M
    BY DEF Frame
  <2> QED
    BY <1>7, <2>2, <2>3
<1>9. \A q \in Combs(tree) : \A j \in DOMAIN tree.subs[q] :
       state'[<<q, j>>] = IF Frame(q) \in freed /\ state[<<q, j>>] # "none" THEN "freed"
                          ELSE state[<<q, j>>]
  <2>1. SUFFICES ASSUME NEW q \in Combs(tree), NEW j \in DOMAIN tree.subs[q]
                 PROVE  state'[<<q, j>>] = IF Frame(q) \in freed /\ state[<<q, j>>] # "none"
                                           THEN "freed" ELSE state[<<q, j>>]
    OBVIOUS
  <2>2. <<q, j>> \in FramesOfTree(tree) /\ \A m : <<q, j>> # Frame(m)
    BY <1>1, NotAFrame
  <2>3. <<q, j>> \notin {Frame(m) : m \in M}
    BY <2>2
  <2>4. Frame(n) # Frame(q)
    BY <1>2 DEF Frame
  <2>5. <<q, j>> \in freed <=> Frame(q) \in freed
    BY <2>4 DEF Swept
  <2> QED
    BY <1>7, <2>2, <2>3, <2>5
<1>10. \A f \in FramesOfTree(tree) :
       /\ prev'[f] = IF f = Frame(e) THEN Frame(n) ELSE prev[f]
       /\ outcome'[f] = IF f \in {Frame(m) : m \in M} THEN "none" ELSE outcome[f]
  BY <1>1, <1>4 DEF Frames
<1>11. \A m \in NodesOf(tree) : at'[m] = IF m = n THEN k ELSE at[m]
  BY <1>1, <1>4
<1>12. e \in M
  BY <1>2, <1>5
<1>13. \A m \in M :
         /\ m \in NodesOf(tree) \ {Root} /\ n \in tree.above[m]
         /\ tree.stmt[m] # 0 => tree.owner[m] = n /\ tree.stmt[m] = i
         /\ \/ state[Frame(m)] \in Unborn
            \/ /\ Frame(m) \in freed /\ m \notin BodiesOf(tree)
               /\ \A x \in NodesOf(tree) : n \in tree.above[x] => x \in M
  BY <1>5 DEF M
<1>14. state[Frame(n)] \in Alive
  BY DEF Alive
<1> QED
  BY <1>4, <1>5, <1>6, <1>8, <1>9, <1>10, <1>11, <1>12, <1>13, <1>14 DEF AwaitIs, M, e

-----------------------------------------------------------------------------
(* A combinator is destroyed without its argument only where this is a     *)
(* parameter of the task that goes on.                                     *)
LEMMA SweptParameter ==
  ASSUME NEW n, NEW freed, Swept(Frame(n), freed), NEW q \in Combs(tree),
         NEW i \in DOMAIN tree.subs[q], Frame(q) \in freed, Frame(tree.subs[q][i]) \notin freed
  PROVE  /\ tree.stmt[tree.subs[q][i]] = 0 /\ n \in BodiesOf(tree)
         /\ tree.owner[q] = n /\ tree.stmt[q] = Current(tree, at, n)
<1> DEFINE f == Frame(n)
           m == tree.subs[q][i]
<1>1. f[1] = n
  BY DEF Frame
<1> HIDE DEF f
<1>2. Frame(q) \in freed /\ Frame(m) \notin freed =>
        /\ tree.stmt[m] = 0 /\ f[1] \in BodiesOf(tree)
        /\ tree.owner[q] = f[1] /\ tree.stmt[q] = Current(tree, at, f[1])
  <2>1. Swept(f, freed)
    BY DEF f
  <2>2. \A y \in Combs(tree) : \A j \in DOMAIN tree.subs[y] :
          Frame(y) \in freed /\ Frame(tree.subs[y][j]) \notin freed =>
            /\ tree.stmt[tree.subs[y][j]] = 0 /\ f = Frame(f[1]) /\ f[1] \in BodiesOf(tree)
            /\ tree.owner[y] = f[1] /\ tree.stmt[y] = Current(tree, at, f[1])
    BY <2>1 DEF Swept
  <2> QED
    BY <2>2
<1> QED
  BY <1>1, <1>2

(* What the await leaves as it is. *)
LEMMA AwaitKeeps ==
  ASSUME Inv, NEW n, NEW i, NEW k, NEW freed, AwaitIs(n, i, k, freed)
  PROVE  /\ \A y \in NodesOf(tree) : y = n \/ y \in tree.above[n] =>
              y \notin Made(n, i) /\ Frame(y) \notin freed
         /\ \A m \in NodesOf(tree) :
              /\ state'[Frame(m)] \in {"suspended", "done"} =>
                   /\ m = n \/ state[Frame(m)] = state'[Frame(m)]
                   /\ m \notin Made(n, i)
                   /\ Frame(m) \notin freed
              /\ state'[Frame(m)] = "none" => state[Frame(m)] = "none"
              /\ state'[Frame(m)] = "fresh" => m \in Made(n, i) \/ (state[Frame(m)] = "fresh" /\ Frame(m) \notin freed)
              /\ outcome'[Frame(m)] = IF m \in Made(n, i) THEN "none" ELSE outcome[Frame(m)]
         /\ \A q \in Combs(tree) : \A j \in DOMAIN tree.subs[q] :
              /\ state'[<<q, j>>] \in {"fresh", "suspended", "done"} =>
                   state[<<q, j>>] = state'[<<q, j>>] /\ Frame(q) \notin freed
              /\ prev'[<<q, j>>] = prev[<<q, j>>]
         /\ n \in NodesOf(tree) /\ n \notin Combs(tree)
<1>1. tree \in Trees /\ n \in NodesOf(tree) /\ n \notin Combs(tree)
  BY InvFacts, KindsApart DEF AwaitIs
<1>2. \A y \in NodesOf(tree) : y = n \/ y \in tree.above[n] => n \notin tree.above[y]
  BY <1>1, TreeAbove
<1>3. /\ \A m \in NodesOf(tree) : Frame(m) \in freed => n \in tree.above[m]
      /\ \A m \in Made(n, i) : n \in tree.above[m] /\ (state[Frame(m)] \in Unborn \/ Frame(m) \in freed)
  BY DEF AwaitIs, Swept, Frame
<1>4. \A m \in NodesOf(tree) : Frame(m) \in FramesOfTree(tree)
  BY <1>1, FrameKinds
<1>5. \A m \in NodesOf(tree) : outcome'[Frame(m)] = IF m \in Made(n, i) THEN "none" ELSE outcome[Frame(m)]
  <2>1. \A m \in NodesOf(tree) : Frame(m) \in {Frame(x) : x \in Made(n, i)} <=> m \in Made(n, i)
    BY DEF Frame
  <2> QED
    BY <1>4, <2>1 DEF AwaitIs
<1>6. \A m \in NodesOf(tree) :
       state'[Frame(m)] = IF m = n THEN "suspended"
                          ELSE IF m \in Made(n, i) THEN "fresh"
                          ELSE IF Frame(m) \in freed /\ state[Frame(m)] # "none" THEN "freed"
                          ELSE state[Frame(m)]
  BY DEF AwaitIs
<1>7. \A m \in NodesOf(tree) :
         /\ state'[Frame(m)] \in {"suspended", "done"} =>
              /\ m = n \/ state[Frame(m)] = state'[Frame(m)]
              /\ m \notin Made(n, i)
              /\ Frame(m) \notin freed
         /\ state'[Frame(m)] = "none" => state[Frame(m)] = "none"
         /\ state'[Frame(m)] = "fresh" => m \in Made(n, i) \/ (state[Frame(m)] = "fresh" /\ Frame(m) \notin freed)
  BY <1>1, <1>2, <1>3, <1>6
<1>8. \A q \in Combs(tree) : \A j \in DOMAIN tree.subs[q] :
        /\ state'[<<q, j>>] \in {"fresh", "suspended", "done"} =>
             state[<<q, j>>] = state'[<<q, j>>] /\ Frame(q) \notin freed
        /\ prev'[<<q, j>>] = prev[<<q, j>>]
  <2>1. SUFFICES ASSUME NEW q \in Combs(tree), NEW j \in DOMAIN tree.subs[q]
                 PROVE  /\ state'[<<q, j>>] \in {"fresh", "suspended", "done"} =>
                             state[<<q, j>>] = state'[<<q, j>>] /\ Frame(q) \notin freed
                        /\ prev'[<<q, j>>] = prev[<<q, j>>]
    OBVIOUS
  <2>2. <<q, j>> \in FramesOfTree(tree) /\ \A m : <<q, j>> # Frame(m)
    BY <1>1, NotAFrame
  <2>3. prev'[<<q, j>>] = prev[<<q, j>>]
    BY <2>2 DEF AwaitIs
  <2>4. state'[<<q, j>>] = IF Frame(q) \in freed /\ state[<<q, j>>] # "none" THEN "freed"
                          ELSE state[<<q, j>>]
    BY DEF AwaitIs
  <2>5. Frame(q) \in freed => <<q, j>> \in freed
    BY DEF AwaitIs, Swept
  <2>6. ASSUME Frame(q) \in freed, state[<<q, j>>] = "none" PROVE state'[<<q, j>>] = "none"
    BY <2>4, <2>6
  <2> QED
    BY <2>3, <2>4
<1> QED
  BY <1>1, <1>2, <1>3, <1>5, <1>7, <1>8

LEMMA AwaitParents ==
  ASSUME Inv, Main, NEW n, NEW i, NEW k, NEW freed, AwaitIs(n, i, k, freed)
  PROVE  ParentsWait(tree, state', prev')
<1>1. tree \in Trees /\ Frame(n) \in FramesOfTree(tree) /\ n \in NodesOf(tree) /\ n \notin Combs(tree)
  BY InvFacts, FrameKinds, KindsApart DEF AwaitIs
<1>2. SUFFICES ASSUME NEW q \in NodesOf(tree), NEW j \in DOMAIN tree.subs[q],
                      state'[Frame(tree.subs[q][j])] = "suspended"
               PROVE  state'[ParentOf(tree, q, j)] = "suspended"
                        /\ prev'[Frame(tree.subs[q][j])] = ParentOf(tree, q, j)
  BY DEF ParentsWait
<1> DEFINE m == tree.subs[q][j]
           pf == ParentOf(tree, q, j)
           e == tree.subs[n][i]
<1>3. /\ m \in NodesOf(tree) \ {Root} /\ Frame(m) \in FramesOfTree(tree)
      /\ tree.above[m] = tree.above[q] \cup {q} /\ q \notin tree.above[q]
      /\ q \in Combs(tree) => pf = <<q, j>>
      /\ q \notin Combs(tree) => pf = Frame(q) /\ q \in BodiesOf(tree)
                                 /\ tree.owner[m] = q /\ tree.stmt[m] = j
  BY <1>1, EdgeIs
<1>4. e \in Made(n, i) /\ e \in NodesOf(tree)
  BY DEF AwaitIs
<1>5. running = Frame(n) /\ Frame(n) # Nobody /\ state[Frame(n)] \in Alive
  BY <1>1, FrameKinds DEF AwaitIs
<1> HIDE DEF m, e
<1>6. (m = n \/ state[Frame(m)] = "suspended") /\ m \notin Made(n, i) /\ Frame(m) \notin freed
  BY <1>2, <1>3, AwaitKeeps DEF m
<1>7. m # e /\ Frame(m) # Frame(e)
  BY <1>3, <1>4, <1>6 DEF Frame
<1>8. prev'[Frame(m)] = prev[Frame(m)]
  BY <1>3, <1>7 DEF AwaitIs, e
<1>9. CASE m = n
  <2>1. state[pf] = "suspended" /\ prev[Frame(m)] = pf
    BY <1>5, <1>9 DEF Main, ControlGoes, ControlComes, m
  <2>2. q \in tree.above[n]
    BY <1>3, <1>9
  <2>3. q \notin Made(n, i) /\ Frame(q) \notin freed /\ q # n
    BY <1>1, <2>2, <1>3, <1>9, AwaitKeeps
  <2>4. state'[pf] = state[pf]
    <3>1. CASE q \in Combs(tree)
      BY <1>3, <2>3, <3>1 DEF AwaitIs
    <3>2. CASE q \notin Combs(tree)
      BY <1>3, <2>3, <3>2 DEF AwaitIs
    <3> QED
      BY <3>1, <3>2
  <2> QED
    BY <1>8, <2>1, <2>4 DEF m
<1>10. CASE m # n
  <2>1. state[Frame(m)] = "suspended"
    BY <1>6, <1>10
  <2>2. \/ state[pf] = "suspended" /\ prev[Frame(m)] = pf
        \/ tree.kind[q] = "any" /\ state[Frame(q)] = "done"
    BY <2>1 DEF Main, FramesWait, ParentsWait, m
  <2>3. ASSUME tree.kind[q] = "any", state[Frame(q)] = "done" PROVE FALSE
    <3>1. /\ state[Frame(n)] = "suspended" /\ at[n] # 0 /\ q # Root
          /\ tree.owner[q] = n /\ tree.stmt[q] = Current(tree, at, n) /\ tree.stmt[q] # 0
      BY <2>3, EndedIsCurrent DEF AwaitIs
    <3>2. Frame(q) \in freed
      BY <3>1 DEF AwaitIs, Clears
    <3>3. q \in Combs(tree)
      BY <2>3 DEF Combs, Combinators
    <3>4. tree.stmt[m] = 0
      BY <1>6, <3>2, <3>3, SweptParameter DEF AwaitIs, m
    <3>5. tree.stmt[m] # 0
      BY <1>1, <2>3, SafeIs DEF Main, m
    <3> QED
      BY <3>4, <3>5
  <2>4. state[pf] = "suspended" /\ prev[Frame(m)] = pf
    BY <2>2, <2>3
  <2>5. CASE q \in Combs(tree)
    <3>1. ASSUME Frame(q) \in freed PROVE FALSE
      <4>1. tree.stmt[m] = 0 /\ tree.owner[q] = n /\ tree.stmt[q] = Current(tree, at, n)
        BY <1>6, <2>5, <3>1, SweptParameter DEF AwaitIs, m
      <4>2. /\ tree.kind[q] = "all"
            /\ \A x \in Combs(tree) : \A l \in DOMAIN tree.subs[x] : tree.subs[x][l] # q
        BY <1>1, <4>1, SafeIs DEF Main, m
      <4>3. state[Frame(n)] = "suspended"
        BY <3>1 DEF AwaitIs
      <4>4. q # Root
        BY <1>1, <2>5, KindsApart
      <4>5. PICK x \in NodesOf(tree) : \E l \in DOMAIN tree.subs[x] : tree.subs[x][l] = q
        BY <1>1, <4>4, TreeAbove
      <4>6. PICK l \in DOMAIN tree.subs[x] : tree.subs[x][l] = q
        BY <4>5
      <4>7. x = n /\ l = Current(tree, at, n)
        BY <1>1, <4>1, <4>2, <4>6, EdgeIs
      <4>8. state[Frame(q)] = "done"
        BY <1>5, <4>3, <4>6, <4>7 DEF Main, ControlGoes, ResumedBecause, AwaitIs
      <4>9. state[Frame(m)] \in {"done", "freed"}
        BY <2>5, <4>2, <4>8 DEF Main, FramesWait, ArgumentsEnd, m
      <4> QED
        BY <2>1, <4>9
    <3>2. state'[<<q, j>>] = state[<<q, j>>]
      BY <2>5, <3>1 DEF AwaitIs
    <3> QED
      BY <1>3, <1>8, <2>4, <2>5, <3>2 DEF m
  <2>6. CASE q \notin Combs(tree)
    <3>1. Frame(q) \notin freed
      BY <1>3, <1>6, <2>6 DEF AwaitIs, Swept, m
    <3>2. q \notin Made(n, i)
      BY <1>3, <2>4, <2>6, <3>1 DEF AwaitIs, Unborn
    <3>3. state'[Frame(q)] = "suspended"
      BY <1>3, <2>4, <2>6, <3>1, <3>2 DEF AwaitIs
    <3> QED
      BY <1>3, <1>8, <2>4, <2>6, <3>3 DEF m
  <2> QED
    BY <2>5, <2>6
<1> QED
  BY <1>9, <1>10

LEMMA AwaitHelpers ==
  ASSUME Inv, Main, NEW n, NEW i, NEW k, NEW freed, AwaitIs(n, i, k, freed)
  PROVE  /\ HelpersBelong(tree, state', prev') /\ HelpersInTurn(tree, state', at', running')
         /\ ArgumentsEnd(tree, state')
<1>1. tree \in Trees /\ n \in NodesOf(tree) /\ n \notin Combs(tree) /\ state[Frame(n)] \in Alive
  BY InvFacts, KindsApart DEF AwaitIs
<1>2. ASSUME NEW q \in Combs(tree), NEW j \in DOMAIN tree.subs[q]
      PROVE  /\ state'[Frame(q)] = "suspended" => state'[<<q, j>>] \in {"fresh", "suspended", "done"}
             /\ state'[<<q, j>>] \in Alive =>
                  /\ state'[Frame(q)] = "suspended"
                  /\ prev'[<<q, j>>] = IF tree.kind[q] = "any" THEN Frame(q) ELSE Nobody
             /\ state'[Frame(q)] = "suspended" /\ j > at'[q] => state'[<<q, j>>] = "fresh"
             /\ running' = <<q, j>> => j <= at'[q]
             /\ state'[<<q, j>>] = "done" => state'[Frame(tree.subs[q][j])] = "done"
             /\ tree.kind[q] = "all" /\ state'[Frame(q)] = "done" =>
                  state'[Frame(tree.subs[q][j])] \in {"done", "freed"}
  <2>1. q \in NodesOf(tree) /\ q # n /\ \A m : <<q, j>> # Frame(m)
    BY <1>1, NotAFrame
  <2> DEFINE m == tree.subs[q][j]
  <2>2. m \in NodesOf(tree) \ {Root}
    BY <1>1, <2>1, EdgeIs
  <2>3. /\ state[Frame(q)] = "suspended" => state[<<q, j>>] \in {"fresh", "suspended", "done"}
        /\ state[<<q, j>>] \in Alive =>
             /\ state[Frame(q)] = "suspended"
             /\ prev[<<q, j>>] = IF tree.kind[q] = "any" THEN Frame(q) ELSE Nobody
        /\ state[Frame(q)] = "suspended" /\ j > at[q] => state[<<q, j>>] = "fresh"
        /\ state[<<q, j>>] = "done" => state[Frame(m)] = "done"
        /\ tree.kind[q] = "all" /\ state[Frame(q)] = "done" => state[Frame(m)] \in {"done", "freed"}
    <3>1. /\ state[Frame(q)] = "suspended" => state[<<q, j>>] \in {"fresh", "suspended", "done"}
          /\ state[<<q, j>>] \in Alive =>
               /\ state[Frame(q)] = "suspended"
               /\ prev[<<q, j>>] = IF tree.kind[q] = "any" THEN Frame(q) ELSE Nobody
      BY DEF Main, FramesWait, HelpersBelong
    <3>2. state[Frame(q)] = "suspended" /\ j > at[q] => state[<<q, j>>] = "fresh"
      BY DEF Main, ControlGoes, HelpersInTurn
    <3>3. /\ state[<<q, j>>] = "done" => state[Frame(m)] = "done"
          /\ tree.kind[q] = "all" /\ state[Frame(q)] = "done" => state[Frame(m)] \in {"done", "freed"}
      BY DEF Main, FramesWait, ArgumentsEnd
    <3> QED
      BY <3>1, <3>2, <3>3
  <2>4. /\ state'[<<q, j>>] = IF Frame(q) \in freed /\ state[<<q, j>>] # "none" THEN "freed"
                              ELSE state[<<q, j>>]
        /\ at'[q] = at[q]
    BY <2>1 DEF AwaitIs
  <2>5. running' # <<q, j>>
    BY <2>1, <2>4 DEF AwaitIs
  <2>6. Frame(m) \in freed => Frame(q) \in freed
    BY DEF AwaitIs, Swept
  <2>7. /\ state'[Frame(q)] \in {"suspended", "done"} =>
             state[Frame(q)] = state'[Frame(q)] /\ Frame(q) \notin freed
        /\ state'[<<q, j>>] \in {"fresh", "suspended", "done"} =>
             state[<<q, j>>] = state'[<<q, j>>] /\ Frame(q) \notin freed
        /\ prev'[<<q, j>>] = prev[<<q, j>>]
    BY <2>1, AwaitKeeps
  <2>8. Frame(q) \notin freed /\ state[Frame(m)] \in {"done", "freed"} => state'[Frame(m)] = state[Frame(m)]
    <3>1. SUFFICES ASSUME Frame(q) \notin freed, state[Frame(m)] \in {"done", "freed"}
                   PROVE  state'[Frame(m)] = state[Frame(m)]
      OBVIOUS
    <3>2. m # n /\ Frame(m) \notin freed
      BY <1>1, <2>6, <3>1 DEF Alive
    <3>3. m \notin Made(n, i)
      BY <3>1, <3>2 DEF AwaitIs, Unborn
    <3> QED
      BY <2>2, <3>2, <3>3 DEF AwaitIs
  <2>9. state[Frame(q)] = "suspended" /\ Frame(q) \notin freed => state'[Frame(q)] = "suspended"
    <3>1. SUFFICES ASSUME state[Frame(q)] = "suspended", Frame(q) \notin freed
                   PROVE  state'[Frame(q)] = "suspended"
      OBVIOUS
    <3>2. q \notin Made(n, i)
      BY <3>1 DEF AwaitIs, Unborn
    <3> QED
      BY <2>1, <3>1, <3>2 DEF AwaitIs
  <2> HIDE DEF m
  <2>10. state'[Frame(q)] = "suspended" => state'[<<q, j>>] = state[<<q, j>>]
    BY <2>4, <2>7
  <2> QED
    BY <2>3, <2>4, <2>5, <2>7, <2>8, <2>9, <2>10 DEF m, Alive
<1> QED
  BY <1>2 DEF HelpersBelong, HelpersInTurn, ArgumentsEnd

LEMMA AwaitMade ==
  ASSUME Inv, Main, NEW n, NEW i, NEW k, NEW freed, AwaitIs(n, i, k, freed)
  PROVE  /\ ArgumentsLast(tree, state') /\ OneStatement(tree, state', at')
         /\ NothingBelow(tree, state', outcome')
<1>1. /\ tree \in Trees /\ n \in NodesOf(tree) /\ n \notin Combs(tree) /\ n \in BodiesOf(tree)
      /\ state[Frame(n)] \in Alive /\ running = Frame(n) /\ running[1] = n /\ running # Nobody
      /\ at \in [NodesOf(tree) -> Nat]
  BY InvFacts, KindsApart, FrameKinds DEF AwaitIs, Frame
<1>2. \A y \in NodesOf(tree) : y = n \/ y \in tree.above[n] =>
        y \notin Made(n, i) /\ Frame(y) \notin freed
  BY AwaitKeeps
<1>3. \A m \in NodesOf(tree) :
       state'[Frame(m)] = IF m = n THEN "suspended"
                          ELSE IF m \in Made(n, i) THEN "fresh"
                          ELSE IF Frame(m) \in freed /\ state[Frame(m)] # "none" THEN "freed"
                          ELSE state[Frame(m)]
  BY DEF AwaitIs
<1>4. ASSUME NEW q \in Combs(tree), NEW j \in DOMAIN tree.subs[q],
             state'[Frame(q)] = "fresh" \/ state'[<<q, j>>] = "fresh"
      PROVE  state'[Frame(tree.subs[q][j])] = "fresh"
  <2> DEFINE m == tree.subs[q][j]
  <2>1. /\ q \in NodesOf(tree) /\ q # n /\ m \in NodesOf(tree) \ {Root}
        /\ ParentOf(tree, q, j) = <<q, j>> /\ q # Root
        /\ tree.above[m] = tree.above[q] \cup {q}
    BY <1>1, KindsApart, EdgeIs
  <2>2. tree.owner[m] = tree.owner[q] /\ tree.stmt[m] \in {0, tree.stmt[q]}
    BY <1>1, <2>1, TreeSubs DEF Combs
  <2>3. Frame(m) \in freed => Frame(q) \in freed
    BY DEF AwaitIs, Swept
  <2>4. state[Frame(q)] = "fresh" \/ state[<<q, j>>] = "fresh" => state[Frame(m)] = "fresh"
    BY DEF Main, FramesWait, ArgumentsLast
  <2>5. m = n => state[<<q, j>>] = "suspended" /\ state[Frame(q)] = "suspended"
    <3>1. SUFFICES ASSUME m = n PROVE state[<<q, j>>] = "suspended" /\ state[Frame(q)] = "suspended"
      OBVIOUS
    <3>2. state[<<q, j>>] = "suspended"
      BY <1>1, <2>1, <3>1 DEF Main, ControlGoes, ControlComes
    <3> QED
      BY <3>2 DEF Main, FramesWait, HelpersBelong, Alive
  <2> HIDE DEF m
  <2>6. ASSUME state[Frame(q)] = "fresh" \/ state[<<q, j>>] = "fresh", Frame(q) \notin freed
        PROVE  state'[Frame(m)] = "fresh"
    <3>1. m # n /\ state[Frame(m)] = "fresh" /\ Frame(m) \notin freed
      BY <2>3, <2>4, <2>5, <2>6
    <3> QED
      BY <1>3, <2>1, <3>1
  <2>7. CASE state'[<<q, j>>] = "fresh"
    <3>1. state[<<q, j>>] = "fresh" /\ Frame(q) \notin freed
      BY <2>7, AwaitKeeps
    <3> QED
      BY <2>6, <3>1 DEF m
  <2>8. CASE state'[Frame(q)] = "fresh" /\ q \notin Made(n, i)
    <3>1. state[Frame(q)] = "fresh" /\ Frame(q) \notin freed
      BY <2>1, <2>8, AwaitKeeps
    <3> QED
      BY <2>6, <3>1 DEF m
  <2>9. CASE q \in Made(n, i)
    <3>1. CASE tree.stmt[q] = 0
      <4>1. FALSE
        <5>1. PICK x \in NodesOf(tree) : \E l \in DOMAIN tree.subs[x] : tree.subs[x][l] = q
          BY <1>1, <2>1, TreeAbove
        <5>2. PICK l \in DOMAIN tree.subs[x] : tree.subs[x][l] = q
          BY <5>1
        <5>3. tree.stmt[m] = 0
          BY <2>2, <3>1
        <5>4. \A y \in Combs(tree) : \A z \in DOMAIN tree.subs[y] : tree.subs[y][z] # q
          BY <1>1, <2>1, <5>3, SafeIs DEF Main, m
        <5>5. tree.kind[x] = "all"
          BY <1>1, <3>1, <5>2, SafeIs DEF Main
        <5>6. x \in Combs(tree)
          BY <5>5 DEF Combs, Combinators
        <5> QED
          BY <5>2, <5>4, <5>6
      <4> QED
        BY <4>1
    <3>2. CASE tree.stmt[q] # 0
      <4>1. tree.owner[q] = n /\ tree.stmt[q] = i /\ n \in tree.above[q]
        BY <2>9, <3>2 DEF AwaitIs
      <4>2. m # n
        BY <1>1, <2>1, <4>1, TreeAbove
      <4>3. CASE tree.stmt[m] = i
        <5>1. m \in Made(n, i)
          BY <2>1, <2>2, <4>1, <4>3 DEF AwaitIs
        <5> QED
          BY <1>3, <2>1, <4>2, <5>1 DEF m
      <4>4. CASE tree.stmt[m] = 0 /\ m \notin Made(n, i)
        <5>1. state[Frame(m)] \notin {"none", "freed"}
          BY <1>1, <2>1, <2>2, <4>1, <4>4 DEF Main, FramesWait, ArgumentsLast
        <5>2. Frame(m) \notin freed
          <6>1. Frame(m) \in freed => Frame(tree.owner[m]) \in freed
            BY <2>1, <4>4 DEF AwaitIs, Swept
          <6> QED
            BY <1>1, <1>2, <2>2, <4>1, <6>1
        <5>3. state[Frame(q)] \in Unborn
          <6>1. Frame(q) \in freed => m \in Made(n, i) \/ state[Frame(q)] \in Unborn
            <7>1. n \in tree.above[m]
              BY <2>1, <4>1
            <7> QED
              BY <2>1, <2>9, <7>1 DEF AwaitIs
          <6> QED
            BY <2>9, <4>4, <6>1 DEF AwaitIs
        <5>4. state[Frame(m)] \in Unborn \cup {"freed"}
          BY <2>1, <5>3 DEF Main, FramesWait, NothingBelow
        <5>5. state[Frame(m)] = "fresh"
          BY <5>1, <5>4 DEF Unborn
        <5> QED
          BY <1>3, <2>1, <4>2, <4>4, <5>2, <5>5 DEF m
      <4> QED
        BY <2>2, <4>1, <4>3, <4>4, <1>3, <2>1, <4>2 DEF m
    <3> QED
      BY <3>1, <3>2
  <2> QED
    BY <1>4, <2>7, <2>8, <2>9
<1>5. ASSUME NEW m \in NodesOf(tree) \ {Root}, tree.stmt[m] = 0,
             state'[Frame(tree.owner[m])] \in Alive
      PROVE  state'[Frame(m)] \notin {"none", "freed"}
  <2>1. tree.owner[m] \in NodesOf(tree)
    BY <1>1, TreeNodes
  <2>2. Frame(m) \in freed => Frame(tree.owner[m]) \in freed
    BY <1>5 DEF AwaitIs, Swept
  <2>3. tree.owner[m] \in Made(n, i) => m \in Made(n, i)
    BY <1>5 DEF AwaitIs
  <2>4. state[Frame(tree.owner[m])] \in Alive => state[Frame(m)] \notin {"none", "freed"}
    BY <1>5 DEF Main, FramesWait, ArgumentsLast
  <2>5. CASE tree.owner[m] \in Made(n, i)
    BY <1>3, <2>3, <2>5
  <2>6. CASE tree.owner[m] \notin Made(n, i)
    <3>1. state[Frame(tree.owner[m])] \in Alive
      <4>1. tree.owner[m] = n \/ state[Frame(tree.owner[m])] = state'[Frame(tree.owner[m])]
        BY <1>5, <2>1, <2>6, AwaitKeeps DEF Alive
      <4> QED
        BY <1>1, <1>5, <4>1
    <3>2. Frame(tree.owner[m]) \notin freed
      BY <1>2, <1>3, <1>5, <2>1, <2>6, <3>1 DEF Alive
    <3> QED
      BY <1>3, <2>2, <2>4, <3>1, <3>2
  <2> QED
    BY <2>5, <2>6
<1>6. ASSUME NEW m \in NodesOf(tree) \ {Root}, tree.stmt[m] # 0, at'[tree.owner[m]] # 0,
             state'[Frame(m)] \notin {"none", "freed"}
      PROVE  tree.stmt[m] = Current(tree, at', tree.owner[m])
  <2>1. tree.owner[m] \in NodesOf(tree) /\ tree.stmt[m] \in Nat
    BY <1>1, TreeNodes
  <2>2. \A x \in NodesOf(tree) : at'[x] = IF x = n THEN k ELSE at[x]
    BY DEF AwaitIs
  <2>3. Current(tree, at', n) = i
    BY <1>1, <2>2 DEF Current, AwaitIs
  <2>4. m \in Made(n, i) => tree.owner[m] = n /\ tree.stmt[m] = i
    BY <1>6 DEF AwaitIs
  <2>5. m \notin Made(n, i) => state[Frame(m)] \notin {"none", "freed"} /\ Frame(m) \notin freed
    BY <1>1, <1>2, <1>3, <1>6 DEF Alive
  <2>6. CASE tree.owner[m] # n
    <3>1. tree.stmt[m] = Current(tree, at, tree.owner[m])
      BY <1>6, <2>1, <2>2, <2>4, <2>5, <2>6 DEF Main, FramesWait, OneStatement
    <3> QED
      BY <2>1, <2>2, <2>6, <3>1 DEF Current
  <2>7. CASE tree.owner[m] = n /\ m \notin Made(n, i)
    <3>1. CASE state[Frame(n)] = "fresh"
      <4>1. at[n] = 0
        BY <1>1, <3>1 DEF Inv, MakingInv, MadeInTurn, Unborn, BodiesOf
      <4>2. CASE n # Root
        <5>1. Maker(tree, m) = n /\ MakerStmt(tree, m) = tree.stmt[m]
          BY <1>6, <2>7 DEF Maker, MakerStmt
        <5>2. state[Frame(m)] = "none"
          BY <1>6, <2>1, <4>1, <4>2, <5>1 DEF Inv, MakingInv, MadeInTurn
        <5> QED
          BY <2>5, <2>7, <5>2
      <4>3. CASE n = Root
        <5>1. tree.stmt[m] \in 0 .. Len(tree.subs[Root]) /\ Len(tree.subs[Root]) = 1
          <6>1. IsRooted(tree) /\ m \in DOMAIN tree.kind \ {Root}
            BY <1>1, TreesAssumption DEF IsTree, NodesOf
          <6>2. tree.stmt[m] \in 0 .. Len(tree.subs[tree.owner[m]])
            BY <6>1 DEF IsRooted
          <6>3. Len(tree.subs[Root]) = 1
            BY <1>1, <4>3, TreeNodes
          <6> QED
            BY <2>7, <4>3, <6>2, <6>3
        <5>2. tree.stmt[m] = 1
          BY <1>6, <5>1
        <5>3. i = 1
          BY <3>1 DEF AwaitIs
        <5> QED
          BY <1>6, <2>7, <5>2, <5>3 DEF AwaitIs
      <4> QED
        BY <4>2, <4>3
    <3>2. CASE state[Frame(n)] = "suspended"
      <4>1. at[n] # 0
        BY <1>1, <3>2 DEF Main, FramesWait, StatementsEnded
      <4>2. tree.stmt[m] = Current(tree, at, n)
        BY <1>6, <2>5, <2>7, <4>1 DEF Main, FramesWait, OneStatement
      <4>3. Frame(m) \in freed
        BY <1>6, <2>7, <3>2, <4>2 DEF AwaitIs, Clears
      <4> QED
        BY <2>5, <2>7, <4>3
    <3> QED
      BY <1>1, <3>1, <3>2 DEF Alive
  <2> QED
    BY <2>3, <2>4, <2>6, <2>7
<1>7. ASSUME NEW m \in NodesOf(tree), NEW y \in tree.above[m], state'[Frame(y)] \in Unborn
      PROVE  state'[Frame(m)] \in Unborn \cup {"freed"} /\ outcome'[Frame(m)] = "none"
  <2>1. y \in NodesOf(tree) /\ tree.above[y] \subseteq tree.above[m] /\ y # m
    BY <1>1, TreeAbove
  <2>2. outcome'[Frame(m)] = IF m \in Made(n, i) THEN "none" ELSE outcome[Frame(m)]
    BY AwaitKeeps
  <2>3. CASE m \in Made(n, i)
    <3>1. m # n
      BY <1>1, <1>2, <2>3
    <3> QED
      BY <1>3, <2>2, <2>3, <3>1 DEF Unborn
  <2>4. CASE m \notin Made(n, i)
    <3>1. state[Frame(y)] \in Unborn
      <4>1. CASE y \in Made(n, i)
        <5>1. n \in tree.above[m]
          BY <2>1, <4>1 DEF AwaitIs
        <5> QED
          BY <2>4, <4>1, <5>1 DEF AwaitIs
      <4>2. CASE y \notin Made(n, i)
        BY <1>3, <1>7, <2>1, <4>2 DEF Unborn
      <4> QED
        BY <4>1, <4>2
    <3>2. state[Frame(m)] \in Unborn \cup {"freed"} /\ outcome[Frame(m)] = "none"
      BY <2>1, <3>1 DEF Main, FramesWait, NothingBelow
    <3>3. m # n
      <4>1. m = n => state[Frame(y)] \notin Unborn
        BY <1>1, AllAboveBegun
      <4> QED
        BY <3>1, <4>1
    <3> QED
      BY <1>3, <2>2, <2>4, <3>2, <3>3 DEF Unborn
  <2> QED
    BY <2>3, <2>4
<1> QED
  BY <1>4, <1>5, <1>6, <1>7 DEF ArgumentsLast, OneStatement, NothingBelow

LEMMA AwaitOutcomes ==
  ASSUME Inv, Main, NEW n, NEW i, NEW k, NEW freed, AwaitIs(n, i, k, freed)
  PROVE  /\ OutcomesKept(tree, state', outcome') /\ StatementsEnded(tree, state', at', outcome')
         /\ EndedAtOnce(tree, outcome', loops')
<1>1. /\ tree \in Trees /\ n \in NodesOf(tree) /\ n \in BodiesOf(tree)
      /\ state[Frame(n)] \in Alive /\ running = Frame(n) /\ running # Nobody
      /\ at \in [NodesOf(tree) -> Nat]
  BY InvFacts, FrameKinds DEF AwaitIs, BodiesOf
<1>2. \A m \in NodesOf(tree) :
       state'[Frame(m)] = IF m = n THEN "suspended"
                          ELSE IF m \in Made(n, i) THEN "fresh"
                          ELSE IF Frame(m) \in freed /\ state[Frame(m)] # "none" THEN "freed"
                          ELSE state[Frame(m)]
  BY DEF AwaitIs
<1>3. \A m \in NodesOf(tree) :
        outcome'[Frame(m)] = IF m \in Made(n, i) THEN "none" ELSE outcome[Frame(m)]
  BY AwaitKeeps
<1>4. \A f \in FramesOfTree(tree) :
        /\ state[f] = "done" => outcome[f] # "none"
        /\ state[f] \in {"none", "fresh", "suspended"} /\ f # Frame(Root) => outcome[f] = "none"
  BY DEF Main, FramesWait, OutcomesKept
<1>5. ASSUME NEW f \in FramesOfTree(tree)
      PROVE  /\ state'[f] = "done" => outcome'[f] # "none"
             /\ state'[f] \in {"none", "fresh", "suspended"} /\ f # Frame(Root) => outcome'[f] = "none"
  <2>1. ASSUME NEW m \in NodesOf(tree), f = Frame(m)
        PROVE  /\ state'[f] = "done" => outcome'[f] # "none"
               /\ state'[f] \in {"none", "fresh", "suspended"} /\ f # Frame(Root) => outcome'[f] = "none"
    <3>1. /\ state'[f] \in {"suspended", "done"} =>
               (m = n \/ state[f] = state'[f]) /\ m \notin Made(n, i)
          /\ state'[f] = "none" => state[f] = "none"
          /\ state'[f] = "fresh" => m \in Made(n, i) \/ state[f] = "fresh"
      BY <2>1, AwaitKeeps
    <3>2. m = n => state'[f] = "suspended" /\ state[f] \in Alive
      BY <1>1, <1>2, <2>1
    <3> QED
      BY <1>3, <1>4, <2>1, <3>1, <3>2 DEF Alive
  <2>2. ASSUME NEW q \in Combs(tree), NEW j \in DOMAIN tree.subs[q], f = <<q, j>>
        PROVE  /\ state'[f] = "done" => outcome'[f] # "none"
               /\ state'[f] \in {"none", "fresh", "suspended"} /\ f # Frame(Root) => outcome'[f] = "none"
    <3>1. f # Frame(Root) /\ \A m : f # Frame(m)
      BY <1>1, <2>2, NotAFrame
    <3>2. outcome'[f] = outcome[f]
      BY <3>1 DEF AwaitIs
    <3>3. state'[f] \in {"fresh", "suspended", "done"} => state[f] = state'[f]
      BY <2>2, AwaitKeeps
    <3>4. state'[f] = "none" => state[f] = "none"
      BY <2>2 DEF AwaitIs
    <3> QED
      BY <1>4, <3>2, <3>3, <3>4
  <2> QED
    BY <1>1, <2>1, <2>2, FrameKinds
<1>6. ASSUME NEW x \in BodiesOf(tree)
      PROVE  /\ state'[Frame(x)] = "suspended" => at'[x] # 0
             /\ tree.kind[x] = "task" =>
                  \A l \in DOMAIN tree.subs[x] : l < at'[x] => outcome'[Frame(tree.subs[x][l])] # "none"
  <2>1. x \in NodesOf(tree) /\ at'[x] = IF x = n THEN k ELSE at[x]
    BY DEF AwaitIs, BodiesOf
  <2>2. state'[Frame(x)] = "suspended" => at'[x] # 0
    <3>1. CASE x = n
      BY <2>1, <3>1 DEF AwaitIs
    <3>2. CASE x # n
      BY <2>1, <3>2, AwaitKeeps DEF Main, FramesWait, StatementsEnded
    <3> QED
      BY <3>1, <3>2
  <2>3. ASSUME tree.kind[x] = "task", NEW l \in DOMAIN tree.subs[x], l < at'[x]
        PROVE  outcome'[Frame(tree.subs[x][l])] # "none"
    <3> DEFINE m == tree.subs[x][l]
    <3>1. m \in NodesOf(tree) \ {Root} /\ tree.owner[m] = x /\ tree.stmt[m] = l /\ Frame(m) \in FramesOfTree(tree)
      BY <1>1, <2>1, <2>3, EdgeIs, KindsApart
    <3>2. DOMAIN tree.subs[x] = 1 .. Len(tree.subs[x]) /\ Len(tree.subs[x]) \in Nat
      BY <1>1, <2>1, TreeNodes
    <3>3. l \in Nat \ {0}
      BY <3>2
    <3> HIDE DEF m
    <3>4. m \notin Made(n, i)
      <4>1. SUFFICES ASSUME m \in Made(n, i) PROVE FALSE
        OBVIOUS
      <4>2. x = n /\ l = i
        BY <3>1, <3>3, <4>1 DEF AwaitIs
      <4>3. i = k
        BY <2>3, <4>2 DEF AwaitIs
      <4> QED
        BY <2>1, <2>3, <3>3, <4>2, <4>3
    <3>5. outcome[Frame(m)] # "none"
      <4>1. CASE l < at[x]
        BY <2>3, <4>1 DEF Main, FramesWait, StatementsEnded, m
      <4>2. CASE ~(l < at[x])
        <5>1. x = n /\ l < k
          BY <2>1, <2>3, <4>2
        <5>2. CASE state[Frame(n)] = "fresh"
          <6>1. k = 1
            BY <5>2 DEF AwaitIs
          <6> QED
            BY <3>3, <5>1, <6>1
        <5>3. CASE state[Frame(n)] = "suspended"
          <6>1. k = at[n] + 1 /\ at[n] \in Nat
            BY <1>1, <5>3 DEF AwaitIs
          <6>2. l = at[n]
            BY <3>3, <4>2, <5>1, <6>1
          <6>3. Current(tree, at, n) = l
            BY <2>3, <5>1, <6>2 DEF Current
          <6>4. state[Frame(tree.subs[n][Current(tree, at, n)])] = "done"
            BY <1>1, <5>3 DEF Main, ControlGoes, ResumedBecause
          <6>5. state[Frame(m)] = "done"
            BY <5>1, <6>3, <6>4 DEF m
          <6> QED
            BY <1>4, <3>1, <6>5
        <5> QED
          BY <1>1, <5>2, <5>3 DEF Alive
      <4> QED
        BY <4>1, <4>2
    <3> QED
      BY <1>3, <3>1, <3>4, <3>5 DEF m
  <2> QED
    BY <2>2, <2>3
<1>7. EndedAtOnce(tree, outcome', loops')
  <2>1. loops' = loops
    BY DEF AwaitIs
  <2> QED
    BY <1>3, <2>1 DEF Main, ControlGoes, EndedAtOnce
<1> QED
  BY <1>5, <1>6, <1>7 DEF OutcomesKept, StatementsEnded

LEMMA AwaitControl ==
  ASSUME Inv, Main, NEW n, NEW i, NEW k, NEW freed, AwaitIs(n, i, k, freed)
  PROVE  /\ ControlComes(tree, state', prev', running')
         /\ ResumedBecause(tree, state', at', running')
         /\ GoesToOwner(tree, state', running')
         /\ LeavesAtRest(tree, state', armed', loops', running')
         /\ LoopsNested(tree, state', at', loops', running')
<1> DEFINE e == tree.subs[n][i]
<1>1. /\ tree \in Trees /\ n \in NodesOf(tree) /\ n \in BodiesOf(tree) /\ n \notin Combs(tree)
      /\ state[Frame(n)] \in Alive /\ running = Frame(n) /\ running # Nobody
      /\ at \in [NodesOf(tree) -> Nat] /\ i \in DOMAIN tree.subs[n]
  BY InvFacts, FrameKinds, KindsApart DEF AwaitIs, BodiesOf
<1>2. /\ e \in NodesOf(tree) /\ e # n /\ tree.above[e] = tree.above[n] \cup {n}
      /\ ParentOf(tree, n, i) = Frame(n) /\ Frame(e) \in FramesOfTree(tree)
      /\ \A x \in NodesOf(tree) : \A j \in DOMAIN tree.subs[x] : tree.subs[x][j] = e => x = n /\ j = i
      /\ n \notin tree.above[n]
  BY <1>1, EdgeIs, TreeAbove
<1>3. running' = Frame(e) /\ e \in Made(n, i) /\ Frame(n) \in FramesOfTree(tree) /\ loops' = loops
  BY <1>1, FrameKinds DEF AwaitIs
<1>4. state'[Frame(e)] = "fresh" /\ state'[Frame(n)] = "suspended" /\ prev'[Frame(e)] = Frame(n)
  BY <1>1, <1>2, <1>3, ZenonT(30) DEF AwaitIs
<1> HIDE DEF e
<1>5. ControlComes(tree, state', prev', running')
  <2>1. ASSUME NEW q \in NodesOf(tree), NEW j \in DOMAIN tree.subs[q],
               running' = Frame(tree.subs[q][j])
        PROVE  q = n /\ j = i
    <3>1. tree.subs[q][j] = e
      BY <1>3, <2>1 DEF Frame
    <3> QED
      BY <1>2, <3>1
  <2> QED
    BY <1>2, <1>3, <1>4, <2>1 DEF ControlComes, Alive
<1>6. ResumedBecause(tree, state', at', running')
  BY <1>3, <1>4 DEF ResumedBecause
<1>7. ASSUME NEW m \in NodesOf(tree), tree.kind[m] \in {"any", "event"}, state'[Frame(m)] = "done"
      PROVE  FALSE
  <2>1. m # n /\ m \notin Made(n, i) /\ Frame(m) \notin freed
    BY <1>1, <1>7, AwaitKeeps, KindsApart
  <2>2. state[Frame(m)] = "done"
    BY <1>7, <2>1 DEF AwaitIs
  <2>3. /\ state[Frame(n)] = "suspended" /\ m # Root /\ tree.owner[m] = n
        /\ tree.stmt[m] = Current(tree, at, n)
    BY <1>1, <1>7, <2>2, EndedIsCurrent
  <2>4. Frame(m) \in freed
    BY <2>3 DEF AwaitIs, Clears
  <2> QED
    BY <2>1, <2>4
<1>8. LeavesAtRest(tree, state', armed', loops', running')
  <2>1. SUFFICES ASSUME NEW m \in NodesOf(tree), Frame(m) \in armed', tree.kind[m] # "event"
                 PROVE  state'[Frame(m)] = "suspended" /\ running' # Frame(m)
    BY <1>3, <1>4 DEF LeavesAtRest
  <2>2. Frame(m) \in armed /\ Frame(m) \notin freed
    BY <2>1 DEF AwaitIs
  <2>3. state[Frame(m)] = "suspended"
    BY <2>1, <2>2 DEF Main, ControlGoes, LeavesAtRest
  <2>4. m \notin Made(n, i)
    BY <2>2, <2>3 DEF AwaitIs, Unborn
  <2>5. state'[Frame(m)] = "suspended"
    BY <2>2, <2>3, <2>4 DEF AwaitIs
  <2> QED
    BY <1>3, <1>4, <2>5
<1>9. LoopsNested(tree, state', at', loops', running')
  <2>1. SUFFICES ASSUME NEW j \in 1 .. Len(loops)
                 PROVE  /\ state'[Frame(loops[j])] = "suspended" /\ at'[loops[j]] >= 1
                        /\ running' # Frame(loops[j]) /\ loops[j] \in tree.above[e]
                        /\ \A l \in 1 .. Len(loops) : j < l => loops[j] \in tree.above[loops[l]]
    BY <1>3 DEF LoopsNested, Frame
  <2> DEFINE c == loops[j]
  <2>2. c \in Combs(tree) /\ c \in NodesOf(tree)
    BY InvFacts, ElementOfSeq DEF Combs
  <2>3. /\ state[Frame(c)] = "suspended" /\ at[c] >= 1
        /\ running[1] = c \/ c \in tree.above[running[1]]
        /\ \A l \in 1 .. Len(loops) : j < l => c \in tree.above[loops[l]]
    BY <1>1 DEF Main, ControlGoes, LoopsNested
  <2> HIDE DEF c
  <2>4. c # n /\ c \in tree.above[n]
    BY <1>1, <2>2, <2>3 DEF Frame
  <2>5. c \notin Made(n, i) /\ Frame(c) \notin freed
    BY <2>2, <2>4, AwaitKeeps
  <2>6. state'[Frame(c)] = "suspended" /\ at'[c] = at[c]
    BY <2>2, <2>3, <2>4, <2>5 DEF AwaitIs
  <2>7. e # c
    BY <1>3, <2>5
  <2> QED
    BY <1>2, <1>3, <2>3, <2>4, <2>6, <2>7 DEF c, Frame
<1> QED
  BY <1>5, <1>6, <1>7, <1>8, <1>9 DEF GoesToOwner

LEMMA AwaitMain ==
  ASSUME Inv, Main, NEW n, NEW i, NEW k, NEW freed, AwaitIs(n, i, k, freed)
  PROVE  Main'
<1>1. tree' = tree
  BY DEF AwaitIs
<1> QED
  BY <1>1, AwaitParents, AwaitHelpers, AwaitMade, AwaitOutcomes, AwaitControl
  DEF Main, FramesWait, ControlGoes

Awaiting(n) == count' = count /\ index' = index /\ \E i, k, freed : AwaitIs(n, i, k, freed)

-----------------------------------------------------------------------------
(* The end of a coroutine, the wrapper of run_task() aside.                *)
FinishIs(f, r, freed) ==
  /\ f \in FramesOfTree(tree) \ {Frame(Root)} /\ running = f
  /\ r \in {"value", "thrown", "timeout"}
  /\ \/ state[f] = "suspended"
     \/ state[f] = "fresh" /\ \E x \in NodesOf(tree) : f = Frame(x) /\ DOMAIN tree.subs[x] = {}
  /\ Swept(f, freed)
  /\ \A n \in BodiesOf(tree) : f = Frame(n) => state[f] = "suspended" /\ Clears(n, freed)
  /\ \A q \in Combs(tree) : \A i \in DOMAIN tree.subs[q] : f = <<q, i>> =>
       /\ freed = {} /\ running' \in {Frame(q), Nobody}
       /\ tree.kind[q] = "any" => running' = Frame(q)
       /\ tree.kind[q] = "all" /\ running' = Frame(q) =>
            \A j \in DOMAIN tree.subs[q] : state'[<<q, j>>] \in {"done", "freed"}
  /\ \A x \in NodesOf(tree) : f = Frame(x) =>
       /\ running' = prev[f]
       /\ \A j \in 1 .. Len(loops) : loops[j] \in tree.above[x] =>
            r # "thrown" /\ x \in EndsAtOnce(tree)
  /\ tree' = tree
  /\ \A g \in FramesOfTree(tree) :
       /\ state'[g] = IF g = f THEN "done"
                      ELSE IF g \in freed /\ state[g] # "none" THEN "freed" ELSE state[g]
       /\ g # f => prev'[g] = prev[g]
       /\ outcome'[g] = IF g = f THEN r ELSE outcome[g]
  /\ armed' = armed \ freed
  /\ at' = at
  /\ loops' = loops

LEMMA FinishKeeps ==
  ASSUME Inv, Main, NEW f, NEW r, NEW freed, FinishIs(f, r, freed)
  PROVE  /\ \A g \in FramesOfTree(tree) :
              /\ state'[g] \in {"none", "fresh", "suspended"} => g # f /\ state[g] = state'[g]
              /\ state'[g] \in {"fresh", "suspended"} => g \notin freed
              /\ state'[g] = "done" => g = f \/ (state[g] = "done" /\ g \notin freed)
              /\ state[g] # "none" => state'[g] # "none"
              /\ g # f /\ g \notin freed => state'[g] = state[g]
         /\ \A m \in NodesOf(tree) : Frame(m) \in FramesOfTree(tree)
         /\ \A q \in Combs(tree) : \A i \in DOMAIN tree.subs[q] :
              /\ q \in NodesOf(tree) /\ <<q, i>> \in FramesOfTree(tree) /\ \A m : <<q, i>> # Frame(m)
              /\ Frame(q) \in freed => <<q, i>> \in freed
              /\ <<q, i>> \in freed => Frame(q) \in freed \/ f = Frame(q)
         /\ f[1] \in NodesOf(tree)
         /\ \A y \in NodesOf(tree) : y = f[1] \/ y \in tree.above[f[1]] => Frame(y) \notin freed
         /\ \A q \in Combs(tree) : \A i \in DOMAIN tree.subs[q] :
              q \in tree.above[f[1]] => <<q, i>> \notin freed
         /\ state[f] \in Alive
<1>1. tree \in Trees /\ f \in FramesOfTree(tree)
  BY InvFacts DEF FinishIs
<1>2. /\ \A m \in NodesOf(tree) : Frame(m) \in FramesOfTree(tree)
      /\ \A q \in Combs(tree) : \A i \in DOMAIN tree.subs[q] :
           q \in NodesOf(tree) /\ <<q, i>> \in FramesOfTree(tree) /\ \A m : <<q, i>> # Frame(m)
  BY <1>1, NotAFrame, FrameKinds
<1>3. f[1] \in NodesOf(tree)
  <2>1. \/ \E n \in NodesOf(tree) : f = Frame(n)
        \/ \E n \in Combs(tree) : \E i \in DOMAIN tree.subs[n] : f = <<n, i>>
    BY <1>1, FrameKinds
  <2> QED
    BY <2>1 DEF Frame, Combs
<1>4. /\ f \notin freed
      /\ \A m \in NodesOf(tree) : Frame(m) \in freed => f[1] \in tree.above[m]
      /\ \A q \in Combs(tree) : \A i \in DOMAIN tree.subs[q] :
           <<q, i>> \in freed <=> Frame(q) \in freed \/ f = Frame(q)
  <2>1. Swept(f, freed)
    BY DEF FinishIs
  <2> QED
    BY <2>1 DEF Swept
<1>5. \A y \in NodesOf(tree) : y = f[1] \/ y \in tree.above[f[1]] => f[1] \notin tree.above[y]
  BY <1>1, <1>3, TreeAbove
<1>6. ASSUME NEW q \in Combs(tree), NEW i \in DOMAIN tree.subs[q], q \in tree.above[f[1]]
      PROVE  <<q, i>> \notin freed
  <2>1. q \in NodesOf(tree) /\ q # f[1]
    BY <1>1, <1>2, <1>3, <1>6, TreeAbove
  <2>2. f # Frame(q)
    BY <2>1 DEF Frame
  <2> QED
    BY <1>4, <1>5, <1>6, <2>1, <2>2
<1>7. \A g \in FramesOfTree(tree) :
        state'[g] = IF g = f THEN "done"
                    ELSE IF g \in freed /\ state[g] # "none" THEN "freed" ELSE state[g]
  BY DEF FinishIs
<1>8. state[f] \in Alive
  BY DEF FinishIs, Alive
<1>9. \A g \in FramesOfTree(tree) :
              /\ state'[g] \in {"none", "fresh", "suspended"} => g # f /\ state[g] = state'[g]
              /\ state'[g] \in {"fresh", "suspended"} => g \notin freed
              /\ state'[g] = "done" => g = f \/ (state[g] = "done" /\ g \notin freed)
              /\ state[g] # "none" => state'[g] # "none"
              /\ g # f /\ g \notin freed => state'[g] = state[g]
  BY <1>7
<1> QED
  BY <1>2, <1>3, <1>4, <1>5, <1>6, <1>8, <1>9

(* Control goes up, to the awaiter or from a helper to its combinator.     *)
LEMMA FinishGoes ==
  ASSUME Inv, Main, NEW f, NEW r, NEW freed, FinishIs(f, r, freed)
  PROVE  \/ running' = Nobody /\ \E q \in Combs(tree) : \E i \in DOMAIN tree.subs[q] : f = <<q, i>>
         \/ \E q \in NodesOf(tree) : \E i \in DOMAIN tree.subs[q] :
              /\ f = Frame(tree.subs[q][i]) /\ running' = ParentOf(tree, q, i)
              /\ state[running'] = "suspended" /\ state'[running'] = "suspended"
         \/ \E q \in Combs(tree) : \E i \in DOMAIN tree.subs[q] :
              /\ f = <<q, i>> /\ running' = Frame(q) /\ state[f] = "suspended"
              /\ state[running'] = "suspended" /\ state'[running'] = "suspended"
<1>1. tree \in Trees /\ f \in FramesOfTree(tree) \ {Frame(Root)} /\ running = f /\ running # Nobody
  BY InvFacts DEF FinishIs
<1>2. ASSUME NEW x \in NodesOf(tree), f = Frame(x)
      PROVE  \E q \in NodesOf(tree) : \E i \in DOMAIN tree.subs[q] :
              /\ f = Frame(tree.subs[q][i]) /\ running' = ParentOf(tree, q, i)
              /\ state[running'] = "suspended" /\ state'[running'] = "suspended"
  <2>1. x # Root /\ f[1] = x
    BY <1>1, <1>2 DEF Frame
  <2>2. PICK q \in NodesOf(tree) : \E i \in DOMAIN tree.subs[q] : tree.subs[q][i] = x
    BY <1>1, <2>1, TreeAbove
  <2>3. PICK i \in DOMAIN tree.subs[q] : tree.subs[q][i] = x
    BY <2>2
  <2> DEFINE pf == ParentOf(tree, q, i)
  <2>4. running' = prev[f]
    BY <1>2 DEF FinishIs
  <2>5. state[pf] = "suspended" /\ prev[f] = pf
    BY <1>1, <1>2, <2>3 DEF Main, ControlGoes, ControlComes
  <2>6. /\ pf \in FramesOfTree(tree) /\ pf # f /\ q \in tree.above[x]
        /\ q \in Combs(tree) => pf = <<q, i>>
        /\ q \notin Combs(tree) => pf = Frame(q)
    BY <1>1, <1>2, <2>3, EdgeIs
  <2>7. pf \notin freed
    <3>1. CASE q \in Combs(tree)
      BY <2>1, <2>6, <3>1, FinishKeeps
    <3>2. CASE q \notin Combs(tree)
      BY <2>1, <2>6, <3>2, FinishKeeps
    <3> QED
      BY <3>1, <3>2
  <2>8. state'[pf] = state[pf]
    BY <2>6, <2>7, FinishKeeps
  <2> HIDE DEF pf
  <2>9. running' = pf /\ state[running'] = "suspended" /\ state'[running'] = "suspended"
    BY <2>4, <2>5, <2>8
  <2> QED
    BY <1>2, <2>3, <2>9 DEF pf
<1>3. ASSUME NEW q \in Combs(tree), NEW i \in DOMAIN tree.subs[q], f = <<q, i>>
      PROVE  \/ running' = Nobody
             \/ /\ running' = Frame(q) /\ state[f] = "suspended"
                /\ state[running'] = "suspended" /\ state'[running'] = "suspended"
  <2>1. running' \in {Frame(q), Nobody} /\ freed = {}
    BY <1>3 DEF FinishIs
  <2>2. f # Frame(q) /\ q \in NodesOf(tree) /\ \A x : f # Frame(x)
    BY <1>1, <1>3, NotAFrame
  <2>3. state[f] = "suspended"
    BY <2>2 DEF FinishIs
  <2>4. state[Frame(q)] = "suspended"
    BY <1>3, <2>3 DEF Main, FramesWait, HelpersBelong, Alive
  <2>5. Frame(q) \in FramesOfTree(tree) /\ Frame(q) \notin freed
    BY <2>1, <2>2, FinishKeeps
  <2>6. state'[Frame(q)] = "suspended"
    BY <2>2, <2>4, <2>5, FinishKeeps
  <2> QED
    BY <2>1, <2>3, <2>4, <2>6
<1> QED
  BY <1>1, <1>2, <1>3, FrameKinds

LEMMA FinishParents ==
  ASSUME Inv, Main, NEW f, NEW r, NEW freed, FinishIs(f, r, freed)
  PROVE  ParentsWait(tree, state', prev')
<1>1. tree \in Trees /\ f \in FramesOfTree(tree) /\ running = f /\ running # Nobody /\ Swept(f, freed)
  BY InvFacts DEF FinishIs
<1>2. SUFFICES ASSUME NEW q \in NodesOf(tree), NEW j \in DOMAIN tree.subs[q],
                      state'[Frame(tree.subs[q][j])] = "suspended"
               PROVE  \/ state'[ParentOf(tree, q, j)] = "suspended"
                           /\ prev'[Frame(tree.subs[q][j])] = ParentOf(tree, q, j)
                      \/ tree.kind[q] = "any" /\ state'[Frame(q)] = "done"
  BY DEF ParentsWait
<1> DEFINE m == tree.subs[q][j]
           pf == ParentOf(tree, q, j)
<1>3. /\ m \in NodesOf(tree) \ {Root} /\ Frame(m) \in FramesOfTree(tree)
      /\ pf \in FramesOfTree(tree)
      /\ q \in Combs(tree) => pf = <<q, j>>
      /\ q \notin Combs(tree) => pf = Frame(q) /\ q \in BodiesOf(tree)
                                 /\ tree.owner[m] = q /\ tree.stmt[m] = j
  BY <1>1, EdgeIs
<1>4. Frame(m) # f /\ state[Frame(m)] = "suspended" /\ Frame(m) \notin freed
  BY <1>2, <1>3, FinishKeeps
<1>5. prev'[Frame(m)] = prev[Frame(m)]
  BY <1>3, <1>4 DEF FinishIs
<1>6. \/ state[pf] = "suspended" /\ prev[Frame(m)] = pf
      \/ tree.kind[q] = "any" /\ state[Frame(q)] = "done"
  BY <1>4 DEF Main, FramesWait, ParentsWait
<1>7. q \in Combs(tree) => (Frame(q) \in freed => tree.stmt[m] = 0 /\ f[1] \in BodiesOf(tree)
                              /\ f = Frame(f[1])
                              /\ tree.owner[q] = f[1] /\ tree.stmt[q] = Current(tree, at, f[1]))
  <2>1. \A x \in Combs(tree) : \A i \in DOMAIN tree.subs[x] :
          Frame(x) \in freed /\ Frame(tree.subs[x][i]) \notin freed =>
            /\ tree.stmt[tree.subs[x][i]] = 0 /\ f = Frame(f[1]) /\ f[1] \in BodiesOf(tree)
            /\ tree.owner[x] = f[1] /\ tree.stmt[x] = Current(tree, at, f[1])
    BY <1>1 DEF Swept
  <2> QED
    BY <1>4, <2>1
<1>8. tree.kind[q] = "any" => q \in Combs(tree) /\ tree.stmt[m] # 0
  BY <1>1, SafeIs DEF Main, Combs, Combinators
<1>9. CASE tree.kind[q] = "any" /\ state[Frame(q)] = "done"
  <2>1. Frame(q) \notin freed
    BY <1>7, <1>8, <1>9
  <2>2. Frame(q) \in FramesOfTree(tree) /\ Frame(q) # f
    BY <1>9, FinishKeeps DEF Alive
  <2>3. state'[Frame(q)] = "done"
    BY <1>9, <2>1, <2>2, FinishKeeps
  <2> QED
    BY <1>9, <2>3
<1>10. CASE state[pf] = "suspended" /\ prev[Frame(m)] = pf
  <2>1. CASE pf = f
    <3>1. CASE q \in Combs(tree)
      <4>1. state[Frame(m)] = "done"
        BY <1>1, <1>3, <1>10, <2>1, <3>1 DEF Main, ControlGoes, ResumedBecause
      <4> QED
        BY <1>4, <4>1
    <3>2. CASE q \notin Combs(tree)
      <4>1. q \in BodiesOf(tree) /\ f = Frame(q) /\ tree.owner[m] = q /\ tree.stmt[m] = j
        BY <1>3, <2>1, <3>2
      <4>2. at[q] # 0
        BY <1>1, <1>10, <2>1, <4>1 DEF Main, ControlGoes, ResumedBecause
      <4>3. j # 0
        <5>1. DOMAIN tree.subs[q] = 1 .. Len(tree.subs[q])
          BY <1>1, TreeNodes
        <5> QED
          BY <5>1
      <4>4. tree.stmt[m] = Current(tree, at, q)
        BY <1>3, <1>4, <4>1, <4>2, <4>3 DEF Main, FramesWait, OneStatement
      <4>5. Frame(m) \in freed
        BY <1>3, <4>1, <4>4 DEF FinishIs, Clears
      <4> QED
        BY <1>4, <4>5
    <3> QED
      BY <3>1, <3>2
  <2>2. CASE pf # f /\ pf \notin freed
    <3>1. state'[pf] = "suspended"
      BY <1>3, <1>10, <2>2, FinishKeeps
    <3> QED
      BY <1>5, <1>10, <3>1
  <2>3. CASE pf \in freed
    <3>1. CASE q \notin Combs(tree)
      <4>1. Frame(q) \in freed /\ q \in BodiesOf(tree)
        BY <1>3, <2>3, <3>1
      <4>2. Frame(m) \in freed
        BY <1>1, <4>1 DEF Swept
      <4> QED
        BY <1>4, <4>2
    <3>2. CASE q \in Combs(tree) /\ Frame(q) \in freed
      <4> DEFINE n == f[1]
      <4>1. /\ tree.stmt[m] = 0 /\ n \in BodiesOf(tree) /\ f = Frame(n)
            /\ tree.owner[q] = n /\ tree.stmt[q] = Current(tree, at, n)
        BY <1>7, <3>2
      <4> HIDE DEF n
      <4>2. /\ tree.kind[q] = "all"
            /\ \A x \in Combs(tree) : \A l \in DOMAIN tree.subs[x] : tree.subs[x][l] # q
        BY <1>1, <4>1, SafeIs DEF Main
      <4>3. state[Frame(n)] = "suspended"
        BY <4>1 DEF FinishIs
      <4>4. q # Root
        BY <1>1, <3>2, KindsApart
      <4>5. PICK x \in NodesOf(tree) : \E l \in DOMAIN tree.subs[x] : tree.subs[x][l] = q
        BY <1>1, <4>4, TreeAbove
      <4>6. PICK l \in DOMAIN tree.subs[x] : tree.subs[x][l] = q
        BY <4>5
      <4>7. x = n /\ l = Current(tree, at, n)
        BY <1>1, <4>1, <4>2, <4>6, EdgeIs
      <4>8. state[Frame(q)] = "done"
        BY <1>1, <4>1, <4>3, <4>6, <4>7 DEF Main, ControlGoes, ResumedBecause
      <4>9. state[Frame(m)] \in {"done", "freed"}
        BY <3>2, <4>2, <4>8 DEF Main, FramesWait, ArgumentsEnd
      <4> QED
        BY <1>4, <4>9
    <3>3. CASE q \in Combs(tree) /\ Frame(q) \notin freed
      <4>1. f = Frame(q)
        BY <1>3, <2>3, <3>3, FinishKeeps
      <4>2. state'[Frame(q)] = "done"
        BY <1>1, <4>1 DEF FinishIs
      <4>3. tree.kind[q] # "all"
        <5>1. SUFFICES ASSUME tree.kind[q] = "all" PROVE FALSE
          OBVIOUS
        <5>2. state[f] = "suspended"
          <6>1. ASSUME NEW x \in NodesOf(tree), f = Frame(x), DOMAIN tree.subs[x] = {} PROVE FALSE
            <7>1. x = q
              BY <4>1, <6>1 DEF Frame
            <7> QED
              BY <6>1, <7>1
          <6> QED
            BY <6>1 DEF FinishIs
        <5>3. state[<<q, j>>] = "done"
          BY <1>1, <3>3, <4>1, <5>1, <5>2 DEF Main, ControlGoes, ResumedBecause
        <5> QED
          BY <1>3, <1>10, <3>3, <5>3
      <4>4. tree.kind[q] = "any"
        BY <1>1, <3>3, <4>3, KindsApart
      <4> QED
        BY <4>2, <4>4
    <3> QED
      BY <3>1, <3>2, <3>3
  <2> QED
    BY <2>1, <2>2, <2>3
<1> QED
  BY <1>6, <1>9, <1>10

LEMMA FinishHelpers ==
  ASSUME Inv, Main, NEW f, NEW r, NEW freed, FinishIs(f, r, freed)
  PROVE  /\ HelpersBelong(tree, state', prev') /\ HelpersInTurn(tree, state', at', running')
         /\ ArgumentsEnd(tree, state')
<1>1. tree \in Trees /\ f \in FramesOfTree(tree) /\ running = f /\ running # Nobody /\ at' = at
  BY InvFacts DEF FinishIs
<1>2. ASSUME NEW q \in Combs(tree), NEW j \in DOMAIN tree.subs[q]
      PROVE  /\ state'[Frame(q)] = "suspended" => state'[<<q, j>>] \in {"fresh", "suspended", "done"}
             /\ state'[<<q, j>>] \in Alive =>
                  /\ state'[Frame(q)] = "suspended"
                  /\ prev'[<<q, j>>] = IF tree.kind[q] = "any" THEN Frame(q) ELSE Nobody
             /\ state'[Frame(q)] = "suspended" /\ j > at'[q] => state'[<<q, j>>] = "fresh"
             /\ running' = <<q, j>> => j <= at'[q]
             /\ state'[<<q, j>>] = "done" => state'[Frame(tree.subs[q][j])] = "done"
             /\ tree.kind[q] = "all" /\ state'[Frame(q)] = "done" =>
                  state'[Frame(tree.subs[q][j])] \in {"done", "freed"}
  <2> DEFINE m == tree.subs[q][j]
             h == <<q, j>>
  <2>1. /\ q \in NodesOf(tree) /\ h \in FramesOfTree(tree) /\ \A x : h # Frame(x)
        /\ Frame(q) \in FramesOfTree(tree) /\ Frame(m) \in FramesOfTree(tree)
        /\ m \in NodesOf(tree) \ {Root} /\ Frame(q) # Frame(m)
        /\ Frame(q) \in freed => h \in freed
        /\ h \in freed => Frame(q) \in freed \/ f = Frame(q)
    <3>1. q \in NodesOf(tree) /\ q \notin tree.above[q]
      BY <1>1, TreeAbove DEF Combs
    <3>2. m \in NodesOf(tree) \ {Root} /\ Frame(m) \in FramesOfTree(tree) /\ q \in tree.above[m]
      BY <1>1, <3>1, EdgeIs
    <3>3. Frame(q) # Frame(m)
      BY <3>1, <3>2 DEF Frame
    <3> QED
      BY <3>1, <3>2, <3>3, FinishKeeps
  <2>2. Frame(m) \in freed => Frame(q) \in freed
    <3>1. Swept(f, freed)
      BY DEF FinishIs
    <3> QED
      BY <3>1 DEF Swept
  <2>3. /\ state[Frame(q)] = "suspended" => state[h] \in {"fresh", "suspended", "done"}
        /\ state[h] \in Alive =>
             /\ state[Frame(q)] = "suspended"
             /\ prev[h] = IF tree.kind[q] = "any" THEN Frame(q) ELSE Nobody
        /\ state[Frame(q)] = "suspended" /\ j > at[q] => state[h] = "fresh"
        /\ state[h] = "done" => state[Frame(m)] = "done"
        /\ tree.kind[q] = "all" /\ state[Frame(q)] = "done" => state[Frame(m)] \in {"done", "freed"}
        /\ running = h => j <= at[q]
    BY DEF Main, FramesWait, ControlGoes, HelpersBelong, HelpersInTurn, ArgumentsEnd
  <2>4. /\ \A g \in FramesOfTree(tree) :
              /\ state'[g] = IF g = f THEN "done"
                             ELSE IF g \in freed /\ state[g] # "none" THEN "freed" ELSE state[g]
              /\ g # f => prev'[g] = prev[g]
        /\ f \notin freed
    BY DEF FinishIs, Swept
  <2>5. state[f] \in Alive
    BY FinishKeeps
  <2>6. f = h => freed = {} /\ state[Frame(m)] = "done"
    <3>1. SUFFICES ASSUME f = h PROVE freed = {} /\ state[Frame(m)] = "done"
      OBVIOUS
    <3>2. freed = {} /\ state[f] = "suspended"
      BY <2>1, <3>1 DEF FinishIs
    <3> QED
      BY <1>1, <3>1, <3>2 DEF Main, ControlGoes, ResumedBecause
  <2>7. f = Frame(q) /\ tree.kind[q] = "all" => state[Frame(m)] = "done"
    <3>1. SUFFICES ASSUME f = Frame(q), tree.kind[q] = "all" PROVE state[Frame(m)] = "done"
      OBVIOUS
    <3>2. state[f] = "suspended"
      <4>1. ASSUME NEW x \in NodesOf(tree), f = Frame(x), DOMAIN tree.subs[x] = {} PROVE FALSE
        <5>1. x = q
          BY <3>1, <4>1 DEF Frame
        <5> QED
          BY <4>1, <5>1
      <4> QED
        BY <4>1 DEF FinishIs
    <3>3. state[h] = "done"
      BY <1>1, <3>1, <3>2 DEF Main, ControlGoes, ResumedBecause
    <3> QED
      BY <2>3, <3>3
  <2>8. running' = h => state[h] = "suspended"
    <3>1. SUFFICES ASSUME running' = h PROVE state[h] = "suspended"
      OBVIOUS
    <3>2. h # Nobody
      BY <1>1, <2>1, FrameKinds
    <3> QED
      BY <2>1, <3>1, <3>2, FinishGoes
  <2> HIDE DEF m, h
  <2>9. running' = h => j <= at[q]
    <3>1. SUFFICES ASSUME running' = h PROVE j <= at[q]
      OBVIOUS
    <3>2. state[Frame(q)] = "suspended" /\ ~(j > at[q])
      BY <2>3, <2>8, <3>1 DEF Alive
    <3>3. at[q] \in Nat /\ j \in Nat
      <4>1. DOMAIN tree.subs[q] = 1 .. Len(tree.subs[q])
        BY <1>1, <2>1, TreeNodes
      <4> QED
        BY <2>1, <4>1, InvFacts
    <3> QED
      BY <3>2, <3>3
  <2>10. state'[Frame(q)] = "suspended" => state[Frame(q)] = "suspended" /\ Frame(q) # f /\ h \notin freed
    BY <2>1, <2>4
  <2>11. state'[Frame(q)] = "suspended" => state'[h] \in {"fresh", "suspended", "done"}
    BY <2>1, <2>3, <2>4, <2>10
  <2>12. state'[h] \in Alive => state[h] = state'[h] /\ h # f /\ h \notin freed
    BY <2>1, <2>4 DEF Alive
  <2>13. state'[h] \in Alive => state'[Frame(q)] = "suspended"
    <3>1. SUFFICES ASSUME state'[h] \in Alive PROVE state'[Frame(q)] = "suspended"
      OBVIOUS
    <3>2. state[Frame(q)] = "suspended" /\ Frame(q) \notin freed /\ h \notin freed
      BY <2>1, <2>3, <2>12, <3>1
    <3>3. f # Frame(q)
      <4>1. f = Frame(q) => h \in freed
        <5>1. Swept(f, freed)
          BY DEF FinishIs
        <5> QED
          BY <5>1 DEF Swept, h
      <4> QED
        BY <3>2, <4>1
    <3> QED
      BY <2>1, <2>4, <3>2, <3>3
  <2>14. state'[Frame(q)] = "suspended" /\ j > at[q] => state'[h] = "fresh"
    <3>1. SUFFICES ASSUME state'[Frame(q)] = "suspended", j > at[q] PROVE state'[h] = "fresh"
      OBVIOUS
    <3>2. state[h] = "fresh" /\ h \notin freed
      BY <2>3, <2>10, <3>1
    <3>3. h # f
      <4>1. f = h => state[h] = "suspended"
        BY <2>1 DEF FinishIs
      <4> QED
        BY <3>2, <4>1
    <3> QED
      BY <2>1, <2>4, <3>2, <3>3
  <2>15. state'[h] = "done" => state'[Frame(m)] = "done"
    <3>1. SUFFICES ASSUME state'[h] = "done" PROVE state'[Frame(m)] = "done"
      OBVIOUS
    <3>2. state[Frame(m)] = "done" /\ Frame(m) \notin freed
      <4>1. CASE f = h
        BY <2>6, <4>1
      <4>2. CASE f # h
        BY <2>1, <2>2, <2>3, <2>4, <3>1, <4>2
      <4> QED
        BY <4>1, <4>2
    <3> QED
      BY <2>1, <2>4, <2>5, <3>2 DEF Alive
  <2>16. ASSUME tree.kind[q] = "all", state'[Frame(q)] = "done"
         PROVE  state'[Frame(m)] \in {"done", "freed"}
    <3>1. state[Frame(m)] \in {"done", "freed"}
      BY <2>1, <2>3, <2>4, <2>7, <2>16
    <3> QED
      BY <2>1, <2>4, <3>1
  <2> QED
    BY <1>1, <2>1, <2>3, <2>4, <2>9, <2>11, <2>12, <2>13, <2>14, <2>15, <2>16 DEF m, h
<1> QED
  BY <1>2 DEF HelpersBelong, HelpersInTurn, ArgumentsEnd

LEMMA FinishMade ==
  ASSUME Inv, Main, NEW f, NEW r, NEW freed, FinishIs(f, r, freed)
  PROVE  /\ ArgumentsLast(tree, state') /\ OneStatement(tree, state', at')
         /\ NothingBelow(tree, state', outcome')
<1>1. /\ tree \in Trees /\ f \in FramesOfTree(tree) /\ running = f /\ running # Nobody /\ at' = at
      /\ Swept(f, freed)
  BY InvFacts DEF FinishIs
<1>2. \A g \in FramesOfTree(tree) :
        /\ state'[g] = IF g = f THEN "done"
                       ELSE IF g \in freed /\ state[g] # "none" THEN "freed" ELSE state[g]
        /\ outcome'[g] = IF g = f THEN r ELSE outcome[g]
  BY DEF FinishIs
<1>3. \A m \in NodesOf(tree) : Frame(m) \in FramesOfTree(tree)
  BY FinishKeeps
<1>4. ASSUME NEW q \in Combs(tree), NEW j \in DOMAIN tree.subs[q],
             state'[Frame(q)] = "fresh" \/ state'[<<q, j>>] = "fresh"
      PROVE  state'[Frame(tree.subs[q][j])] = "fresh"
  <2> DEFINE m == tree.subs[q][j]
  <2>1. /\ q \in NodesOf(tree) /\ <<q, j>> \in FramesOfTree(tree)
        /\ Frame(q) \in freed => <<q, j>> \in freed
    BY FinishKeeps
  <2>2. /\ m \in NodesOf(tree) /\ Frame(m) \in FramesOfTree(tree)
        /\ ParentOf(tree, q, j) = <<q, j>>
    BY <1>1, <2>1, EdgeIs
  <2>3. Frame(m) \in freed => Frame(q) \in freed
    BY <1>1 DEF Swept
  <2>4. \/ state[Frame(q)] = "fresh" /\ Frame(q) \notin freed
        \/ state[<<q, j>>] = "fresh" /\ <<q, j>> \notin freed
    BY <1>2, <1>3, <1>4, <2>1
  <2>5. state[Frame(m)] = "fresh"
    BY <2>4 DEF Main, FramesWait, ArgumentsLast
  <2>6. Frame(m) # f
    <3>1. SUFFICES ASSUME Frame(m) = f PROVE FALSE
      OBVIOUS
    <3>2. state[<<q, j>>] = "suspended"
      BY <1>1, <2>1, <2>2, <3>1 DEF Main, ControlGoes, ControlComes
    <3>3. state[Frame(q)] = "suspended"
      BY <3>2 DEF Main, FramesWait, HelpersBelong, Alive
    <3> QED
      BY <2>4, <3>2, <3>3
  <2>7. Frame(m) \notin freed
    BY <2>1, <2>3, <2>4
  <2> QED
    BY <1>2, <2>2, <2>5, <2>6, <2>7
<1>5. ASSUME NEW m \in NodesOf(tree) \ {Root}, tree.stmt[m] = 0,
             state'[Frame(tree.owner[m])] \in Alive
      PROVE  state'[Frame(m)] \notin {"none", "freed"}
  <2>1. Frame(tree.owner[m]) \in FramesOfTree(tree)
    BY <1>1, <1>3, TreeNodes
  <2>2. state[Frame(tree.owner[m])] \in Alive /\ Frame(tree.owner[m]) \notin freed
    BY <1>2, <1>5, <2>1 DEF Alive
  <2>3. state[Frame(m)] \notin {"none", "freed"}
    BY <1>5, <2>2 DEF Main, FramesWait, ArgumentsLast
  <2>4. Frame(m) \notin freed
    BY <1>1, <1>5, <2>2 DEF Swept
  <2> QED
    BY <1>2, <1>3, <2>3, <2>4
<1>6. OneStatement(tree, state', at')
  <2>1. ASSUME NEW m \in NodesOf(tree), state'[Frame(m)] \notin {"none", "freed"}
        PROVE  state[Frame(m)] \notin {"none", "freed"}
    <3>1. state[f] \in Alive
      BY FinishKeeps
    <3> QED
      BY <1>2, <1>3, <2>1, <3>1 DEF Alive
  <2>2. OneStatement(tree, state, at)
    BY DEF Main, FramesWait
  <2> QED
    BY <1>1, <2>1, <2>2 DEF OneStatement
<1>7. ASSUME NEW m \in NodesOf(tree), NEW y \in tree.above[m], state'[Frame(y)] \in Unborn
      PROVE  state'[Frame(m)] \in Unborn \cup {"freed"} /\ outcome'[Frame(m)] = "none"
  <2>1. y \in NodesOf(tree)
    BY <1>1, TreeAbove
  <2>2. state[Frame(y)] \in Unborn
    BY <1>2, <1>3, <1>7, <2>1 DEF Unborn
  <2>3. state[Frame(m)] \in Unborn \cup {"freed"} /\ outcome[Frame(m)] = "none"
    BY <2>2 DEF Main, FramesWait, NothingBelow
  <2>4. Frame(m) # f
    <3>1. SUFFICES ASSUME Frame(m) = f PROVE FALSE
      OBVIOUS
    <3>2. running[1] = m
      BY <1>1, <3>1 DEF Frame
    <3> QED
      BY <1>1, <2>2, <3>2, AllAboveBegun
  <2> QED
    BY <1>2, <1>3, <2>3, <2>4 DEF Unborn
<1> QED
  BY <1>4, <1>5, <1>6, <1>7 DEF ArgumentsLast, NothingBelow

LEMMA FinishOutcomes ==
  ASSUME Inv, Main, NEW f, NEW r, NEW freed, FinishIs(f, r, freed)
  PROVE  /\ OutcomesKept(tree, state', outcome') /\ StatementsEnded(tree, state', at', outcome')
         /\ EndedAtOnce(tree, outcome', loops')
<1>1. tree \in Trees /\ at' = at /\ loops' = loops /\ r \in {"value", "thrown", "timeout"}
  BY InvFacts DEF FinishIs
<1>2. \A g \in FramesOfTree(tree) :
        /\ state'[g] = IF g = f THEN "done"
                       ELSE IF g \in freed /\ state[g] # "none" THEN "freed" ELSE state[g]
        /\ outcome'[g] = IF g = f THEN r ELSE outcome[g]
  BY DEF FinishIs
<1>3. OutcomesKept(tree, state', outcome')
  BY <1>1, <1>2 DEF Main, FramesWait, OutcomesKept
<1>4. StatementsEnded(tree, state', at', outcome')
  <2>1. ASSUME NEW n \in BodiesOf(tree), state'[Frame(n)] = "suspended" PROVE at[n] # 0
    <3>1. n \in NodesOf(tree)
      BY DEF BodiesOf
    <3>2. state[Frame(n)] = "suspended"
      BY <2>1, <3>1, FinishKeeps
    <3> QED
      BY <3>2 DEF Main, FramesWait, StatementsEnded
  <2>2. ASSUME NEW n \in BodiesOf(tree), tree.kind[n] = "task", NEW k \in DOMAIN tree.subs[n], k < at[n]
        PROVE  outcome'[Frame(tree.subs[n][k])] # "none"
    <3>1. Frame(tree.subs[n][k]) \in FramesOfTree(tree)
      BY <1>1, EdgeIs DEF BodiesOf
    <3>2. outcome[Frame(tree.subs[n][k])] # "none"
      BY <2>2 DEF Main, FramesWait, StatementsEnded
    <3> QED
      BY <1>1, <1>2, <3>1, <3>2
  <2> QED
    BY <1>1, <2>1, <2>2 DEF StatementsEnded
<1>5. EndedAtOnce(tree, outcome', loops')
  <2>1. SUFFICES ASSUME NEW i \in 1 .. Len(loops), NEW m \in NodesOf(tree), loops[i] \in tree.above[m]
                 PROVE  /\ outcome'[Frame(m)] # "thrown"
                        /\ outcome'[Frame(m)] # "none" => m \in EndsAtOnce(tree)
    BY <1>1 DEF EndedAtOnce
  <2>2. CASE f = Frame(m)
    <3>1. r # "thrown" /\ m \in EndsAtOnce(tree)
      BY <2>1, <2>2 DEF FinishIs
    <3> QED
      BY <1>1, <1>2, <2>2, <3>1, FinishKeeps
  <2>3. CASE f # Frame(m)
    <3>1. outcome'[Frame(m)] = outcome[Frame(m)]
      BY <1>2, <2>3, FinishKeeps
    <3> QED
      BY <2>1, <3>1 DEF Main, ControlGoes, EndedAtOnce
  <2> QED
    BY <2>2, <2>3
<1> QED
  BY <1>3, <1>4, <1>5

(* A helper that ends in the loop of its when_any, or is the last of a     *)
(* when_all that is resuming helpers, does not exist.                      *)
LEMMA FinishLeavesLoop ==
  ASSUME Inv, Main, NEW f, NEW r, NEW freed, FinishIs(f, r, freed),
         NEW q \in Combs(tree), NEW i \in DOMAIN tree.subs[q], f = <<q, i>>, running' = Frame(q),
         NEW j \in 1 .. Len(loops), loops[j] = q
  PROVE  FALSE
<1> DEFINE m == tree.subs[q][i]
           L == Len(tree.subs[q])
<1>a. /\ tree \in Trees /\ running = f /\ f \in FramesOfTree(tree)
      /\ Nobody \notin FramesOfTree(tree)
  BY InvFacts DEF FinishIs
<1>b. q \in NodesOf(tree) /\ tree.kind[q] \in {"any", "all"}
  BY <1>a, KindsApart
<1>c. \A x : f # Frame(x)
  BY <1>a, NotAFrame
<1>1. /\ tree \in Trees /\ running = f /\ running # Nobody /\ q \in NodesOf(tree)
      /\ tree.kind[q] \in {"any", "all"} /\ \A x : f # Frame(x)
  BY <1>a, <1>b, <1>c
<1>2. m \in NodesOf(tree) /\ q \in tree.above[m] /\ Frame(m) \in FramesOfTree(tree)
  BY <1>1, EdgeIs
<1>3. L \in Nat /\ DOMAIN tree.subs[q] = 1 .. L /\ at[q] \in Nat
  BY <1>1, TreeNodes, InvFacts
<1>4. i <= at[q] /\ at[q] < L
  BY <1>1 DEF Main, ControlGoes, HelpersInTurn, Inv, CombinatorInv, LoopsOnce
<1>5. state[f] = "suspended"
  BY <1>1 DEF FinishIs
<1>6. CASE tree.kind[q] = "any"
  <2>1. state[Frame(m)] = "done"
    BY <1>1, <1>5 DEF Main, ControlGoes, ResumedBecause
  <2>2. outcome[Frame(m)] # "none"
    BY <1>2, <2>1 DEF Main, FramesWait, OutcomesKept
  <2>3. m \in EndsAtOnce(tree)
    BY <1>2, <2>2 DEF Main, ControlGoes, EndedAtOnce
  <2>4. i < L
    BY <1>3, <1>4
  <2> QED
    BY <1>1, <1>6, <2>3, <2>4, SafeIs DEF Main
<1>7. CASE tree.kind[q] = "all"
  <2>1. state'[<<q, L>>] \in {"done", "freed"} /\ L \in DOMAIN tree.subs[q]
    BY <1>3, <1>4, <1>7 DEF FinishIs
  <2>2. state[Frame(q)] = "suspended"
    BY <1>5 DEF Main, FramesWait, HelpersBelong, Alive
  <2>3. L > at[q]
    BY <1>3, <1>4
  <2>4. state[<<q, L>>] = "fresh"
    BY <2>1, <2>2, <2>3 DEF Main, ControlGoes, HelpersInTurn
  <2>5. <<q, L>> # f /\ freed = {}
    BY <1>3, <1>4 DEF FinishIs
  <2>6. <<q, L>> \in FramesOfTree(tree)
    BY <1>1, <2>1, NotAFrame
  <2>7. state'[<<q, L>>] = state[<<q, L>>]
    BY <2>5, <2>6, FinishKeeps
  <2> QED
    BY <2>1, <2>4, <2>7
<1> QED
  BY <1>1, <1>6, <1>7

LEMMA FinishNested ==
  ASSUME Inv, Main, NEW f, NEW r, NEW freed, FinishIs(f, r, freed)
  PROVE  LoopsNested(tree, state', at', loops', running')
<1>1. /\ tree \in Trees /\ f \in FramesOfTree(tree) /\ running = f /\ running # Nobody
      /\ at' = at /\ loops' = loops
  BY InvFacts DEF FinishIs
<1>2. SUFFICES ASSUME NEW j \in 1 .. Len(loops)
               PROVE  /\ state'[Frame(loops[j])] = "suspended"
                      /\ running' # Nobody =>
                           /\ running' # Frame(loops[j])
                           /\ running'[1] = loops[j] \/ loops[j] \in tree.above[running'[1]]
  BY <1>1 DEF Main, ControlGoes, LoopsNested
<1> DEFINE c == loops[j]
<1>3. c \in Combs(tree) /\ c \in NodesOf(tree)
  BY InvFacts, ElementOfSeq DEF Combs
<1>4. /\ state[Frame(c)] = "suspended" /\ f # Frame(c)
      /\ f[1] = c \/ c \in tree.above[f[1]]
  BY <1>1 DEF Main, ControlGoes, LoopsNested
<1> HIDE DEF c
<1>5. Frame(c) \in FramesOfTree(tree) /\ Frame(c) \notin freed
  BY <1>3, <1>4, FinishKeeps
<1>6. state'[Frame(c)] = "suspended"
  BY <1>4, <1>5, FinishKeeps
<1>7. ASSUME NEW q \in NodesOf(tree), NEW i \in DOMAIN tree.subs[q],
             f = Frame(tree.subs[q][i]), running' = ParentOf(tree, q, i)
      PROVE  running' # Frame(c) /\ (running'[1] = c \/ c \in tree.above[running'[1]])
  <2>1. /\ running'[1] = q /\ tree.above[tree.subs[q][i]] = tree.above[q] \cup {q}
        /\ q \in Combs(tree) => \A x : running' # Frame(x)
        /\ q \notin Combs(tree) => running' = Frame(q)
    BY <1>1, <1>7, EdgeIs
  <2>2. f[1] = tree.subs[q][i] /\ f[1] # c
    BY <1>4, <1>7 DEF Frame
  <2>3. running' # Frame(c)
    BY <1>3, <2>1 DEF Frame
  <2> QED
    BY <1>4, <2>1, <2>2, <2>3
<1>8. ASSUME NEW q \in Combs(tree), NEW i \in DOMAIN tree.subs[q], f = <<q, i>>, running' = Frame(q)
      PROVE  running' # Frame(c) /\ (running'[1] = c \/ c \in tree.above[running'[1]])
  <2>1. q # c
    BY <1>8, FinishLeavesLoop DEF c
  <2>2. f[1] = q /\ running'[1] = q
    BY <1>8 DEF Frame
  <2> QED
    BY <1>4, <1>8, <2>1, <2>2 DEF Frame
<1> QED
  BY <1>6, <1>7, <1>8, FinishGoes DEF c

LEMMA FinishControl ==
  ASSUME Inv, Main, NEW f, NEW r, NEW freed, FinishIs(f, r, freed)
  PROVE  /\ ControlComes(tree, state', prev', running')
         /\ LeavesAtRest(tree, state', armed', loops', running')
<1>1. /\ tree \in Trees /\ f \in FramesOfTree(tree) /\ running = f /\ running # Nobody
      /\ armed' = armed \ freed
      /\ \A g \in FramesOfTree(tree) : g # f => prev'[g] = prev[g]
  BY InvFacts DEF FinishIs
<1>2. ASSUME NEW q \in NodesOf(tree), NEW i \in DOMAIN tree.subs[q],
             running' = Frame(tree.subs[q][i])
      PROVE  state'[ParentOf(tree, q, i)] = "suspended" /\ prev'[running'] = ParentOf(tree, q, i)
  <2> DEFINE m == tree.subs[q][i]
             pf == ParentOf(tree, q, i)
  <2>1. /\ m \in NodesOf(tree) /\ Frame(m) \in FramesOfTree(tree) /\ Frame(m) # Nobody
        /\ pf \in FramesOfTree(tree) /\ q \in tree.above[m]
        /\ q \in Combs(tree) => pf = <<q, i>>
        /\ q \notin Combs(tree) => pf = Frame(q)
    BY <1>1, EdgeIs, FrameKinds
  <2>2. /\ f # Frame(m) /\ state[Frame(m)] = "suspended"
        /\ f[1] = m \/ m \in tree.above[f[1]]
    <3>1. ASSUME NEW x \in NodesOf(tree), NEW j \in DOMAIN tree.subs[x],
                 f = Frame(tree.subs[x][j]), running' = ParentOf(tree, x, j)
          PROVE  m \in tree.above[f[1]] /\ f # Frame(m)
      <4>1. /\ running'[1] = x /\ tree.above[tree.subs[x][j]] = tree.above[x] \cup {x}
            /\ ParentOf(tree, x, j) # Frame(tree.subs[x][j])
        BY <1>1, <3>1, EdgeIs
      <4>2. m = x /\ f[1] = tree.subs[x][j]
        BY <1>2, <3>1, <4>1 DEF Frame
      <4> QED
        BY <1>2, <3>1, <4>1, <4>2
    <3>2. ASSUME NEW x \in Combs(tree), NEW j \in DOMAIN tree.subs[x], f = <<x, j>>, running' = Frame(x)
          PROVE  f[1] = m /\ f # Frame(m)
      BY <1>1, <1>2, <3>2, NotAFrame DEF Frame
    <3>3. state[running'] = "suspended"
      BY <1>2, <2>1, FinishGoes
    <3>4. f # Frame(m)
      BY <1>2, <2>1, <3>1, <3>2, FinishGoes
    <3>5. f[1] = m \/ m \in tree.above[f[1]]
      BY <1>2, <2>1, <3>1, <3>2, FinishGoes
    <3> QED
      BY <1>2, <3>3, <3>4, <3>5
  <2> HIDE DEF m, pf
  <2>3. q \in tree.above[f[1]] /\ f[1] \in NodesOf(tree)
    <3>1. m \in tree.above[f[1]] => tree.above[m] \subseteq tree.above[f[1]]
      BY <1>1, <2>1, TreeAbove, FinishKeeps
    <3> QED
      BY <2>1, <2>2, <3>1, FinishKeeps
  <2>4. ASSUME tree.kind[q] = "any", state[Frame(q)] = "done" PROVE FALSE
    <3>1. f[1] \in tree.above[q]
      BY <1>1, <2>4 DEF Main, ControlGoes, GoesToOwner
    <3>2. tree.above[q] \subseteq tree.above[f[1]] /\ f[1] \notin tree.above[f[1]]
      BY <1>1, <2>3, TreeAbove
    <3> QED
      BY <3>1, <3>2
  <2>5. state[pf] = "suspended" /\ prev[Frame(m)] = pf
    BY <2>2, <2>4 DEF Main, FramesWait, ParentsWait, m, pf
  <2>6. pf \notin freed
    <3>1. CASE q \in Combs(tree)
      BY <2>1, <2>3, <3>1, FinishKeeps
    <3>2. CASE q \notin Combs(tree)
      BY <2>1, <2>3, <3>2, FinishKeeps
    <3> QED
      BY <3>1, <3>2
  <2>7. pf # f
    <3>1. pf[1] = q
      BY <1>1, EdgeIs DEF pf
    <3>2. f[1] \notin tree.above[f[1]]
      BY <1>1, <2>3, TreeAbove
    <3> QED
      BY <2>3, <3>1, <3>2
  <2>8. state'[pf] = "suspended"
    BY <2>1, <2>5, <2>6, <2>7, FinishKeeps
  <2>9. prev'[Frame(m)] = prev[Frame(m)]
    BY <1>1, <2>1, <2>2
  <2> QED
    BY <1>2, <2>5, <2>8, <2>9 DEF m, pf
<1>3. running' # Nobody => state'[running'] = "suspended"
  BY FinishGoes
<1>4. ControlComes(tree, state', prev', running')
  BY <1>2, <1>3 DEF ControlComes, Alive
<1>5. ASSUME NEW m \in NodesOf(tree), tree.kind[m] \in Leaves PROVE running' # Frame(m)
  <2>1. Frame(m) # Nobody
    BY <1>1, FrameKinds
  <2>2. ASSUME NEW q \in NodesOf(tree), NEW i \in DOMAIN tree.subs[q], running' = ParentOf(tree, q, i)
        PROVE  running' # Frame(m)
    <3>1. q \in Combs(tree) => \A x : running' # Frame(x)
      BY <1>1, <2>2, EdgeIs
    <3>2. q \notin Combs(tree) => running' = Frame(q) /\ q \in BodiesOf(tree)
      BY <1>1, <2>2, EdgeIs
    <3>3. q \in BodiesOf(tree) => tree.kind[q] \notin Leaves
      BY <1>1, KindsApart
    <3>4. Frame(q) = Frame(m) => q = m
      BY DEF Frame
    <3> QED
      BY <1>5, <3>1, <3>2, <3>3, <3>4
  <2>3. ASSUME NEW q \in Combs(tree), running' = Frame(q) PROVE running' # Frame(m)
    <3>1. q # m
      BY <1>1, <1>5, KindsApart
    <3> QED
      BY <2>3, <3>1 DEF Frame
  <2> QED
    BY <2>1, <2>2, <2>3, FinishGoes
<1>6. LeavesAtRest(tree, state', armed', loops', running')
  <2>1. SUFFICES ASSUME NEW m \in NodesOf(tree), Frame(m) \in armed', tree.kind[m] # "event"
                 PROVE  state'[Frame(m)] = "suspended" /\ running' # Frame(m)
    BY <1>5 DEF LeavesAtRest
  <2>2. Frame(m) \in armed /\ Frame(m) \notin freed
    BY <1>1, <2>1
  <2>3. state[Frame(m)] = "suspended" /\ running # Frame(m)
    BY <2>1, <2>2 DEF Main, ControlGoes, LeavesAtRest
  <2>4. state'[Frame(m)] = "suspended"
    BY <1>1, <2>2, <2>3, FinishKeeps
  <2>5. tree.kind[m] \in Leaves
    <3>1. PICK x \in NodesOf(tree) : Frame(m) = Frame(x) /\ tree.kind[x] \in Leaves
      BY <2>2 DEF Inv, TypeInv, ArmedWait
    <3>2. x = m
      BY <3>1 DEF Frame
    <3> QED
      BY <3>1, <3>2
  <2> QED
    BY <1>5, <2>4, <2>5
<1> QED
  BY <1>4, <1>6

LEMMA FinishBecause ==
  ASSUME Inv, Main, NEW f, NEW r, NEW freed, FinishIs(f, r, freed)
  PROVE  /\ ResumedBecause(tree, state', at', running')
         /\ GoesToOwner(tree, state', running')
<1>1. /\ tree \in Trees /\ f \in FramesOfTree(tree) \ {Frame(Root)} /\ running = f /\ running # Nobody /\ at' = at
      /\ state'[f] = "done" /\ Nobody \notin FramesOfTree(tree)
  BY InvFacts DEF FinishIs
<1>2. ASSUME running' # Nobody PROVE ResumedBecause(tree, state', at', running')
  <2>1. ASSUME NEW q \in NodesOf(tree), NEW i \in DOMAIN tree.subs[q],
               f = Frame(tree.subs[q][i]), running' = ParentOf(tree, q, i),
               state[running'] = "suspended"
        PROVE  ResumedBecause(tree, state', at', running')
    <3> DEFINE x == tree.subs[q][i]
    <3>1. /\ x \in NodesOf(tree) \ {Root}
          /\ q \in Combs(tree) => running' = <<q, i>> /\ \A y : running' # Frame(y)
          /\ q \notin Combs(tree) => running' = Frame(q) /\ q \in BodiesOf(tree)
                                     /\ tree.owner[x] = q /\ tree.stmt[x] = i
      BY <1>1, <2>1, EdgeIs
    <3>2. ASSUME NEW n \in BodiesOf(tree), running' = Frame(n)
          PROVE  at[n] # 0 /\ state'[Frame(tree.subs[n][Current(tree, at, n)])] = "done"
      <4>1. n = q /\ q \notin Combs(tree)
        BY <3>1, <3>2 DEF Frame
      <4>2. at[n] # 0
        BY <2>1, <3>2 DEF Main, FramesWait, StatementsEnded
      <4>3. i # 0
        <5>1. DOMAIN tree.subs[q] = 1 .. Len(tree.subs[q])
          BY <1>1, TreeNodes
        <5> QED
          BY <5>1
      <4>4. state[f] \in Alive
        BY FinishKeeps
      <4>5. i = Current(tree, at, n)
        BY <2>1, <3>1, <4>1, <4>2, <4>3, <4>4 DEF Main, FramesWait, OneStatement, Alive
      <4> QED
        BY <1>1, <2>1, <4>1, <4>2, <4>5
    <3>3. ASSUME NEW c \in Combs(tree), running' = Frame(c) PROVE FALSE
      <4>1. c = q /\ q \notin Combs(tree)
        BY <3>1, <3>3 DEF Frame
      <4> QED
        BY <4>1
    <3>4. ASSUME NEW c \in Combs(tree), NEW j \in DOMAIN tree.subs[c], running' = <<c, j>>
          PROVE  state'[Frame(tree.subs[c][j])] = "done"
      <4>1. \A y : <<c, j>> # Frame(y)
        BY <1>1, NotAFrame
      <4>2. c = q /\ j = i
        BY <3>1, <3>4, <4>1
      <4> QED
        BY <1>1, <2>1, <4>2
    <3> QED
      BY <1>1, <3>2, <3>3, <3>4 DEF ResumedBecause
  <2>2. ASSUME NEW q \in Combs(tree), NEW i \in DOMAIN tree.subs[q], f = <<q, i>>,
               running' = Frame(q), state'[running'] = "suspended"
        PROVE  ResumedBecause(tree, state', at', running')
    <3>1. \A n \in BodiesOf(tree) : running' # Frame(n)
      BY <1>1, <2>2, KindsApart DEF Frame
    <3>2. \A c \in Combs(tree) : running' = Frame(c) => c = q
      BY <2>2 DEF Frame
    <3>3. \A c \in Combs(tree) : \A j \in DOMAIN tree.subs[c] : running' # <<c, j>>
      BY <1>1, <2>2, NotAFrame
    <3>4. tree.kind[q] = "all" => \A j \in DOMAIN tree.subs[q] : state'[<<q, j>>] = "done"
      <4>1. SUFFICES ASSUME tree.kind[q] = "all", NEW j \in DOMAIN tree.subs[q]
                     PROVE  state'[<<q, j>>] = "done"
        OBVIOUS
      <4>2. state'[<<q, j>>] \in {"done", "freed"}
        BY <2>2, <4>1 DEF FinishIs
      <4>3. HelpersBelong(tree, state', prev')
        BY FinishHelpers
      <4>4. state'[<<q, j>>] \in {"fresh", "suspended", "done"}
        BY <2>2, <4>3 DEF HelpersBelong
      <4> QED
        BY <4>2, <4>4
    <3> QED
      BY <1>1, <2>2, <3>1, <3>2, <3>3, <3>4 DEF ResumedBecause
  <2> QED
    BY <1>2, <2>1, <2>2, FinishGoes
<1>3. ASSUME NEW m \in NodesOf(tree), tree.kind[m] \in {"any", "event"}, state'[Frame(m)] = "done"
      PROVE  /\ running' # Nobody /\ state'[running'] = "suspended" /\ running'[1] \in tree.above[m]
             /\ running'[1] = tree.owner[m] \/ (tree.kind[running'[1]] = "any"
                                                /\ tree.owner[running'[1]] = tree.owner[m])
  <2>1. m # Root /\ tree.stmt[m] # 0
    BY <1>1, <1>3, WaitMade DEF Main
  <2>2. ASSUME NEW x \in NodesOf(tree), f = Frame(x), x \in tree.above[m] \/ x = m,
               tree.kind[x] \in {"any", "event"}, tree.owner[x] = tree.owner[m]
        PROVE  /\ running' # Nobody /\ state'[running'] = "suspended" /\ running'[1] \in tree.above[m]
               /\ running'[1] = tree.owner[m] \/ (tree.kind[running'[1]] = "any"
                                                  /\ tree.owner[running'[1]] = tree.owner[m])
    <3>1. PICK q \in NodesOf(tree) : \E i \in DOMAIN tree.subs[q] :
              /\ f = Frame(tree.subs[q][i]) /\ running' = ParentOf(tree, q, i)
              /\ state'[running'] = "suspended"
      <4>1. \A q \in Combs(tree) : \A i \in DOMAIN tree.subs[q] : f # <<q, i>>
        BY <1>1, <2>2, NotAFrame
      <4> QED
        BY <4>1, FinishGoes
    <3>2. PICK i \in DOMAIN tree.subs[q] :
              /\ f = Frame(tree.subs[q][i]) /\ running' = ParentOf(tree, q, i)
              /\ state'[running'] = "suspended"
      BY <3>1
    <3>3. x = tree.subs[q][i]
      BY <2>2, <3>2 DEF Frame
    <3>4. /\ running'[1] = q /\ running' # Nobody /\ tree.above[x] = tree.above[q] \cup {q}
          /\ q \notin Combs(tree) => tree.owner[x] = q
      BY <1>1, <3>2, <3>3, EdgeIs
    <3>5. q \in tree.above[m]
      BY <1>1, <2>2, <3>4, TreeAbove
    <3>6. q \in Combs(tree) => tree.kind[q] = "any" /\ tree.owner[q] = tree.owner[x]
      <4>1. SUFFICES ASSUME q \in Combs(tree) PROVE tree.kind[q] = "any" /\ tree.owner[q] = tree.owner[x]
        OBVIOUS
      <4>2. tree.kind[q] # "all"
        BY <1>1, <2>2, <3>3, SafeIs DEF Main
      <4>3. tree.kind[q] = "any"
        BY <1>1, <4>1, <4>2, KindsApart
      <4>4. tree.owner[x] = tree.owner[q]
        BY <1>1, <3>3, <4>1, TreeSubs DEF Combs
      <4> QED
        BY <4>3, <4>4
    <3> QED
      BY <2>2, <3>2, <3>4, <3>5, <3>6
  <2>3. CASE f = Frame(m)
    BY <1>3, <2>2, <2>3
  <2>4. CASE f # Frame(m)
    <3>1. state[Frame(m)] = "done" /\ Frame(m) \notin freed
      BY <1>3, <2>4, FinishKeeps
    <3>2. /\ state[f] = "suspended" /\ f[1] \in tree.above[m]
          /\ f[1] = tree.owner[m] \/ (tree.kind[f[1]] = "any" /\ tree.owner[f[1]] = tree.owner[m])
      BY <1>1, <1>3, <3>1 DEF Main, ControlGoes, GoesToOwner
    <3>3. CASE \E x \in NodesOf(tree) : f = Frame(x)
      <4>1. PICK x \in NodesOf(tree) : f = Frame(x)
        BY <3>3
      <4>2. f[1] = x
        BY <4>1 DEF Frame
      <4>3. CASE x = tree.owner[m]
        <5>1. x \in BodiesOf(tree)
          BY <1>1, <1>3, <4>3, WaitMade DEF Main
        <5>2. at[x] # 0
          BY <3>2, <4>1, <5>1 DEF Main, FramesWait, StatementsEnded
        <5>3. tree.stmt[m] = Current(tree, at, x)
          BY <2>1, <3>1, <4>3, <5>2 DEF Main, FramesWait, OneStatement
        <5>4. Clears(x, freed)
          BY <4>1, <5>1 DEF FinishIs
        <5>5. Frame(m) \in freed
          BY <2>1, <4>3, <5>3, <5>4 DEF Clears
        <5> QED
          BY <3>1, <5>5
      <4>4. CASE tree.kind[x] = "any" /\ tree.owner[x] = tree.owner[m]
        BY <2>2, <3>2, <4>1, <4>2, <4>4
      <4> QED
        BY <3>2, <4>2, <4>3, <4>4
    <3>4. CASE \E q \in Combs(tree) : \E i \in DOMAIN tree.subs[q] : f = <<q, i>>
      <4>1. PICK q \in Combs(tree) : \E i \in DOMAIN tree.subs[q] : f = <<q, i>>
        BY <3>4
      <4>2. PICK i \in DOMAIN tree.subs[q] : f = <<q, i>>
        BY <4>1
      <4>3. f[1] = q /\ q # tree.owner[m]
        <5>1. tree.owner[m] \in BodiesOf(tree)
          BY <1>1, <1>3, WaitMade DEF Main
        <5> QED
          BY <1>1, <4>2, <5>1, KindsApart
      <4>4. running' = Frame(q)
        BY <3>2, <4>2, <4>3 DEF FinishIs
      <4>5. running' # Nobody /\ state'[running'] = "suspended" /\ running'[1] = q
        <5>1. Frame(q) \in FramesOfTree(tree) /\ Frame(q) # Nobody
          BY <1>1, KindsApart, FrameKinds
        <5>2. Frame(q)[1] = q
          BY DEF Frame
        <5> QED
          BY <4>4, <5>1, <5>2, FinishGoes
      <4> QED
        BY <3>2, <4>3, <4>5
    <3> QED
      BY <1>1, <3>3, <3>4, FrameKinds
  <2> QED
    BY <2>3, <2>4
<1>4. ResumedBecause(tree, state', at', running')
  BY <1>2 DEF ResumedBecause
<1>5. GoesToOwner(tree, state', running')
  BY <1>3 DEF GoesToOwner
<1> QED
  BY <1>4, <1>5

LEMMA FinishMain ==
  ASSUME Inv, Main, NEW f, NEW r, NEW freed, FinishIs(f, r, freed)
  PROVE  Main'
<1>1. tree' = tree
  BY DEF FinishIs
<1> QED
  BY <1>1, FinishParents, FinishHelpers, FinishMade, FinishOutcomes, FinishNested, FinishControl, FinishBecause
  DEF Main, FramesWait, ControlGoes

(* Why a coroutine ends with an exception, and what complete_count says.   *)
Ends(f, r) ==
  /\ \A x \in NodesOf(tree) : f = Frame(x) =>
       /\ count' = count
       /\ \A q \in Combs(tree) : DOMAIN tree.subs[q] # {} => index'[q] = index[q]
       /\ r = "thrown" =>
            \/ tree.kind[x] = "fail"
            \/ /\ x \in BodiesOf(tree)
               /\ \E i \in DOMAIN tree.subs[x] : outcome[Frame(tree.subs[x][i])] = "thrown"
  /\ \A q \in Combs(tree) : \A i \in DOMAIN tree.subs[q] : f = <<q, i>> =>
       /\ r = "thrown" <=> outcome[Frame(tree.subs[q][i])] = "thrown"
       /\ tree.kind[q] = "any" /\ r # "thrown" => index'[q] = i
       /\ tree.kind[q] = "all" =>
            /\ r = "thrown" => count'[q] = count[q]
            /\ r # "thrown" => count'[q] = count[q] + 1
            /\ running' = Frame(q) <=> r # "thrown" /\ count[q] + 1 = Len(tree.subs[q])
       /\ \A x \in Combs(tree) \ {q} : count'[x] = count[x] /\ index'[x] = index[x]

Ending(f) == \E r, freed : FinishIs(f, r, freed) /\ Ends(f, r)

-----------------------------------------------------------------------------
(* The statements of a task. *)
LEMMA StartTaskAwaits ==
  ASSUME Inv, Main, NEW n \in NodesOf(tree), StartTask(n)
  PROVE  Awaiting(n)
<1>1. tree \in Trees /\ at[n] \in Nat
  BY InvFacts
<1>2. /\ tree.kind[n] \in Bodies \cup {"run"} /\ running = Frame(n)
      /\ state[Frame(n)] = "fresh" /\ Await(n, 1, {})
  BY DEF StartTask, Entered, Kind
<1>3. n \in BodiesOf(tree)
  BY <1>2 DEF BodiesOf
<1>4. at[n] = 0
  BY <1>2 DEF Inv, MakingInv, MadeInTurn, Unborn
<1>5. 1 \in DOMAIN tree.subs[n]
  <2>1. /\ Len(tree.subs[n]) \in Nat /\ DOMAIN tree.subs[n] = 1 .. Len(tree.subs[n])
        /\ tree.subs[n] \in Seq(NodesOf(tree))
        /\ tree.kind[n] \in {"run", "io"} => Len(tree.subs[n]) = 1
        /\ tree.kind[n] = "task" => tree.subs[n] # <<>>
    BY <1>1, TreeNodes
  <2>2. Len(tree.subs[n]) # 0
    <3>1. CASE tree.kind[n] = "task"
      BY <2>1, <3>1, EmptySeq
    <3>2. CASE tree.kind[n] \in {"run", "io"}
      <4>1. tree.kind[n] \in {"run", "io"} => Len(tree.subs[n]) = 1
        BY <2>1
      <4> QED
        BY <3>2, <4>1
    <3> QED
      BY <1>2, <3>1, <3>2 DEF Bodies
  <2> QED
    BY <2>1, <2>2
<1>6. 1 \in Nat \ {0} /\ 1 = IF tree.kind[n] = "io" THEN 1 ELSE 1
  OBVIOUS
<1>7. Swept(Frame(n), {})
  <2>1. \A q \in Combs(tree) : Frame(n) # Frame(q)
    BY <1>1, <1>3, KindsApart, FrameKinds
  <2> QED
    BY <2>1, SweptNone
<1>8. \A m \in Made(n, 1) : state[Frame(m)] \in Unborn
  BY <1>2, <1>4, <1>6, NoneMade
<1>9. AwaitIs(n, 1, 1, {})
  BY ONLY Inv, <1>2, <1>3, <1>5, <1>6, <1>7, <1>8, AwaitFacts
<1>20. count' = count /\ index' = index
  BY DEF StartTask, Await
<1> QED
  BY <1>9, <1>20 DEF Awaiting

LEMMA NextStatementAwaits ==
  ASSUME Inv, Main, NEW n \in NodesOf(tree), NextStatement(n)
  PROVE  Awaiting(n)
<1> DEFINE k == at[n] + 1
           freed == StatementFrames(n)
<1>1. tree \in Trees /\ at[n] \in Nat
  BY InvFacts
<1>2. /\ tree.kind[n] = "task" /\ running = Frame(n) /\ state[Frame(n)] = "suspended"
      /\ at[n] < Len(tree.subs[n]) /\ Await(n, k, freed)
  BY DEF NextStatement, Resumed, Kind, Subs
<1>3. n \in BodiesOf(tree) /\ n # Root /\ tree.kind[n] \in Bodies \cup {"run"}
  BY <1>1, <1>2, TreeNodes DEF BodiesOf, Bodies
<1>4. Len(tree.subs[n]) \in Nat /\ DOMAIN tree.subs[n] = 1 .. Len(tree.subs[n])
  BY <1>1, TreeNodes
<1>5. k \in DOMAIN tree.subs[n] /\ k \in Nat \ {0} /\ at[n] < k /\ k = at[n] + 1
  BY <1>1, <1>2, <1>4
<1>6. Current(tree, at, n) # 0
  BY <1>2, <1>3 DEF Main, FramesWait, StatementsEnded, Current
<1>7. Swept(Frame(n), freed) /\ Clears(n, freed)
  BY <1>3, <1>6, SweptStatement
<1> HIDE DEF k, freed
<1>8. \A m \in Made(n, k) : state[Frame(m)] \in Unborn
  BY <1>2, <1>3, <1>5, NoneMade
<1>9. k = IF tree.kind[n] = "io" THEN 1 ELSE k
  BY <1>2
<1>10. AwaitIs(n, k, k, freed)
  BY ONLY Inv, <1>2, <1>3, <1>5, <1>7, <1>8, <1>9, AwaitFacts
<1>20. count' = count /\ index' = index
  BY DEF NextStatement, Await
<1> QED
  BY <1>10, <1>20 DEF Awaiting

(* Nothing is below a file operation but what it makes with each try. *)
LEMMA WaitBelow ==
  ASSUME tree \in Trees, NEW n \in BodiesOf(tree), tree.kind[n] = "io",
         NEW x \in NodesOf(tree), n \in tree.above[x]
  PROVE  x \in Made(n, 1)
<1> DEFINE e == tree.subs[n][1]
<1>1. n \in NodesOf(tree) /\ n \notin Combs(tree)
  BY KindsApart
<1>2. Len(tree.subs[n]) = 1 /\ DOMAIN tree.subs[n] = 1 .. Len(tree.subs[n])
  BY <1>1, TreeNodes
<1>3. 1 \in DOMAIN tree.subs[n]
  BY <1>2
<1>4. e \in NodesOf(tree) \ {Root} /\ tree.owner[e] = n /\ tree.stmt[e] = 1
  BY <1>1, <1>3, EdgeIs
<1>5. IsWait(tree, n)
  BY <1>1, TreesAssumption DEF IsTree, NodesOf
<1>6. /\ tree.kind[e] \in {"event", "any"}
      /\ tree.stmt[x] = 1
      /\ x = e \/ \E i \in DOMAIN tree.subs[e] : x = tree.subs[e][i]
  BY <1>5 DEF IsWait, NodesOf
<1> HIDE DEF e
<1>7. ASSUME NEW i \in DOMAIN tree.subs[e], x = tree.subs[e][i]
      PROVE  x \in NodesOf(tree) \ {Root} /\ tree.owner[x] = n
  <2>1. tree.kind[e] \notin Leaves
    BY <1>1, <1>4, <1>7, KindsApart
  <2>2. tree.kind[e] \in Combinators
    BY <1>6, <2>1 DEF Leaves, Combinators
  <2> QED
    BY <1>4, <1>7, <2>2, TreeSubs
<1>8. x \in NodesOf(tree) \ {Root} /\ tree.owner[x] = n
  BY <1>4, <1>6, <1>7
<1> QED
  BY <1>1, <1>6, <1>8, MadeFacts

LEMMA RetryAwaits ==
  ASSUME Inv, Main, NEW n \in NodesOf(tree), Retry(n)
  PROVE  Awaiting(n)
<1> DEFINE k == at[n] + 1
           freed == StatementFrames(n)
<1>1. tree \in Trees /\ at[n] \in Nat
  BY InvFacts
<1>2. /\ tree.kind[n] = "io" /\ running = Frame(n) /\ state[Frame(n)] = "suspended"
      /\ Await(n, k, freed)
  BY DEF Retry, Waited, Resumed, Kind
<1>3. n \in BodiesOf(tree)
  BY <1>2 DEF BodiesOf, Bodies
<1>4. Len(tree.subs[n]) = 1 /\ DOMAIN tree.subs[n] = 1 .. Len(tree.subs[n])
  BY <1>1, <1>2, TreeNodes
<1>5. 1 \in DOMAIN tree.subs[n] /\ k \in Nat \ {0} /\ k = at[n] + 1
  BY <1>1, <1>4
<1>6. Current(tree, at, n) # 0
  BY <1>2 DEF Current
<1>7. Swept(Frame(n), freed) /\ Clears(n, freed)
  BY <1>3, <1>6, SweptStatement
<1>8. \A m \in Made(n, 1) : Frame(m) \in freed /\ m \notin BodiesOf(tree)
  <2>1. SUFFICES ASSUME NEW m \in Made(n, 1) PROVE Frame(m) \in freed /\ m \notin BodiesOf(tree)
    OBVIOUS
  <2>2. Replaced(m, freed)
    BY <1>2, <2>1, RetryReplaces
  <2>3. m # Root /\ m \in NodesOf(tree)
    BY <1>1, <2>1, MadeFacts
  <2> QED
    BY <1>1, <2>2, <2>3, TreeNodes DEF Replaced, BodiesOf
<1> HIDE DEF k, freed
<1>9. \A x \in NodesOf(tree) : n \in tree.above[x] => x \in Made(n, 1)
  BY <1>1, <1>2, <1>3, WaitBelow
<1>10. 1 = IF tree.kind[n] = "io" THEN 1 ELSE k
  BY <1>2
<1>11. AwaitIs(n, 1, k, freed)
  BY ONLY Inv, <1>2, <1>3, <1>5, <1>7, <1>8, <1>9, <1>10, AwaitFacts
<1>20. count' = count /\ index' = index
  BY DEF Retry, Await
<1> QED
  BY <1>11, <1>20 DEF Awaiting

-----------------------------------------------------------------------------
(* The ends of coroutines. *)
LEMMA FinishFacts ==
  ASSUME Inv, NEW f \in FramesOfTree(tree), NEW r, NEW freed, NEW next, FinishTo(f, r, freed, next)
  PROVE  /\ \A g \in FramesOfTree(tree) :
              /\ state'[g] = IF g = f THEN "done"
                             ELSE IF g \in freed /\ state[g] # "none" THEN "freed" ELSE state[g]
              /\ outcome'[g] = IF g = f THEN r ELSE outcome[g]
         /\ armed' = armed \ freed
         /\ running' = next
<1>1. outcome \in [FramesOfTree(tree) -> {"none", "value", "thrown", "timeout"}]
  BY InvFacts
<1> QED
  BY <1>1 DEF FinishTo, Become, TakesHandlesBack, Frames

(* Of all that runs below a combinator that resumes its helpers. *)
LEMMA BodyAwaits ==
  ASSUME Inv, Main, NEW n \in BodiesOf(tree), Resumed(Frame(n))
  PROVE  LET k == Current(tree, at, n) IN
         /\ k # 0 /\ k \in DOMAIN tree.subs[n] /\ Awaited(n) = tree.subs[n][k]
         /\ state[Frame(tree.subs[n][k])] = "done" /\ outcome[Frame(tree.subs[n][k])] # "none"
<1> DEFINE k == Current(tree, at, n)
<1>1. /\ tree \in Trees /\ Frame(n) # Nobody /\ n \in NodesOf(tree) /\ at[n] \in Nat
      /\ at[n] <= IF tree.kind[n] = "io" THEN MaxTries ELSE Len(tree.subs[n])
  BY InvFacts, FrameKinds DEF BodiesOf, Inv, TypeInv, Bounded
<1>2. at[n] # 0 /\ state[Frame(tree.subs[n][k])] = "done"
  BY <1>1 DEF Resumed, Main, ControlGoes, ResumedBecause
<1>3. /\ Len(tree.subs[n]) \in Nat /\ DOMAIN tree.subs[n] = 1 .. Len(tree.subs[n])
      /\ tree.kind[n] = "io" => Len(tree.subs[n]) = 1
  BY <1>1, TreeNodes
<1>4. k # 0 /\ k \in DOMAIN tree.subs[n]
  <2>1. CASE tree.kind[n] = "io"
    <3>1. k = 1
      BY <2>1 DEF Current
    <3>2. Len(tree.subs[n]) = 1 /\ DOMAIN tree.subs[n] = 1 .. Len(tree.subs[n])
      BY <1>3, <2>1
    <3>3. 1 \in DOMAIN tree.subs[n]
      BY <3>2
    <3> QED
      BY ONLY <3>1, <3>3
  <2>2. CASE tree.kind[n] # "io"
    <3>1. k = at[n]
      BY <2>2 DEF Current
    <3>2. at[n] \in Nat /\ at[n] <= Len(tree.subs[n]) /\ at[n] # 0
      BY <1>1, <1>2, <2>2
    <3>3. at[n] \in 1 .. Len(tree.subs[n])
      BY <1>3, <3>2
    <3> QED
      BY <1>3, <3>1, <3>2, <3>3
  <2> QED
    BY <2>1, <2>2
<1>5. Awaited(n) = tree.subs[n][k]
  BY DEF Awaited, Subs, Stmt, Kind, Current
<1>6. Frame(tree.subs[n][k]) \in FramesOfTree(tree)
  BY <1>1, <1>4, EdgeIs
<1>7. outcome[Frame(tree.subs[n][k])] # "none"
  BY <1>2, <1>6 DEF Main, FramesWait, OutcomesKept
<1> QED
  BY <1>2, <1>4, <1>5, <1>7

LEMMA BelowLoop ==
  ASSUME Inv, Main, NEW n \in NodesOf(tree), NEW i \in DOMAIN tree.subs[n],
         NEW j \in 1 .. Len(loops), loops[j] \in tree.above[n] \/ loops[j] = n
  PROVE  LET m == tree.subs[n][i] IN
         /\ outcome[Frame(m)] # "thrown"
         /\ outcome[Frame(m)] # "none" => m \in EndsAtOnce(tree)
<1>1. tree \in Trees
  BY InvFacts
<1>2. tree.subs[n][i] \in NodesOf(tree) /\ loops[j] \in tree.above[tree.subs[n][i]]
  BY <1>1, EdgeIs
<1> QED
  BY <1>2 DEF Main, ControlGoes, EndedAtOnce

LEMMA ReturnEnds ==
  ASSUME Inv, Main, NEW n \in BodiesOf(tree), n # Root, NEW r \in {"value", "thrown", "timeout"},
         Resumed(Frame(n)), Return(n, r),
         \A j \in 1 .. Len(loops) : loops[j] \in tree.above[n] => r # "thrown" /\ n \in EndsAtOnce(tree),
         r = "thrown" => \E i \in DOMAIN tree.subs[n] : outcome[Frame(tree.subs[n][i])] = "thrown"
  PROVE  Ending(Frame(n))
<1> DEFINE freed == StatementFrames(n)
<1>1. tree \in Trees /\ n \in NodesOf(tree) /\ Root \in NodesOf(tree)
  BY InvFacts DEF BodiesOf
<1>2. Frame(n) \in FramesOfTree(tree) \ {Frame(Root)}
  BY <1>1, FrameKinds
<1>3. /\ FinishTo(Frame(n), r, freed, prev[Frame(n)])
      /\ tree' = tree /\ prev' = prev /\ at' = at /\ loops' = loops /\ count' = count /\ index' = index
      /\ running = Frame(n) /\ state[Frame(n)] = "suspended"
  BY DEF Return, Finish, Resumed
<1>4. Swept(Frame(n), freed) /\ Clears(n, freed)
  BY BodyAwaits, SweptStatement
<1> HIDE DEF freed
<1>5. \A m \in BodiesOf(tree) : Frame(n) = Frame(m) => n = m
  BY DEF Frame
<1>6. \A q \in Combs(tree) : \A i \in DOMAIN tree.subs[q] : Frame(n) # <<q, i>>
  BY <1>1, NotAFrame
<1>7. \A x \in NodesOf(tree) : Frame(n) = Frame(x) => x = n
  BY DEF Frame
<1>8. /\ \A g \in FramesOfTree(tree) :
           /\ state'[g] = IF g = Frame(n) THEN "done"
                          ELSE IF g \in freed /\ state[g] # "none" THEN "freed" ELSE state[g]
           /\ outcome'[g] = IF g = Frame(n) THEN r ELSE outcome[g]
      /\ armed' = armed \ freed /\ running' = prev[Frame(n)]
  BY <1>2, <1>3, FinishFacts
<1>9. FinishIs(Frame(n), r, freed)
  BY <1>2, <1>3, <1>4, <1>5, <1>6, <1>7, <1>8 DEF FinishIs
<1>10. Ends(Frame(n), r)
  BY <1>3, <1>6, <1>7 DEF Ends
<1> QED
  BY <1>9, <1>10 DEF Ending

LEMMA ReturnTaskEnds ==
  ASSUME Inv, Main, NEW n \in NodesOf(tree), ReturnTask(n)
  PROVE  Ending(Frame(n))
<1>1. /\ tree \in Trees /\ tree.kind[n] = "task" /\ Resumed(Frame(n)) /\ at[n] = Len(tree.subs[n])
      /\ Return(n, "value")
  BY InvFacts DEF ReturnTask, Kind, Subs
<1>2. n \in BodiesOf(tree) /\ n # Root
  BY <1>1, TreeNodes DEF BodiesOf, Bodies
<1>3. ASSUME NEW k \in DOMAIN tree.subs[n] PROVE outcome[Frame(tree.subs[n][k])] # "none"
  <2>1. Len(tree.subs[n]) \in Nat /\ k \in 1 .. Len(tree.subs[n])
    BY <1>1, TreeNodes
  <2>2. CASE k < at[n]
    BY <1>1, <1>2, <2>2 DEF Main, FramesWait, StatementsEnded
  <2>3. CASE k = at[n]
    <3>1. Current(tree, at, n) = k
      BY <1>1, <2>3 DEF Current
    <3> QED
      BY <1>1, <1>2, <3>1, BodyAwaits
  <2> QED
    BY <1>1, <2>1, <2>2, <2>3
<1>4. ASSUME NEW j \in 1 .. Len(loops), loops[j] \in tree.above[n] PROVE n \in EndsAtOnce(tree)
  <2>1. \A k \in DOMAIN tree.subs[n] : tree.subs[n][k] \in EndsAtOnce(tree)
    BY <1>3, <1>4, BelowLoop
  <2>2. n \in Quick(tree, EndsAtOnce(tree))
    BY <1>1, <2>1 DEF Quick, NodesOf, Bodies
  <2> QED
    BY <2>2, EndsClosed
<1> QED
  BY <1>1, <1>2, <1>4, ReturnEnds

LEMMA ReturnIoEnds ==
  ASSUME Inv, Main, NEW n \in NodesOf(tree), ReturnIo(n)
  PROVE  Ending(Frame(n))
<1> DEFINE r == IF TimedOut(n) THEN "timeout" ELSE "value"
<1>1. tree \in Trees /\ tree.kind[n] = "io" /\ Resumed(Frame(n)) /\ Return(n, r)
  BY InvFacts DEF ReturnIo, Waited, Kind
<1>2. n \in BodiesOf(tree) /\ n # Root
  BY <1>1, TreeNodes DEF BodiesOf, Bodies
<1>3. r \in {"value", "thrown", "timeout"} /\ r # "thrown"
  OBVIOUS
<1> HIDE DEF r
<1>4. Current(tree, at, n) = 1 /\ DOMAIN tree.subs[n] = 1 .. 1
  BY <1>1, TreeNodes DEF Current
<1>5. ASSUME NEW j \in 1 .. Len(loops), loops[j] \in tree.above[n] PROVE n \in EndsAtOnce(tree)
  <2>1. 1 \in DOMAIN tree.subs[n] /\ outcome[Frame(tree.subs[n][1])] # "none"
    BY <1>1, <1>2, <1>4, BodyAwaits
  <2>2. tree.subs[n][1] \in EndsAtOnce(tree)
    BY <1>5, <2>1, BelowLoop
  <2>3. \A k \in DOMAIN tree.subs[n] : tree.subs[n][k] \in EndsAtOnce(tree)
    BY <1>4, <2>2
  <2>4. n \in Quick(tree, EndsAtOnce(tree))
    BY <1>1, <2>3 DEF Quick, NodesOf, Bodies
  <2> QED
    BY <2>4, EndsClosed
<1> QED
  BY <1>1, <1>2, <1>3, <1>5, ReturnEnds

LEMMA PropagateEnds ==
  ASSUME Inv, Main, NEW n \in NodesOf(tree), Propagate(n)
  PROVE  Ending(Frame(n))
<1>1. /\ tree \in Trees /\ tree.kind[n] \in Bodies /\ Resumed(Frame(n)) /\ Return(n, "thrown")
      /\ outcome[Frame(Awaited(n))] = "thrown"
  BY InvFacts DEF Propagate, Kind
<1>2. n \in BodiesOf(tree) /\ n # Root
  BY <1>1, TreeNodes DEF BodiesOf, Bodies
<1>3. \A j \in 1 .. Len(loops) : loops[j] \notin tree.above[n]
  BY <1>1, <1>2, BodyAwaits, BelowLoop
<1>4. "thrown" \in {"value", "thrown", "timeout"}
  OBVIOUS
<1>5. \E k \in DOMAIN tree.subs[n] : outcome[Frame(tree.subs[n][k])] = "thrown"
  BY <1>1, <1>2, BodyAwaits
<1> QED
  BY <1>1, <1>2, <1>3, <1>4, <1>5, ReturnEnds
-----------------------------------------------------------------------------
(* The end of a frame that has nothing below it, or only helpers. *)
LEMMA NodeEnds ==
  ASSUME Inv, Main, NEW n \in NodesOf(tree), n \notin BodiesOf(tree),
         NEW r \in {"value", "thrown", "timeout"}, NEW freed, Finish(Frame(n), r, freed),
         running = Frame(n), tree' = tree, prev' = prev, at' = at, loops' = loops, count' = count,
         \A q \in Combs(tree) : DOMAIN tree.subs[q] # {} => index'[q] = index[q],
         r = "thrown" => tree.kind[n] = "fail",
         state[Frame(n)] = "suspended" \/ (state[Frame(n)] = "fresh" /\ DOMAIN tree.subs[n] = {}),
         Swept(Frame(n), freed),
         \A j \in 1 .. Len(loops) : loops[j] \in tree.above[n] => r # "thrown" /\ n \in EndsAtOnce(tree)
  PROVE  Ending(Frame(n))
<1>1. tree \in Trees /\ Root \in NodesOf(tree) /\ Root # n
  BY InvFacts, KindsApart
<1>2. Frame(n) \in FramesOfTree(tree) \ {Frame(Root)}
  BY <1>1, FrameKinds
<1>3. FinishTo(Frame(n), r, freed, prev[Frame(n)])
  BY DEF Finish
<1>4. \A m \in BodiesOf(tree) : Frame(n) # Frame(m)
  BY DEF Frame
<1>5. \A q \in Combs(tree) : \A i \in DOMAIN tree.subs[q] : Frame(n) # <<q, i>>
  BY <1>1, NotAFrame
<1>6. \A x \in NodesOf(tree) : Frame(n) = Frame(x) => x = n
  BY DEF Frame
<1>7. /\ \A g \in FramesOfTree(tree) :
           /\ state'[g] = IF g = Frame(n) THEN "done"
                          ELSE IF g \in freed /\ state[g] # "none" THEN "freed" ELSE state[g]
           /\ outcome'[g] = IF g = Frame(n) THEN r ELSE outcome[g]
      /\ armed' = armed \ freed /\ running' = prev[Frame(n)]
  BY <1>2, <1>3, FinishFacts
<1>8. FinishIs(Frame(n), r, freed)
  BY <1>2, <1>4, <1>5, <1>6, <1>7 DEF FinishIs
<1>9. Ends(Frame(n), r)
  BY <1>5, <1>6 DEF Ends
<1> QED
  BY <1>8, <1>9 DEF Ending

LEMMA EndLeafEnds ==
  ASSUME Inv, Main, NEW n \in NodesOf(tree), EndLeaf(n)
  PROVE  Ending(Frame(n))
<1> DEFINE r == IF tree.kind[n] = "fail" THEN "thrown" ELSE "value"
<1>1. /\ tree \in Trees /\ tree.kind[n] \in Leaves /\ running = Frame(n)
      /\ IF tree.kind[n] = "now" THEN state[Frame(n)] = "fresh" ELSE state[Frame(n)] = "suspended"
      /\ Finish(Frame(n), r, {})
      /\ tree' = tree /\ prev' = prev /\ at' = at /\ loops' = loops /\ count' = count /\ index' = index
  BY InvFacts DEF EndLeaf, Kind, Entered, Resumed
<1>2. DOMAIN tree.subs[n] = {} /\ n \notin BodiesOf(tree) /\ n \notin Combs(tree)
  BY <1>1, KindsApart
<1>3. Swept(Frame(n), {})
  <2>1. \A q \in Combs(tree) : Frame(n) # Frame(q)
    BY <1>2 DEF Frame
  <2> QED
    BY <2>1, SweptNone
<1>4. /\ r \in {"value", "thrown", "timeout"} /\ (tree.kind[n] = "now" => r # "thrown")
      /\ r = "thrown" => tree.kind[n] = "fail"
  OBVIOUS
<1> HIDE DEF r
<1>5. ASSUME NEW j \in 1 .. Len(loops), loops[j] \in tree.above[n]
      PROVE  r # "thrown" /\ n \in EndsAtOnce(tree)
  <2>1. CASE tree.kind[n] = "now"
    <3>1. n \in Quick(tree, EndsAtOnce(tree))
      BY <2>1 DEF Quick, NodesOf
    <3> QED
      BY <1>4, <2>1, <3>1, EndsClosed
  <2>2. CASE tree.kind[n] # "now"
    <3>1. loops = <<>>
      BY <1>1, <2>2 DEF Main, ControlGoes, LeavesAtRest
    <3> QED
      BY <1>5, <3>1
  <2> QED
    BY <2>1, <2>2
<1>6. state[Frame(n)] = "suspended" \/ (state[Frame(n)] = "fresh" /\ DOMAIN tree.subs[n] = {})
  BY <1>1, <1>2
<1> QED
  BY ONLY Inv, Main, n \in NodesOf(tree), <1>1, <1>2, <1>3, <1>4, <1>5, <1>6, NodeEnds

LEMMA ReturnEmptyEnds ==
  ASSUME Inv, Main, NEW n \in NodesOf(tree), ReturnEmpty(n)
  PROVE  Ending(Frame(n))
<1>1. /\ tree \in Trees /\ tree.kind[n] = "any" /\ tree.subs[n] = <<>> /\ running = Frame(n)
      /\ state[Frame(n)] = "fresh" /\ Finish(Frame(n), "value", {})
      /\ tree' = tree /\ prev' = prev /\ at' = at /\ loops' = loops /\ count' = count
      /\ index' = [index EXCEPT ![n] = 0]
  BY InvFacts DEF ReturnEmpty, Kind, Subs, Entered
<1>2. DOMAIN tree.subs[n] = {}
  BY <1>1
<1>3. n \notin BodiesOf(tree)
  BY <1>1, KindsApart
<1>4. Swept(Frame(n), {})
  <2>1. \A q \in Combs(tree) : Frame(n) = Frame(q) => DOMAIN tree.subs[q] = {}
    BY <1>2 DEF Frame
  <2> QED
    BY <2>1, SweptNone
<1>5. n \in Quick(tree, EndsAtOnce(tree))
  BY <1>1, <1>2 DEF Quick, NodesOf
<1>6. n \in EndsAtOnce(tree)
  BY <1>5, EndsClosed
<1>7. "value" \in {"value", "thrown", "timeout"} /\ "value" # "thrown"
  OBVIOUS
<1>8. \A q \in Combs(tree) : DOMAIN tree.subs[q] # {} => index'[q] = index[q]
  <2>1. index \in [NodesOf(tree) -> Nat] /\ \A q \in Combs(tree) : q \in NodesOf(tree)
    BY InvFacts DEF Combs
  <2> QED
    BY <1>1, <1>2, <2>1
<1> QED
  BY ONLY Inv, Main, n \in NodesOf(tree), <1>1, <1>2, <1>3, <1>4, <1>6, <1>7, <1>8, NodeEnds

LEMMA EndCombinatorEnds ==
  ASSUME Inv, Main, NEW n \in NodesOf(tree), EndCombinator(n)
  PROVE  Ending(Frame(n))
<1>1. /\ tree \in Trees /\ n \in Combs(tree) /\ running = Frame(n) /\ running # Nobody
      /\ state[Frame(n)] = "suspended" /\ Finish(Frame(n), "value", Helpers(n))
      /\ tree' = tree /\ prev' = prev /\ at' = at /\ loops' = loops /\ count' = count /\ index' = index
  BY InvFacts, FrameKinds DEF EndCombinator, Kind, Resumed, Combs
<1>2. n \notin BodiesOf(tree) /\ tree.kind[n] \in {"any", "all"}
  BY <1>1, KindsApart
<1>3. Swept(Frame(n), Helpers(n))
  BY <1>1, SweptHelpers
<1>4. ASSUME NEW i \in DOMAIN tree.subs[n], state[<<n, i>>] = "done"
      PROVE  outcome[Frame(tree.subs[n][i])] # "none"
  <2>1. state[Frame(tree.subs[n][i])] = "done"
    BY <1>1, <1>4 DEF Main, FramesWait, ArgumentsEnd
  <2>2. Frame(tree.subs[n][i]) \in FramesOfTree(tree)
    BY <1>1, EdgeIs
  <2> QED
    BY <2>1, <2>2 DEF Main, FramesWait, OutcomesKept
<1>5. ASSUME NEW j \in 1 .. Len(loops), loops[j] \in tree.above[n] PROVE n \in EndsAtOnce(tree)
  <2>1. ASSUME NEW i \in DOMAIN tree.subs[n], state[<<n, i>>] = "done"
        PROVE  tree.subs[n][i] \in EndsAtOnce(tree)
    BY <1>4, <1>5, <2>1, BelowLoop
  <2>2. CASE tree.kind[n] = "any"
    <3>1. \E i \in DOMAIN tree.subs[n] : state[<<n, i>>] = "done"
      BY <1>1, <2>2 DEF Main, ControlGoes, ResumedBecause
    <3>2. n \in Quick(tree, EndsAtOnce(tree))
      BY <2>1, <2>2, <3>1 DEF Quick, NodesOf
    <3> QED
      BY <3>2, EndsClosed
  <2>3. CASE tree.kind[n] = "all"
    <3>1. \A i \in DOMAIN tree.subs[n] : state[<<n, i>>] = "done"
      BY <1>1, <2>3 DEF Main, ControlGoes, ResumedBecause
    <3>2. n \in Quick(tree, EndsAtOnce(tree))
      BY <2>1, <2>3, <3>1 DEF Quick, NodesOf
    <3> QED
      BY <3>2, EndsClosed
  <2> QED
    BY <1>2, <2>2, <2>3
<1>6. "value" \in {"value", "thrown", "timeout"} /\ "value" # "thrown"
  OBVIOUS
<1> QED
  BY ONLY Inv, Main, n \in NodesOf(tree), <1>1, <1>2, <1>3, <1>5, <1>6, NodeEnds
-----------------------------------------------------------------------------
(* The helpers. *)
LEMMA HelperEnds ==
  ASSUME Inv, Main, NEW n \in Combs(tree), NEW i \in DOMAIN tree.subs[n],
         NEW r \in {"value", "thrown"}, NEW next \in {Frame(n), Nobody},
         FinishTo(<<n, i>>, r, {}, next), running = <<n, i>>, state[<<n, i>>] = "suspended",
         tree' = tree, at' = at, loops' = loops,
         \A g \in FramesOfTree(tree) : g # <<n, i>> => prev'[g] = prev[g],
         tree.kind[n] = "any" => next = Frame(n),
         tree.kind[n] = "all" /\ next = Frame(n) =>
           \A j \in DOMAIN tree.subs[n] : state'[<<n, j>>] \in {"done", "freed"},
         r = "thrown" <=> outcome[Frame(tree.subs[n][i])] = "thrown",
         tree.kind[n] = "any" /\ r # "thrown" => index'[n] = i,
         tree.kind[n] = "all" =>
           /\ r = "thrown" => count'[n] = count[n]
           /\ r # "thrown" => count'[n] = count[n] + 1
           /\ next = Frame(n) <=> r # "thrown" /\ count[n] + 1 = Len(tree.subs[n]),
         \A x \in Combs(tree) \ {n} : count'[x] = count[x] /\ index'[x] = index[x]
  PROVE  Ending(<<n, i>>)
<1> DEFINE f == <<n, i>>
<1>1. tree \in Trees /\ Root \in NodesOf(tree)
  BY InvFacts
<1>2. f \in FramesOfTree(tree) /\ \A m : f # Frame(m)
  BY <1>1, NotAFrame
<1>3. f # Frame(Root)
  BY <1>2
<1>4. Swept(f, {})
  BY <1>2, SweptNone
<1>5. \A q \in Combs(tree) : \A j \in DOMAIN tree.subs[q] : f = <<q, j>> => q = n
  OBVIOUS
<1>6. /\ \A g \in FramesOfTree(tree) :
           /\ state'[g] = IF g = f THEN "done"
                          ELSE IF g \in {} /\ state[g] # "none" THEN "freed" ELSE state[g]
           /\ outcome'[g] = IF g = f THEN r ELSE outcome[g]
      /\ armed' = armed \ {} /\ running' = next
  BY <1>2, FinishFacts
<1>7. running = f /\ state[f] = "suspended" /\ \A g \in FramesOfTree(tree) : g # f => prev'[g] = prev[g]
  OBVIOUS
<1>10. Ends(f, r)
  BY <1>2, <1>6 DEF Ends
<1> HIDE DEF f
<1>8. r \in {"value", "thrown", "timeout"}
  OBVIOUS
<1>9. FinishIs(f, r, {})
  BY <1>2, <1>3, <1>4, <1>5, <1>6, <1>7, <1>8 DEF FinishIs
<1> QED
  BY <1>9, <1>10 DEF Ending, f

(* Where a helper goes when it ends. *)
LEMMA HelperBefore ==
  ASSUME Inv, Main, NEW n \in Combs(tree), NEW i \in DOMAIN tree.subs[n], state[<<n, i>>] \in Alive
  PROVE  prev[<<n, i>>] = IF tree.kind[n] = "any" THEN Frame(n) ELSE Nobody
BY DEF Main, FramesWait, HelpersBelong

LEMMA EndAnyHelperEnds ==
  ASSUME Inv, Main, NEW n \in Combs(tree), NEW i \in DOMAIN tree.subs[n], EndAnyHelper(n, i)
  PROVE  Ending(<<n, i>>)
<1>1. /\ tree.kind[n] = "any" /\ running = <<n, i>> /\ state[<<n, i>>] = "suspended"
      /\ FinishTo(<<n, i>>, "value", {}, prev[<<n, i>>])
      /\ tree' = tree /\ at' = at /\ loops' = loops /\ prev' = prev /\ count' = count
      /\ index' = [index EXCEPT ![n] = i] /\ outcome[Frame(tree.subs[n][i])] # "thrown"
  BY DEF EndAnyHelper, Resumed, Kind, Finish, Subs
<1>2. prev[<<n, i>>] = Frame(n)
  BY <1>1, HelperBefore DEF Alive
<1>3. FinishTo(<<n, i>>, "value", {}, Frame(n))
  BY <1>1, <1>2
<1>4. /\ "value" \in {"value", "thrown"} /\ "value" # "thrown"
      /\ Frame(n) \in {Frame(n), Nobody} /\ tree.kind[n] # "all"
  BY <1>1
<1>5. \A g \in FramesOfTree(tree) : g # <<n, i>> => prev'[g] = prev[g]
  BY <1>1
<1>6. index'[n] = i /\ \A x \in Combs(tree) \ {n} : index'[x] = index[x]
  <2>1. index \in [NodesOf(tree) -> Nat] /\ \A x \in Combs(tree) : x \in NodesOf(tree)
    BY InvFacts DEF Combs
  <2> QED
    BY <1>1, <2>1
<1> QED
  BY ONLY Inv, Main, n \in Combs(tree), i \in DOMAIN tree.subs[n], <1>1, <1>3, <1>4, <1>5, <1>6, HelperEnds

LEMMA FailHelperEnds ==
  ASSUME Inv, Main, NEW n \in Combs(tree), NEW i \in DOMAIN tree.subs[n], FailHelper(n, i)
  PROVE  Ending(<<n, i>>)
<1>1. /\ running = <<n, i>> /\ state[<<n, i>>] = "suspended"
      /\ FinishTo(<<n, i>>, "thrown", {}, prev[<<n, i>>])
      /\ tree' = tree /\ at' = at /\ loops' = loops /\ prev' = prev /\ count' = count /\ index' = index
      /\ outcome[Frame(tree.subs[n][i])] = "thrown"
  BY DEF FailHelper, Resumed, Finish, Subs
<1> DEFINE next == prev[<<n, i>>]
<1>2. next = IF tree.kind[n] = "any" THEN Frame(n) ELSE Nobody
  BY <1>1, HelperBefore DEF Alive
<1>3. tree \in Trees /\ Frame(n) # Nobody
  BY InvFacts, FrameKinds, KindsApart
<1>4. /\ next \in {Frame(n), Nobody} /\ (tree.kind[n] = "any" => next = Frame(n))
      /\ tree.kind[n] = "all" => next # Frame(n)
  BY <1>2, <1>3
<1>5. FinishTo(<<n, i>>, "thrown", {}, next)
  BY <1>1
<1> HIDE DEF next
<1>6. "thrown" \in {"value", "thrown"}
  OBVIOUS
<1>7. \A g \in FramesOfTree(tree) : g # <<n, i>> => prev'[g] = prev[g]
  BY <1>1
<1> QED
  BY ONLY Inv, Main, n \in Combs(tree), i \in DOMAIN tree.subs[n], <1>1, <1>4, <1>5, <1>6, <1>7, HelperEnds

LEMMA EndAllHelperEnds ==
  ASSUME Inv, Inv', AllReturn(tree, state, prev), [Next]_vars, Main,
         NEW n \in Combs(tree), NEW i \in DOMAIN tree.subs[n], EndAllHelper(n, i)
  PROVE  Ending(<<n, i>>)
<1> DEFINE next == IF LastOfAll(n) THEN Frame(n) ELSE prev[<<n, i>>]
<1>1. /\ tree.kind[n] = "all" /\ running = <<n, i>> /\ state[<<n, i>>] = "suspended"
      /\ FinishTo(<<n, i>>, "value", {}, next) /\ prev' = [prev EXCEPT ![<<n, i>>] = next]
      /\ tree' = tree /\ at' = at /\ loops' = loops /\ count' = [count EXCEPT ![n] = @ + 1]
      /\ index' = index /\ outcome[Frame(tree.subs[n][i])] # "thrown"
  BY DEF EndAllHelper, Resumed, Kind, Subs
<1>2. prev[<<n, i>>] = Nobody
  BY <1>1, HelperBefore DEF Alive
<1>3. /\ tree \in Trees /\ <<n, i>> \in FramesOfTree(tree) /\ state \in [FramesOfTree(tree) -> States]
      /\ prev \in [FramesOfTree(tree) -> FramesOfTree(tree) \cup {Nobody}]
  BY InvFacts, FrameKinds, KindsApart
<1>4. next \in {Frame(n), Nobody} /\ (next = Frame(n) <=> count[n] + 1 = Len(tree.subs[n]))
  <2>1. Frame(n) # Nobody
    BY InvFacts, FrameKinds, KindsApart
  <2> QED
    BY <1>2, <2>1 DEF LastOfAll, Subs
<1> HIDE DEF next
<1>5. state'[<<n, i>>] = "done" /\ running' = next
  BY <1>1, <1>3, FinishFacts
<1>6. next = Frame(n) => \A j \in DOMAIN tree.subs[n] : state'[<<n, j>>] \in {"done", "freed"}
  BY <1>1, <1>5, LastEnd
<1>7. \A g \in FramesOfTree(tree) : g # <<n, i>> => prev'[g] = prev[g]
  BY <1>1, <1>3
<1>8. "value" \in {"value", "thrown"} /\ "value" # "thrown" /\ tree.kind[n] # "any"
  BY <1>1
<1>9. /\ count'[n] = count[n] + 1
      /\ \A x \in Combs(tree) \ {n} : count'[x] = count[x]
  BY <1>1, InvFacts DEF Combs
<1> QED
  BY ONLY Inv, Main, n \in Combs(tree), i \in DOMAIN tree.subs[n],
          <1>1, <1>4, <1>6, <1>7, <1>8, <1>9, HelperEnds

-----------------------------------------------------------------------------
(* The leaves. *)
LEMMA SuspendLeafMain ==
  ASSUME Inv, Main, NEW n \in NodesOf(tree), SuspendLeaf(n)
  PROVE  Main'
<1>1. /\ tree \in Trees /\ state \in [FramesOfTree(tree) -> States]
      /\ Frame(n) \in FramesOfTree(tree) /\ Nobody \notin FramesOfTree(tree)
  BY InvFacts, FrameKinds
<1>2. /\ tree.kind[n] \in Leaves /\ running = Frame(n) /\ running # Nobody
      /\ state[Frame(n)] = "fresh"
      /\ state' = [state EXCEPT ![Frame(n)] = "suspended"] /\ armed' = armed \cup {Frame(n)}
      /\ running' = Nobody
      /\ tree' = tree /\ prev' = prev /\ outcome' = outcome /\ at' = at /\ loops' = loops
  BY <1>1 DEF SuspendLeaf, Kind, Entered
<1>3. /\ \A g \in FramesOfTree(tree) : state'[g] = IF g = Frame(n) THEN "suspended" ELSE state[g]
      /\ \A m \in NodesOf(tree) : Frame(m) \in FramesOfTree(tree) /\ (Frame(m) = Frame(n) <=> m = n)
      /\ \A q \in Combs(tree) : /\ q \in NodesOf(tree) /\ q # n
                                /\ \A i \in DOMAIN tree.subs[q] : /\ <<q, i>> \in FramesOfTree(tree)
                                                                  /\ \A m : <<q, i>> # Frame(m)
      /\ \A m \in BodiesOf(tree) : m \in NodesOf(tree) /\ m # n
      /\ \A m \in NodesOf(tree) : tree.owner[m] \in BodiesOf(tree)
  <2>1. \A g \in FramesOfTree(tree) : state'[g] = IF g = Frame(n) THEN "suspended" ELSE state[g]
    BY <1>1, <1>2
  <2>2. \A m \in NodesOf(tree) : tree.owner[m] \in BodiesOf(tree)
    BY <1>1, TreeNodes DEF BodiesOf
  <2>3. \A q \in Combs(tree) : \A i \in DOMAIN tree.subs[q] :
          <<q, i>> \in FramesOfTree(tree) /\ \A m : <<q, i>> # Frame(m)
    BY <1>1, NotAFrame
  <2>4. \A m \in NodesOf(tree) : Frame(m) \in FramesOfTree(tree) /\ (Frame(m) = Frame(n) <=> m = n)
    BY <1>1, FrameKinds
  <2>5. /\ \A q \in Combs(tree) : q \in NodesOf(tree) /\ q # n
        /\ \A m \in BodiesOf(tree) : m \in NodesOf(tree) /\ m # n
    BY <1>1, <1>2, KindsApart
  <2> QED
    BY <2>1, <2>2, <2>3, <2>4, <2>5
<1>4. ParentsWait(tree, state', prev')
  <2>1. SUFFICES ASSUME NEW q \in NodesOf(tree), NEW i \in DOMAIN tree.subs[q],
                        state'[Frame(tree.subs[q][i])] = "suspended"
                 PROVE  LET m == tree.subs[q][i] IN
                        \/ /\ state'[ParentOf(tree, q, i)] = "suspended"
                           /\ prev'[Frame(m)] = ParentOf(tree, q, i)
                        \/ tree.kind[q] = "any" /\ state'[Frame(q)] = "done"
    BY DEF ParentsWait
  <2> DEFINE m == tree.subs[q][i]
             p == ParentOf(tree, q, i)
  <2>2. m \in NodesOf(tree) /\ p \in FramesOfTree(tree) /\ p # Frame(m)
    BY <1>1, EdgeIs
  <2>3. CASE m = n
    <3>1. state[p] = "suspended" /\ prev[Frame(m)] = p
      BY <1>2, <2>3 DEF Main, ControlGoes, ControlComes
    <3> QED
      BY <1>2, <1>3, <2>2, <2>3, <3>1
  <2>4. CASE m # n
    <3>1. state[Frame(m)] = "suspended"
      BY <1>3, <2>1, <2>2, <2>4
    <3>2. \/ state[p] = "suspended" /\ prev[Frame(m)] = p
          \/ tree.kind[q] = "any" /\ state[Frame(q)] = "done"
      BY <3>1 DEF Main, FramesWait, ParentsWait
    <3> QED
      BY <1>2, <1>3, <2>2, <3>2
  <2> QED
    BY <2>3, <2>4
<1>3a. \A q \in Combs(tree) :
         /\ state'[Frame(q)] = state[Frame(q)]
         /\ \A i \in DOMAIN tree.subs[q] : state'[<<q, i>>] = state[<<q, i>>]
  <2>1. SUFFICES ASSUME NEW q \in Combs(tree)
                 PROVE  /\ state'[Frame(q)] = state[Frame(q)]
                        /\ \A i \in DOMAIN tree.subs[q] : state'[<<q, i>>] = state[<<q, i>>]
    OBVIOUS
  <2>2. q \in NodesOf(tree) /\ q # n
    BY <1>3
  <2>3. Frame(q) \in FramesOfTree(tree) /\ Frame(q) # Frame(n)
    BY <1>3, <2>2
  <2>4. \A i \in DOMAIN tree.subs[q] : <<q, i>> \in FramesOfTree(tree) /\ <<q, i>> # Frame(n)
    BY <1>3
  <2> QED
    BY <1>3, <2>3, <2>4
<1>5. HelpersBelong(tree, state', prev')
  BY <1>2, <1>3a DEF Main, FramesWait, HelpersBelong
<1>6. ArgumentsLast(tree, state')
  <2>1. ASSUME NEW q \in Combs(tree), NEW i \in DOMAIN tree.subs[q],
               state'[Frame(q)] = "fresh" \/ state'[<<q, i>>] = "fresh"
        PROVE  state'[Frame(tree.subs[q][i])] = "fresh"
    <3>1. state[Frame(q)] = "fresh" \/ state[<<q, i>>] = "fresh"
      BY <1>3, <2>1
    <3>2. tree.subs[q][i] \in NodesOf(tree) /\ state[Frame(tree.subs[q][i])] = "fresh"
      BY <1>1, <1>3, <3>1, EdgeIs DEF Main, FramesWait, ArgumentsLast
    <3>3. tree.subs[q][i] # n
      <4>1. SUFFICES ASSUME tree.subs[q][i] = n PROVE FALSE
        OBVIOUS
      <4>2. state[<<q, i>>] = "suspended"
        BY <1>2, <1>3, <4>1 DEF Main, ControlGoes, ControlComes, ParentOf
      <4>3. state[Frame(q)] = "suspended"
        BY <4>2 DEF Main, FramesWait, HelpersBelong, Alive
      <4> QED
        BY <3>1, <4>2, <4>3
    <3> QED
      BY <1>3, <3>2, <3>3
  <2>2. ASSUME NEW m \in NodesOf(tree) \ {Root}, tree.stmt[m] = 0, state'[Frame(tree.owner[m])] \in Alive
        PROVE  state'[Frame(m)] \notin {"none", "freed"}
    <3>1. state[Frame(tree.owner[m])] \in Alive
      BY <1>3, <2>2
    <3>2. state[Frame(m)] \notin {"none", "freed"}
      BY <2>2, <3>1 DEF Main, FramesWait, ArgumentsLast
    <3> QED
      BY <1>3, <3>2
  <2> QED
    BY <2>1, <2>2 DEF ArgumentsLast
<1>7. ArgumentsEnd(tree, state')
  <2>1. ASSUME NEW q \in Combs(tree), NEW i \in DOMAIN tree.subs[q]
        PROVE  /\ state'[<<q, i>>] = state[<<q, i>>] /\ state'[Frame(q)] = state[Frame(q)]
               /\ state[Frame(tree.subs[q][i])] \in {"done", "freed"} =>
                    state'[Frame(tree.subs[q][i])] = state[Frame(tree.subs[q][i])]
    <3>1. tree.subs[q][i] \in NodesOf(tree)
      BY <1>1, <1>3, EdgeIs
    <3> QED
      BY <1>2, <1>3, <3>1
  <2>2. \A q \in Combs(tree) : \A i \in DOMAIN tree.subs[q] :
          /\ state[<<q, i>>] = "done" => state[Frame(tree.subs[q][i])] = "done"
          /\ tree.kind[q] = "all" /\ state[Frame(q)] = "done" =>
               state[Frame(tree.subs[q][i])] \in {"done", "freed"}
    BY DEF Main, FramesWait, ArgumentsEnd
  <2>3. ASSUME NEW q \in Combs(tree), NEW i \in DOMAIN tree.subs[q]
        PROVE  /\ state'[<<q, i>>] = "done" => state'[Frame(tree.subs[q][i])] = "done"
               /\ tree.kind[q] = "all" /\ state'[Frame(q)] = "done" =>
                    state'[Frame(tree.subs[q][i])] \in {"done", "freed"}
    BY <2>1, <2>2
  <2> QED
    BY <2>3 DEF ArgumentsEnd
<1>8. OneStatement(tree, state', at')
  BY <1>2, <1>3 DEF Main, FramesWait, OneStatement
<1>9. OutcomesKept(tree, state', outcome')
  BY <1>2, <1>3 DEF Main, FramesWait, OutcomesKept
<1>10. StatementsEnded(tree, state', at', outcome')
  BY <1>2, <1>3 DEF Main, FramesWait, StatementsEnded
<1>11. NothingBelow(tree, state', outcome')
  <2>1. SUFFICES ASSUME NEW m \in NodesOf(tree), NEW y \in tree.above[m], state'[Frame(y)] \in Unborn
                 PROVE  state'[Frame(m)] \in Unborn \cup {"freed"} /\ outcome'[Frame(m)] = "none"
    BY DEF NothingBelow
  <2>2. y \in NodesOf(tree)
    BY <1>1, TreeAbove
  <2>3. state[Frame(y)] \in Unborn
    BY <1>2, <1>3, <2>1, <2>2 DEF Unborn
  <2>4. m # n
    <3>1. SUFFICES ASSUME m = n PROVE FALSE
      OBVIOUS
    <3>2. running[1] = n
      BY <1>2 DEF Frame
    <3> QED
      BY <1>2, <2>3, <3>1, <3>2, AllAboveBegun
  <2>5. state[Frame(m)] \in Unborn \cup {"freed"} /\ outcome[Frame(m)] = "none"
    BY <2>3 DEF Main, FramesWait, NothingBelow
  <2> QED
    BY <1>2, <1>3, <2>4, <2>5
<1>12. ControlComes(tree, state', prev', running')
  BY <1>2 DEF ControlComes
<1>13. HelpersInTurn(tree, state', at', running')
  <2>1. \A q \in Combs(tree) : \A i \in DOMAIN tree.subs[q] : Nobody # <<q, i>>
    BY <1>1, <1>3
  <2> QED
    BY <1>2, <1>3a, <2>1 DEF Main, ControlGoes, HelpersInTurn
<1>14. ResumedBecause(tree, state', at', running')
  BY <1>2 DEF ResumedBecause
<1>15. GoesToOwner(tree, state', running')
  <2>1. SUFFICES ASSUME NEW m \in NodesOf(tree), tree.kind[m] \in {"any", "event"},
                        state'[Frame(m)] = "done"
                 PROVE  FALSE
    BY DEF GoesToOwner
  <2>2. state[Frame(m)] = "done"
    BY <1>3, <2>1
  <2> QED
    BY <1>2, <2>1, <2>2 DEF Main, ControlGoes, GoesToOwner
<1>16. LeavesAtRest(tree, state', armed', loops', running')
  BY <1>1, <1>2, <1>3 DEF Main, ControlGoes, LeavesAtRest
<1>17. LoopsNested(tree, state', at', loops', running')
  <2>1. \A i \in 1 .. Len(loops) : loops[i] \in Combs(tree)
    BY InvFacts, ElementOfSeq
  <2> QED
    BY <1>2, <1>3, <2>1 DEF Main, ControlGoes, LoopsNested
<1>18. EndedAtOnce(tree, outcome', loops')
  BY <1>2 DEF Main, ControlGoes
<1> QED
  BY <1>2, <1>4, <1>5, <1>6, <1>7, <1>8, <1>9, <1>10, <1>11, <1>12, <1>13, <1>14, <1>15, <1>16, <1>17,
     <1>18 DEF Main, FramesWait, ControlGoes

LEMMA EventMain ==
  ASSUME Inv, Main, NEW n \in NodesOf(tree), Event(n)
  PROVE  Main'
<1>1. tree \in Trees /\ Frame(n) \in FramesOfTree(tree) /\ Frame(n) # Nobody
  BY InvFacts, FrameKinds
<1>2. /\ running = Nobody /\ loops = <<>> /\ Frame(n) \in armed
      /\ armed' = IF tree.kind[n] = "event" THEN armed ELSE armed \ {Frame(n)}
      /\ running' = Frame(n)
      /\ tree' = tree /\ state' = state /\ prev' = prev /\ outcome' = outcome /\ at' = at
      /\ loops' = loops
  BY DEF Event, Kind
<1>3. \A m \in NodesOf(tree) : tree.kind[m] \in {"any", "event"} => state[Frame(m)] # "done"
  BY <1>2 DEF Main, ControlGoes, GoesToOwner
<1>4. tree.kind[n] \in Leaves /\ state[Frame(n)] = "suspended"
  <2>1. tree.kind[n] \in Leaves /\ state[Frame(n)] \in {"suspended", "done"}
    <3>1. PICK x \in NodesOf(tree) : /\ Frame(n) = Frame(x) /\ tree.kind[x] \in Leaves
                                     /\ state[Frame(n)] \in {"suspended", "done"}
      BY <1>2 DEF Inv, TypeInv, ArmedWait
    <3>2. x = n
      BY <3>1 DEF Frame
    <3> QED
      BY <3>1, <3>2
  <2>2. tree.kind[n] # "event" => state[Frame(n)] = "suspended"
    BY <1>2 DEF Main, ControlGoes, LeavesAtRest
  <2> QED
    BY <1>3, <2>1, <2>2
<1>5. \A x \in NodesOf(tree) : Frame(n) = Frame(x) => x = n
  BY DEF Frame
<1>6. n \notin BodiesOf(tree) /\ n \notin Combs(tree)
  BY <1>1, <1>4, KindsApart
<1>7. \A q \in Combs(tree) : q \in NodesOf(tree) /\ \A i \in DOMAIN tree.subs[q] : Frame(n) # <<q, i>>
  BY <1>1, NotAFrame, KindsApart
<1>8. \A m \in BodiesOf(tree) : m \in NodesOf(tree)
  BY DEF BodiesOf
<1>9. ControlComes(tree, state', prev', running')
  <2>1. SUFFICES ASSUME NEW q \in NodesOf(tree), NEW i \in DOMAIN tree.subs[q],
                        Frame(n) = Frame(tree.subs[q][i])
                 PROVE  /\ state[ParentOf(tree, q, i)] = "suspended"
                        /\ prev[Frame(n)] = ParentOf(tree, q, i)
    BY <1>2, <1>4 DEF ControlComes, Alive
  <2> QED
    BY <1>3, <1>4, <2>1 DEF Main, FramesWait, ParentsWait
<1>10. HelpersInTurn(tree, state', at', running')
  BY <1>2, <1>7 DEF Main, ControlGoes, HelpersInTurn
<1>11. ResumedBecause(tree, state', at', running')
  BY <1>2, <1>5, <1>6, <1>7, <1>8 DEF ResumedBecause
<1>12. GoesToOwner(tree, state', running')
  BY <1>2, <1>3 DEF GoesToOwner
<1>13. LeavesAtRest(tree, state', armed', loops', running')
  BY <1>2, <1>4, <1>5 DEF Main, ControlGoes, LeavesAtRest
<1>14. 1 .. Len(loops) = {}
  BY <1>2
<1>15. LoopsNested(tree, state', at', loops', running') /\ EndedAtOnce(tree, outcome', loops')
  BY <1>2, <1>14 DEF LoopsNested, EndedAtOnce
<1>16. FramesWait'
  BY <1>2 DEF Main, FramesWait
<1> QED
  BY <1>2, <1>9, <1>10, <1>11, <1>12, <1>13, <1>15, <1>16 DEF Main, ControlGoes

-----------------------------------------------------------------------------
(* The loop of await_suspend(). *)
LEMMA ResumeNextMain ==
  ASSUME Inv, Main, NEW n \in NodesOf(tree), ResumeNext(n)
  PROVE  Main'
<1> DEFINE i == at[n] + 1
           l == Len(loops)
<1>1. tree \in Trees /\ at \in [NodesOf(tree) -> Nat] /\ Nobody \notin FramesOfTree(tree)
  BY InvFacts
<1>2. loops \in Seq(Combs(tree)) /\ l \in Nat /\ loops # <<>>
  BY InvFacts DEF ResumeNext
<1>3. l # 0 /\ l \in 1 .. Len(loops)
  BY <1>2, EmptySeq
<1>4. /\ running = Nobody /\ loops[l] = n /\ state[Frame(n)] = "suspended"
      /\ at' = [at EXCEPT ![n] = i]
      /\ loops' = IF i = Len(tree.subs[n]) THEN SubSeq(loops, 1, l - 1) ELSE loops
      /\ running' = <<n, i>>
      /\ tree' = tree /\ state' = state /\ prev' = prev /\ outcome' = outcome /\ armed' = armed
  BY DEF ResumeNext, Subs
<1>5. /\ n \in Combs(tree) /\ Len(tree.subs[n]) \in Nat /\ at[n] < Len(tree.subs[n])
      /\ DOMAIN tree.subs[n] = 1 .. Len(tree.subs[n])
  <2>1. n \in Combs(tree)
    BY <1>2, <1>3, <1>4, ElementOfSeq
  <2>2. at[n] < Len(tree.subs[n])
    BY <1>3, <1>4 DEF Inv, CombinatorInv, LoopsOnce
  <2> QED
    BY <1>1, <2>1, <2>2, TreeNodes
<1>6. i \in DOMAIN tree.subs[n] /\ i > at[n] /\ i >= 1 /\ i \in Nat
  BY <1>1, <1>5
<1>7. /\ Len(loops') <= l /\ Len(loops') \in Nat
      /\ \A j \in 1 .. Len(loops') : loops'[j] = loops[j]
  <2>1. CASE loops' = loops
    BY <1>2, <2>1
  <2>2. CASE loops' = SubSeq(loops, 1, l - 1)
    <3>1. l - 1 \in Nat /\ l - 1 <= Len(loops)
      BY <1>2, <1>3
    <3> HIDE DEF l
    <3>2. Len(SubSeq(loops, 1, l - 1)) = l - 1
      BY <1>2, <3>1
    <3>3. \A j \in 1 .. (l - 1) : SubSeq(loops, 1, l - 1)[j] = loops[j]
      BY <1>2, <3>1
    <3> QED
      BY <1>2, <2>2, <3>1, <3>2, <3>3
  <2> QED
    BY <1>4, <2>1, <2>2
<1>8. state[<<n, i>>] = "fresh" /\ (\A m : <<n, i>> # Frame(m)) /\ <<n, i>> # Nobody
  BY <1>1, <1>4, <1>5, <1>6, NotAFrame DEF Main, ControlGoes, HelpersInTurn
<1> HIDE DEF i, l
<1>9. \A m \in BodiesOf(tree) : m \in NodesOf(tree) /\ m # n
  BY <1>1, <1>5, KindsApart
<1>10. /\ \A m \in NodesOf(tree) : at'[m] = IF m = n THEN i ELSE at[m]
       /\ \A m \in NodesOf(tree) : tree.owner[m] \in BodiesOf(tree)
       /\ \A q \in Combs(tree) : q \in NodesOf(tree)
       /\ at[n] \in Nat
  BY <1>1, <1>4, TreeNodes DEF BodiesOf, Combs
<1>11. OneStatement(tree, state', at')
  BY <1>4, <1>9, <1>10 DEF Main, FramesWait, OneStatement, Current
<1>12. StatementsEnded(tree, state', at', outcome')
  BY <1>4, <1>9, <1>10 DEF Main, FramesWait, StatementsEnded
<1>13. ControlComes(tree, state', prev', running')
  BY <1>4, <1>8 DEF ControlComes, Alive
<1>14. HelpersInTurn(tree, state', at', running')
  <2>1. SUFFICES ASSUME NEW q \in Combs(tree), NEW j \in DOMAIN tree.subs[q]
                 PROVE  /\ state[Frame(q)] = "suspended" /\ j > at'[q] => state[<<q, j>>] = "fresh"
                        /\ <<n, i>> = <<q, j>> => j <= at'[q]
    BY <1>4 DEF HelpersInTurn
  <2>2. q \in NodesOf(tree) /\ j \in Nat
    BY <1>1, <1>10, TreeNodes
  <2>3. j > at'[q] => j > at[q]
    BY <1>6, <1>10, <2>2
  <2>4. <<n, i>> = <<q, j>> => j <= at'[q]
    BY <1>6, <1>10, <2>2
  <2> QED
    BY <2>3, <2>4 DEF Main, ControlGoes, HelpersInTurn
<1>15. ResumedBecause(tree, state', at', running')
  BY <1>4, <1>8 DEF ResumedBecause
<1>16. GoesToOwner(tree, state', running')
  BY <1>4 DEF Main, ControlGoes, GoesToOwner
<1>17. LeavesAtRest(tree, state', armed', loops', running')
  BY <1>4, <1>8 DEF Main, ControlGoes, LeavesAtRest
<1>18. LoopsNested(tree, state', at', loops', running')
  <2>1. \A j \in 1 .. l : loops[j] \in NodesOf(tree)
    BY <1>2, <1>10, ElementOfSeq DEF l
  <2>2. /\ \A j \in 1 .. l : state[Frame(loops[j])] = "suspended" /\ at[loops[j]] >= 1
        /\ \A j \in 1 .. l : \A m \in 1 .. l : j < m => loops[j] \in tree.above[loops[m]]
    BY DEF Main, ControlGoes, LoopsNested, l
  <2>3. ASSUME NEW j \in 1 .. l PROVE j = l \/ loops[j] \in tree.above[n]
    <3>1. l \in 1 .. l /\ loops[l] = n /\ (j = l \/ j < l)
      BY <1>2, <1>3, <1>4 DEF l
    <3> QED
      BY <2>2, <3>1
  <2>4. running'[1] = n
    BY <1>4
  <2>5. ASSUME NEW j \in 1 .. l
        PROVE  /\ state[Frame(loops[j])] = "suspended" /\ at'[loops[j]] >= 1
               /\ <<n, i>> # Frame(loops[j]) /\ (n = loops[j] \/ loops[j] \in tree.above[n])
    BY <1>4, <1>6, <1>8, <1>10, <2>1, <2>2, <2>3
  <2>6. 1 .. Len(loops') \subseteq 1 .. l
    BY <1>2, <1>7
  <2> QED
    BY <1>4, <1>7, <2>2, <2>4, <2>5, <2>6 DEF LoopsNested
<1>19. EndedAtOnce(tree, outcome', loops')
  <2>1. \A j \in 1 .. Len(loops') : j \in 1 .. Len(loops) /\ loops'[j] = loops[j]
    BY <1>2, <1>7 DEF l
  <2> QED
    BY <1>4, <2>1 DEF Main, ControlGoes, EndedAtOnce
<1> QED
  BY <1>4, <1>11, <1>12, <1>13, <1>14, <1>15, <1>16, <1>17, <1>18, <1>19 DEF Main, FramesWait, ControlGoes

LEMMA StartHelperMain ==
  ASSUME Inv, Main, NEW n \in Combs(tree), NEW i \in DOMAIN tree.subs[n], StartHelper(n, i)
  PROVE  Main'
<1> DEFINE h == <<n, i>>
           m == tree.subs[n][i]
<1>1. /\ tree \in Trees /\ state \in [FramesOfTree(tree) -> States]
      /\ prev \in [FramesOfTree(tree) -> FramesOfTree(tree) \cup {Nobody}]
      /\ Nobody \notin FramesOfTree(tree)
  BY InvFacts
<1>2. /\ n \in NodesOf(tree) /\ h \in FramesOfTree(tree) /\ \A x : h # Frame(x)
  BY <1>1, NotAFrame
<1>3. /\ m \in NodesOf(tree) /\ Frame(m) \in FramesOfTree(tree)
      /\ tree.above[m] = tree.above[n] \cup {n} /\ ParentOf(tree, n, i) = h
      /\ \A x \in NodesOf(tree) : \A j \in DOMAIN tree.subs[x] : tree.subs[x][j] = m => x = n /\ j = i
  BY <1>1, <1>2, EdgeIs
<1>4. /\ running = h /\ running # Nobody /\ state[h] = "fresh" /\ running[1] = n
      /\ state' = [state EXCEPT ![h] = "suspended"]
      /\ prev' = [prev EXCEPT ![Frame(m)] = h]
      /\ running' = Frame(m)
      /\ tree' = tree /\ outcome' = outcome /\ at' = at /\ armed' = armed /\ loops' = loops
  BY <1>1, <1>2 DEF StartHelper, Entered, Subs
<1>5. state[Frame(m)] = "fresh"
  BY <1>4 DEF Main, FramesWait, ArgumentsLast
<1>6. state[Frame(n)] = "suspended"
  BY <1>4 DEF Main, FramesWait, HelpersBelong, Alive
<1>7. \A q \in Combs(tree) : /\ q \in NodesOf(tree)
                             /\ \A j \in DOMAIN tree.subs[q] : <<q, j>> \in FramesOfTree(tree)
                                                               /\ \A x : <<q, j>> # Frame(x)
  BY <1>1, NotAFrame, KindsApart
<1> HIDE DEF m
<1>8. /\ \A g \in FramesOfTree(tree) : /\ state'[g] = IF g = h THEN "suspended" ELSE state[g]
                                       /\ prev'[g] = IF g = Frame(m) THEN h ELSE prev[g]
      /\ \A x \in NodesOf(tree) : /\ Frame(x) \in FramesOfTree(tree)
                                  /\ state'[Frame(x)] = state[Frame(x)]
      /\ \A x : Frame(x) = Frame(m) => x = m
  <2>1. \A x \in NodesOf(tree) : Frame(x) \in FramesOfTree(tree)
    BY <1>1, FrameKinds
  <2>2. \A x : Frame(x) = Frame(m) => x = m
    BY DEF Frame
  <2>3. \A g \in FramesOfTree(tree) : /\ state'[g] = IF g = h THEN "suspended" ELSE state[g]
                                      /\ prev'[g] = IF g = Frame(m) THEN h ELSE prev[g]
    BY <1>1, <1>4
  <2> QED
    BY <1>2, <2>1, <2>2, <2>3
<1> HIDE DEF h
<1>9. ParentsWait(tree, state', prev')
  <2>1. SUFFICES ASSUME NEW q \in NodesOf(tree), NEW j \in DOMAIN tree.subs[q],
                        state'[Frame(tree.subs[q][j])] = "suspended"
                 PROVE  LET x == tree.subs[q][j] IN
                        \/ /\ state'[ParentOf(tree, q, j)] = "suspended"
                           /\ prev'[Frame(x)] = ParentOf(tree, q, j)
                        \/ tree.kind[q] = "any" /\ state'[Frame(q)] = "done"
    BY DEF ParentsWait
  <2> DEFINE x == tree.subs[q][j]
             p == ParentOf(tree, q, j)
  <2>2. x \in NodesOf(tree) /\ p \in FramesOfTree(tree)
    BY <1>1, EdgeIs
  <2>3. state[Frame(x)] = "suspended" /\ x # m
    BY <1>5, <1>8, <2>1, <2>2
  <2>4. \/ state[p] = "suspended" /\ prev[Frame(x)] = p
        \/ tree.kind[q] = "any" /\ state[Frame(q)] = "done"
    BY <2>3 DEF Main, FramesWait, ParentsWait
  <2> QED
    BY <1>4, <1>8, <2>2, <2>3, <2>4
<1>10. ASSUME NEW q \in Combs(tree), NEW j \in DOMAIN tree.subs[q]
       PROVE  /\ state'[Frame(q)] = state[Frame(q)]
              /\ state'[Frame(tree.subs[q][j])] = state[Frame(tree.subs[q][j])]
              /\ prev'[<<q, j>>] = prev[<<q, j>>]
              /\ state'[<<q, j>>] = IF <<q, j>> = h THEN "suspended" ELSE state[<<q, j>>]
              /\ <<q, j>> = h => q = n /\ j = i
  <2>1. tree.subs[q][j] \in NodesOf(tree) /\ q \in NodesOf(tree) /\ <<q, j>> # Frame(m)
    BY <1>1, <1>7, EdgeIs
  <2> QED
    BY <1>7, <1>8, <2>1 DEF h
<1>11. HelpersBelong(tree, state', prev')
  <2>1. SUFFICES ASSUME NEW q \in Combs(tree), NEW j \in DOMAIN tree.subs[q]
                 PROVE  /\ state'[Frame(q)] = "suspended" =>
                             state'[<<q, j>>] \in {"fresh", "suspended", "done"}
                        /\ state'[<<q, j>>] \in Alive =>
                             /\ state'[Frame(q)] = "suspended"
                             /\ prev'[<<q, j>>] = IF tree.kind[q] = "any" THEN Frame(q) ELSE Nobody
    BY DEF HelpersBelong
  <2>2. /\ state[Frame(q)] = "suspended" => state[<<q, j>>] \in {"fresh", "suspended", "done"}
        /\ state[<<q, j>>] \in Alive =>
             /\ state[Frame(q)] = "suspended"
             /\ prev[<<q, j>>] = IF tree.kind[q] = "any" THEN Frame(q) ELSE Nobody
    BY DEF Main, FramesWait, HelpersBelong
  <2>3. <<q, j>> = h => state[<<q, j>>] \in Alive
    BY <1>4 DEF Alive
  <2> QED
    BY <1>10, <2>2, <2>3
<1>12. ArgumentsLast(tree, state')
  <2>1. ASSUME NEW q \in Combs(tree), NEW j \in DOMAIN tree.subs[q],
               state'[Frame(q)] = "fresh" \/ state'[<<q, j>>] = "fresh"
        PROVE  state'[Frame(tree.subs[q][j])] = "fresh"
    <3>1. state[Frame(q)] = "fresh" \/ state[<<q, j>>] = "fresh"
      BY <1>10, <2>1
    <3>2. state[Frame(tree.subs[q][j])] = "fresh"
      BY <3>1 DEF Main, FramesWait, ArgumentsLast
    <3> QED
      BY <1>10, <3>2
  <2>2. \A x \in NodesOf(tree) : tree.owner[x] \in NodesOf(tree)
    BY <1>1, TreeNodes
  <2>3. \A x \in NodesOf(tree) \ {Root} :
          tree.stmt[x] = 0 /\ state[Frame(tree.owner[x])] \in Alive => state[Frame(x)] \notin {"none", "freed"}
    BY DEF Main, FramesWait, ArgumentsLast
  <2>4. \A x \in NodesOf(tree) \ {Root} :
          tree.stmt[x] = 0 /\ state'[Frame(tree.owner[x])] \in Alive => state'[Frame(x)] \notin {"none", "freed"}
    BY <1>8, <2>2, <2>3
  <2> QED
    BY <2>1, <2>4 DEF ArgumentsLast
<1>13. ArgumentsEnd(tree, state')
  <2>1. \A q \in Combs(tree) : \A j \in DOMAIN tree.subs[q] :
          /\ state[<<q, j>>] = "done" => state[Frame(tree.subs[q][j])] = "done"
          /\ tree.kind[q] = "all" /\ state[Frame(q)] = "done" =>
               state[Frame(tree.subs[q][j])] \in {"done", "freed"}
    BY DEF Main, FramesWait, ArgumentsEnd
  <2>2. ASSUME NEW q \in Combs(tree), NEW j \in DOMAIN tree.subs[q]
        PROVE  /\ state'[<<q, j>>] = "done" => state'[Frame(tree.subs[q][j])] = "done"
               /\ tree.kind[q] = "all" /\ state'[Frame(q)] = "done" =>
                    state'[Frame(tree.subs[q][j])] \in {"done", "freed"}
    BY <1>10, <2>1
  <2> QED
    BY <2>2 DEF ArgumentsEnd
<1>14. OneStatement(tree, state', at')
  BY <1>4, <1>8 DEF Main, FramesWait, OneStatement
<1>15. OutcomesKept(tree, state', outcome')
  BY <1>2, <1>4, <1>8 DEF Main, FramesWait, OutcomesKept
<1>16. StatementsEnded(tree, state', at', outcome')
  <2>1. \A x \in BodiesOf(tree) : x \in NodesOf(tree)
    BY DEF BodiesOf
  <2> QED
    BY <1>4, <1>8, <2>1 DEF Main, FramesWait, StatementsEnded
<1>17. NothingBelow(tree, state', outcome')
  <2>1. \A x \in NodesOf(tree) : tree.above[x] \subseteq NodesOf(tree)
    BY <1>1, TreeAbove
  <2> QED
    BY <1>4, <1>8, <2>1 DEF Main, FramesWait, NothingBelow
<1>18. ControlComes(tree, state', prev', running')
  <2>1. SUFFICES ASSUME NEW q \in NodesOf(tree), NEW j \in DOMAIN tree.subs[q],
                        Frame(m) = Frame(tree.subs[q][j])
                 PROVE  /\ state'[ParentOf(tree, q, j)] = "suspended"
                        /\ prev'[Frame(m)] = ParentOf(tree, q, j)
    BY <1>3, <1>4, <1>5, <1>8 DEF ControlComes, Alive
  <2>2. q = n /\ j = i
    BY <1>3, <1>8, <2>1
  <2> QED
    BY <1>2, <1>3, <1>8, <2>2
<1>19. HelpersInTurn(tree, state', at', running')
  <2>1. SUFFICES ASSUME NEW q \in Combs(tree), NEW j \in DOMAIN tree.subs[q]
                 PROVE  /\ state'[Frame(q)] = "suspended" /\ j > at[q] => state'[<<q, j>>] = "fresh"
                        /\ Frame(m) # <<q, j>>
    BY <1>4 DEF HelpersInTurn
  <2>2. /\ state[Frame(q)] = "suspended" /\ j > at[q] => state[<<q, j>>] = "fresh"
        /\ h = <<q, j>> => j <= at[q]
    BY <1>4 DEF Main, ControlGoes, HelpersInTurn
  <2>3. at[q] \in Nat /\ j \in Nat
    <3>1. q \in NodesOf(tree) /\ at \in [NodesOf(tree) -> Nat]
      BY <1>7, InvFacts
    <3>2. DOMAIN tree.subs[q] = 1 .. Len(tree.subs[q])
      BY <1>1, <3>1, TreeNodes
    <3> QED
      BY <3>1, <3>2
  <2>4. h = <<q, j>> => ~(j > at[q])
    BY <2>2, <2>3
  <2> QED
    BY <1>7, <1>10, <2>2, <2>4
<1>20. state'[running'] = "fresh"
  BY <1>3, <1>4, <1>5, <1>8
<1>21. ResumedBecause(tree, state', at', running')
  BY <1>20 DEF ResumedBecause
<1>22. GoesToOwner(tree, state', running')
  <2>1. \A x \in NodesOf(tree) : ~(tree.kind[x] \in {"any", "event"} /\ state[Frame(x)] = "done")
    BY <1>4 DEF Main, ControlGoes, GoesToOwner
  <2> QED
    BY <1>8, <2>1 DEF GoesToOwner
<1>23. LeavesAtRest(tree, state', armed', loops', running')
  BY <1>4, <1>8, <1>20 DEF Main, ControlGoes, LeavesAtRest
<1>24. LoopsNested(tree, state', at', loops', running')
  <2>1. \A j \in 1 .. Len(loops) : loops[j] \in NodesOf(tree)
    BY <1>7, InvFacts, ElementOfSeq
  <2>2. /\ \A j \in 1 .. Len(loops) :
             /\ state[Frame(loops[j])] = "suspended" /\ at[loops[j]] >= 1
             /\ n = loops[j] \/ loops[j] \in tree.above[n]
        /\ \A j \in 1 .. Len(loops) : \A x \in 1 .. Len(loops) : j < x => loops[j] \in tree.above[loops[x]]
    BY <1>4 DEF Main, ControlGoes, LoopsNested
  <2>3. running'[1] = m /\ running' # Nobody
    BY <1>1, <1>3, <1>4 DEF Frame
  <2>4. ASSUME NEW j \in 1 .. Len(loops)
        PROVE  /\ state'[Frame(loops[j])] = "suspended" /\ at[loops[j]] >= 1
               /\ Frame(m) # Frame(loops[j]) /\ loops[j] \in tree.above[m]
    BY <1>3, <1>5, <1>8, <2>1, <2>2
  <2> QED
    BY <1>4, <2>2, <2>3, <2>4 DEF LoopsNested
<1>25. EndedAtOnce(tree, outcome', loops')
  BY <1>4 DEF Main, ControlGoes
<1> QED
  BY <1>4, <1>9, <1>11, <1>12, <1>13, <1>14, <1>15, <1>16, <1>17, <1>18, <1>19, <1>21, <1>22, <1>23, <1>24,
     <1>25 DEF Main, FramesWait, ControlGoes

-----------------------------------------------------------------------------
(* The beginning of a combinator. *)
LEMMA StartCombinatorMain ==
  ASSUME Inv, Main, NEW n \in NodesOf(tree), StartCombinator(n)
  PROVE  Main'
<1> DEFINE f == Frame(n)
           H == Helpers(n)
<1>1. /\ tree \in Trees /\ state \in [FramesOfTree(tree) -> States]
      /\ outcome \in [FramesOfTree(tree) -> {"none", "value", "thrown", "timeout"}]
      /\ at \in [NodesOf(tree) -> Nat] /\ Nobody \notin FramesOfTree(tree)
      /\ f \in FramesOfTree(tree) /\ loops \in Seq(Combs(tree)) /\ Root \in NodesOf(tree)
  BY InvFacts, FrameKinds
<1>2. /\ n \in Combs(tree) /\ tree.subs[n] # <<>> /\ running = f /\ running # Nobody
      /\ state[f] = "fresh" /\ running[1] = n
      /\ Become(f, "suspended", {}, H)
      /\ outcome' = [g \in FramesOfTree(tree) |-> IF g \in H THEN "none" ELSE outcome[g]]
      /\ prev' = [g \in FramesOfTree(tree) |-> IF g \in H THEN PreviousOfHelper(n) ELSE prev[g]]
      /\ at' = [at EXCEPT ![n] = 1]
      /\ running' = <<n, 1>>
      /\ loops' = IF 1 = Len(tree.subs[n]) THEN loops ELSE Append(loops, n)
      /\ tree' = tree
  BY <1>1 DEF StartCombinator, Kind, Subs, Entered, Combs, Frame, Frames, FirstResumed
<1>3. 1 \in DOMAIN tree.subs[n]
  <2>1. /\ Len(tree.subs[n]) \in Nat /\ DOMAIN tree.subs[n] = 1 .. Len(tree.subs[n])
        /\ tree.subs[n] \in Seq(NodesOf(tree))
    BY <1>1, TreeNodes
  <2>2. Len(tree.subs[n]) # 0
    BY <1>2, <2>1, EmptySeq
  <2> QED
    BY <2>1, <2>2
<1>4. /\ \A q \in Combs(tree) :
           /\ q \in NodesOf(tree)
           /\ \A j \in DOMAIN tree.subs[q] : /\ <<q, j>> \in FramesOfTree(tree)
                                             /\ \A x : <<q, j>> # Frame(x)
                                             /\ <<q, j>> \in H <=> q = n
      /\ \A x : Frame(x) \notin H
      /\ H \subseteq FramesOfTree(tree)
      /\ \A g \in H : \E j \in DOMAIN tree.subs[n] : g = <<n, j>>
      /\ \A x \in NodesOf(tree) : Frame(x) \in FramesOfTree(tree) /\ (Frame(x) = f <=> x = n)
  <2>1. \A q \in Combs(tree) : q \in NodesOf(tree)
    BY <1>1, KindsApart
  <2>2. \A q \in Combs(tree) : \A j \in DOMAIN tree.subs[q] :
          <<q, j>> \in FramesOfTree(tree) /\ \A x : <<q, j>> # Frame(x)
    BY <1>1, NotAFrame
  <2>3. \A g \in H : \E j \in DOMAIN tree.subs[n] : g = <<n, j>>
    BY DEF Helpers, Subs
  <2>4. \A q \in Combs(tree) : \A j \in DOMAIN tree.subs[q] : <<q, j>> \in H <=> q = n
    BY DEF Helpers, Subs
  <2>5. \A x \in NodesOf(tree) : Frame(x) \in FramesOfTree(tree) /\ (Frame(x) = f <=> x = n)
    BY <1>1, FrameKinds
  <2>6. (\A x : Frame(x) \notin H) /\ H \subseteq FramesOfTree(tree)
    BY <1>2, <2>2, <2>3
  <2> QED
    BY <2>1, <2>2, <2>3, <2>4, <2>5, <2>6
<1>5. /\ \A g \in FramesOfTree(tree) : /\ state'[g] = IF g = f THEN "suspended"
                                                      ELSE IF g \in H THEN "fresh" ELSE state[g]
                                       /\ prev'[g] = IF g \in H THEN PreviousOfHelper(n) ELSE prev[g]
                                       /\ outcome'[g] = IF g \in H THEN "none" ELSE outcome[g]
      /\ \A m \in NodesOf(tree) : at'[m] = IF m = n THEN 1 ELSE at[m]
      /\ armed' = armed
  <2>1. /\ state' = [g \in FramesOfTree(tree) |->
                       IF g = f THEN "suspended" ELSE IF g \in H THEN "fresh"
                       ELSE IF g \in {} /\ state[g] # "none" THEN "freed" ELSE state[g]]
        /\ armed' = armed \ {}
    BY <1>2 DEF Become, TakesHandlesBack, Frames
  <2> HIDE DEF H, f
  <2> QED
    BY <1>1, <1>2, <2>1
<1>6. \A j \in DOMAIN tree.subs[n] : state[<<n, j>>] \in {"none", "freed"}
  BY <1>2 DEF Inv, MakingInv, HelpersAfter, Unborn
<1>7. \A j \in DOMAIN tree.subs[n] : state[Frame(tree.subs[n][j])] = "fresh"
  BY <1>2 DEF Main, FramesWait, ArgumentsLast
<1>8. PreviousOfHelper(n) = IF tree.kind[n] = "any" THEN f ELSE Nobody
  BY DEF PreviousOfHelper, Kind
<1> HIDE DEF H, f
<1>9. /\ \A x \in NodesOf(tree) : x # n => state'[Frame(x)] = state[Frame(x)]
      /\ state'[f] = "suspended"
      /\ \A x \in NodesOf(tree) : /\ prev'[Frame(x)] = prev[Frame(x)]
                                  /\ outcome'[Frame(x)] = outcome[Frame(x)]
      /\ \A j \in DOMAIN tree.subs[n] : state'[<<n, j>>] = "fresh"
  <2>1. f \notin H
    BY <1>4 DEF f
  <2>2. \A j \in DOMAIN tree.subs[n] : <<n, j>> \in H /\ <<n, j>> \in FramesOfTree(tree) /\ <<n, j>> # f
    BY <1>2, <1>4, <2>1
  <2>3. \A j \in DOMAIN tree.subs[n] : state'[<<n, j>>] = "fresh"
    BY <1>5, <2>2
  <2> QED
    BY <1>1, <1>4, <1>5, <2>1, <2>3
<1>10. ASSUME NEW q \in Combs(tree), q # n, NEW j \in DOMAIN tree.subs[q]
       PROVE  /\ state'[Frame(q)] = state[Frame(q)] /\ state'[<<q, j>>] = state[<<q, j>>]
              /\ prev'[<<q, j>>] = prev[<<q, j>>]
  <2>1. <<q, j>> \in FramesOfTree(tree) /\ <<q, j>> \notin H /\ <<q, j>> # f /\ q \in NodesOf(tree)
    BY <1>4, <1>10 DEF f
  <2> QED
    BY <1>5, <1>9, <1>10, <2>1
<1>11. /\ \A m \in BodiesOf(tree) : m \in NodesOf(tree) /\ m # n
       /\ \A m \in NodesOf(tree) : tree.owner[m] \in BodiesOf(tree)
  BY <1>1, <1>2, KindsApart, TreeNodes DEF BodiesOf
<1>12. ParentsWait(tree, state', prev')
  <2>1. SUFFICES ASSUME NEW q \in NodesOf(tree), NEW j \in DOMAIN tree.subs[q],
                        state'[Frame(tree.subs[q][j])] = "suspended"
                 PROVE  LET x == tree.subs[q][j] IN
                        \/ /\ state'[ParentOf(tree, q, j)] = "suspended"
                           /\ prev'[Frame(x)] = ParentOf(tree, q, j)
                        \/ tree.kind[q] = "any" /\ state'[Frame(q)] = "done"
    BY DEF ParentsWait
  <2> DEFINE x == tree.subs[q][j]
             p == ParentOf(tree, q, j)
  <2>2. x \in NodesOf(tree) /\ p \in FramesOfTree(tree)
    BY <1>1, EdgeIs
  <2>3. \/ state[p] = "suspended" /\ prev[Frame(x)] = p
        \/ tree.kind[q] = "any" /\ state[Frame(q)] = "done"
    <3>1. CASE x = n
      BY <1>2, <3>1 DEF Main, ControlGoes, ControlComes, f
    <3>2. CASE x # n
      <4>1. state[Frame(x)] = "suspended"
        BY <1>9, <2>1, <2>2, <3>2
      <4> QED
        BY <4>1 DEF Main, FramesWait, ParentsWait
    <3> QED
      BY <3>1, <3>2
  <2>4. CASE state[p] = "suspended" /\ prev[Frame(x)] = p
    <3>1. p # f /\ p \notin H
      BY <1>2, <1>4, <1>6, <2>4
    <3>2. state'[p] = "suspended"
      BY <1>5, <2>2, <2>4, <3>1
    <3> QED
      BY <1>9, <2>2, <2>4, <3>2
  <2>5. CASE tree.kind[q] = "any" /\ state[Frame(q)] = "done"
    <3>1. q # n
      BY <1>2, <2>5 DEF f
    <3> QED
      BY <1>9, <2>5, <3>1
  <2> QED
    BY <2>3, <2>4, <2>5
<1>13. HelpersBelong(tree, state', prev')
  <2>1. SUFFICES ASSUME NEW q \in Combs(tree), NEW j \in DOMAIN tree.subs[q]
                 PROVE  /\ state'[Frame(q)] = "suspended" =>
                             state'[<<q, j>>] \in {"fresh", "suspended", "done"}
                        /\ state'[<<q, j>>] \in Alive =>
                             /\ state'[Frame(q)] = "suspended"
                             /\ prev'[<<q, j>>] = IF tree.kind[q] = "any" THEN Frame(q) ELSE Nobody
    BY DEF HelpersBelong
  <2>2. CASE q = n
    <3>1. <<q, j>> \in H /\ <<q, j>> \in FramesOfTree(tree)
      BY <1>4, <2>2
    <3>2. prev'[<<q, j>>] = IF tree.kind[q] = "any" THEN Frame(q) ELSE Nobody
      BY <1>5, <1>8, <2>2, <3>1 DEF f
    <3>3. state'[Frame(q)] = "suspended" /\ state'[<<q, j>>] = "fresh"
      BY <1>9, <2>2 DEF f
    <3> QED
      BY <3>2, <3>3
  <2>3. CASE q # n
    <3>1. /\ state[Frame(q)] = "suspended" => state[<<q, j>>] \in {"fresh", "suspended", "done"}
          /\ state[<<q, j>>] \in Alive =>
               /\ state[Frame(q)] = "suspended"
               /\ prev[<<q, j>>] = IF tree.kind[q] = "any" THEN Frame(q) ELSE Nobody
      BY DEF Main, FramesWait, HelpersBelong
    <3> QED
      BY <1>10, <2>3, <3>1
  <2> QED
    BY <2>2, <2>3
<1>14. ArgumentsLast(tree, state')
  <2>1. ASSUME NEW q \in Combs(tree), NEW j \in DOMAIN tree.subs[q],
               state'[Frame(q)] = "fresh" \/ state'[<<q, j>>] = "fresh"
        PROVE  state'[Frame(tree.subs[q][j])] = "fresh"
    <3>1. tree.subs[q][j] \in NodesOf(tree)
      BY <1>1, <1>4, EdgeIs
    <3>2. state[Frame(tree.subs[q][j])] = "fresh"
      <4>1. CASE q = n
        BY <1>7, <4>1
      <4>2. CASE q # n
        BY <1>10, <2>1, <4>2 DEF Main, FramesWait, ArgumentsLast
      <4> QED
        BY <4>1, <4>2
    <3>3. tree.subs[q][j] # n
      <4>1. SUFFICES ASSUME tree.subs[q][j] = n PROVE FALSE
        OBVIOUS
      <4>2. q # n
        BY <1>1, <1>4, <4>1, EdgeIs, TreeAbove
      <4>3. state[<<q, j>>] = "suspended"
        BY <1>2, <1>4, <4>1 DEF Main, ControlGoes, ControlComes, ParentOf, f
      <4>4. state[Frame(q)] = "suspended"
        BY <4>3 DEF Main, FramesWait, HelpersBelong, Alive
      <4> QED
        BY <1>10, <2>1, <4>2, <4>3, <4>4
    <3> QED
      BY <1>9, <3>1, <3>2, <3>3
  <2>2. \A x \in NodesOf(tree) \ {Root} :
          tree.stmt[x] = 0 /\ state[Frame(tree.owner[x])] \in Alive => state[Frame(x)] \notin {"none", "freed"}
    BY DEF Main, FramesWait, ArgumentsLast
  <2>3. ASSUME NEW x \in NodesOf(tree) \ {Root}, tree.stmt[x] = 0, state'[Frame(tree.owner[x])] \in Alive
        PROVE  state'[Frame(x)] \notin {"none", "freed"}
    <3>1. state[Frame(x)] \notin {"none", "freed"}
      BY <1>9, <1>11, <2>2, <2>3
    <3> QED
      BY <1>9, <3>1 DEF f
  <2> QED
    BY <2>1, <2>3 DEF ArgumentsLast
<1>15. ArgumentsEnd(tree, state')
  <2>1. SUFFICES ASSUME NEW q \in Combs(tree), NEW j \in DOMAIN tree.subs[q]
                 PROVE  /\ state'[<<q, j>>] = "done" => state'[Frame(tree.subs[q][j])] = "done"
                        /\ tree.kind[q] = "all" /\ state'[Frame(q)] = "done" =>
                             state'[Frame(tree.subs[q][j])] \in {"done", "freed"}
    BY DEF ArgumentsEnd
  <2>2. CASE q = n
    <3>1. state'[Frame(q)] = "suspended" /\ state'[<<q, j>>] = "fresh"
      BY <1>9, <2>2 DEF f
    <3> QED
      BY <3>1
  <2>3. CASE q # n
    <3>1. /\ state[<<q, j>>] = "done" => state[Frame(tree.subs[q][j])] = "done"
          /\ tree.kind[q] = "all" /\ state[Frame(q)] = "done" =>
               state[Frame(tree.subs[q][j])] \in {"done", "freed"}
      BY DEF Main, FramesWait, ArgumentsEnd
    <3>2. tree.subs[q][j] \in NodesOf(tree)
      BY <1>1, <1>4, EdgeIs
    <3>3. state[Frame(tree.subs[q][j])] \in {"done", "freed"} =>
            state'[Frame(tree.subs[q][j])] = state[Frame(tree.subs[q][j])]
      BY <1>2, <1>9, <3>2 DEF f
    <3> QED
      BY <1>10, <2>3, <3>1, <3>3
  <2> QED
    BY <2>2, <2>3
<1>16. OneStatement(tree, state', at')
  <2>1. \A x \in NodesOf(tree) : state'[Frame(x)] \notin {"none", "freed"} => state[Frame(x)] \notin {"none", "freed"}
    BY <1>2, <1>9 DEF f
  <2>2. \A x \in NodesOf(tree) : /\ at'[tree.owner[x]] = at[tree.owner[x]]
                                 /\ Current(tree, at', tree.owner[x]) = Current(tree, at, tree.owner[x])
    BY <1>5, <1>11 DEF Current
  <2> QED
    BY <2>1, <2>2 DEF Main, FramesWait, OneStatement
<1>17. OutcomesKept(tree, state', outcome')
  <2>1. SUFFICES ASSUME NEW g \in FramesOfTree(tree)
                 PROVE  /\ state'[g] = "done" => outcome'[g] # "none"
                        /\ state'[g] \in {"none", "fresh", "suspended"} /\ g # Frame(Root) =>
                             outcome'[g] = "none"
    BY DEF OutcomesKept
  <2>2. /\ state[g] = "done" => outcome[g] # "none"
        /\ state[g] \in {"none", "fresh", "suspended"} /\ g # Frame(Root) => outcome[g] = "none"
    BY DEF Main, FramesWait, OutcomesKept
  <2> QED
    BY <1>2, <1>5, <2>2
<1>18. StatementsEnded(tree, state', at', outcome')
  <2>1. ASSUME NEW m \in BodiesOf(tree), NEW k \in DOMAIN tree.subs[m]
        PROVE  outcome'[Frame(tree.subs[m][k])] = outcome[Frame(tree.subs[m][k])]
    <3>1. tree.subs[m][k] \in NodesOf(tree)
      BY <1>1, <1>11, EdgeIs
    <3> QED
      BY <1>9, <3>1
  <2>2. \A m \in BodiesOf(tree) : at'[m] = at[m] /\ state'[Frame(m)] = state[Frame(m)]
    BY <1>5, <1>9, <1>11
  <2>3. \A m \in BodiesOf(tree) :
          /\ state[Frame(m)] = "suspended" => at[m] # 0
          /\ tree.kind[m] = "task" =>
               \A k \in DOMAIN tree.subs[m] : k < at[m] => outcome[Frame(tree.subs[m][k])] # "none"
    BY DEF Main, FramesWait, StatementsEnded
  <2> QED
    BY <2>1, <2>2, <2>3 DEF StatementsEnded
<1>19. NothingBelow(tree, state', outcome')
  <2>1. SUFFICES ASSUME NEW m \in NodesOf(tree), NEW y \in tree.above[m], state'[Frame(y)] \in Unborn
                 PROVE  state'[Frame(m)] \in Unborn \cup {"freed"} /\ outcome'[Frame(m)] = "none"
    BY DEF NothingBelow
  <2>2. y \in NodesOf(tree)
    BY <1>1, TreeAbove
  <2>3. state[Frame(y)] \in Unborn
    BY <1>9, <2>1, <2>2 DEF Unborn, f
  <2>4. m # n
    BY <1>2, <2>3, AllAboveBegun
  <2>5. state[Frame(m)] \in Unborn \cup {"freed"} /\ outcome[Frame(m)] = "none"
    BY <2>3 DEF Main, FramesWait, NothingBelow
  <2> QED
    BY <1>9, <2>4, <2>5
<1>20. /\ running' = <<n, 1>> /\ running' \in FramesOfTree(tree) /\ state'[running'] = "fresh"
       /\ running' # Nobody /\ running'[1] = n /\ (\A x : running' # Frame(x))
  BY <1>1, <1>2, <1>3, <1>4, <1>9
<1>21. ControlComes(tree, state', prev', running')
  BY <1>20 DEF ControlComes, Alive
<1>22. HelpersInTurn(tree, state', at', running')
  <2>1. SUFFICES ASSUME NEW q \in Combs(tree), NEW j \in DOMAIN tree.subs[q]
                 PROVE  /\ state'[Frame(q)] = "suspended" /\ j > at'[q] => state'[<<q, j>>] = "fresh"
                        /\ running' = <<q, j>> => j <= at'[q]
    BY DEF HelpersInTurn
  <2>2. CASE q = n
    BY <1>1, <1>2, <1>5, <1>9, <2>2
  <2>3. CASE q # n
    <3>1. at'[q] = at[q]
      BY <1>4, <1>5, <2>3
    <3>2. state[Frame(q)] = "suspended" /\ j > at[q] => state[<<q, j>>] = "fresh"
      BY DEF Main, ControlGoes, HelpersInTurn
    <3> QED
      BY <1>10, <1>20, <2>3, <3>1, <3>2
  <2> QED
    BY <2>2, <2>3
<1>23. ResumedBecause(tree, state', at', running')
  BY <1>20 DEF ResumedBecause
<1>24. GoesToOwner(tree, state', running')
  <2>1. \A x \in NodesOf(tree) : ~(tree.kind[x] \in {"any", "event"} /\ state[Frame(x)] = "done")
    BY <1>2 DEF Main, ControlGoes, GoesToOwner
  <2> QED
    BY <1>9, <2>1 DEF GoesToOwner, f
<1>25. LeavesAtRest(tree, state', armed', loops', running')
  <2>1. \A x \in NodesOf(tree) :
          Frame(x) \in armed /\ tree.kind[x] # "event" => state[Frame(x)] = "suspended"
    BY DEF Main, ControlGoes, LeavesAtRest
  <2>2. \A x \in NodesOf(tree) :
          Frame(x) \in armed' /\ tree.kind[x] # "event" => state'[Frame(x)] = "suspended"
    BY <1>5, <1>9, <2>1 DEF f
  <2> QED
    BY <1>20, <2>2 DEF LeavesAtRest
<1>26. \A j \in 1 .. Len(loops) : /\ loops[j] \in NodesOf(tree) /\ loops[j] # n
                                  /\ state[Frame(loops[j])] = "suspended" /\ at[loops[j]] >= 1
                                  /\ loops[j] \in tree.above[n]
                                  /\ \A m \in 1 .. Len(loops) : j < m => loops[j] \in tree.above[loops[m]]
  <2>1. \A j \in 1 .. Len(loops) : loops[j] \in NodesOf(tree)
    BY <1>1, <1>4, ElementOfSeq
  <2>2. \A j \in 1 .. Len(loops) : /\ state[Frame(loops[j])] = "suspended" /\ at[loops[j]] >= 1
                                   /\ n = loops[j] \/ loops[j] \in tree.above[n]
                                   /\ \A m \in 1 .. Len(loops) : j < m => loops[j] \in tree.above[loops[m]]
    BY <1>2 DEF Main, ControlGoes, LoopsNested
  <2>3. \A j \in 1 .. Len(loops) : loops[j] # n
    BY <1>2, <2>2 DEF f
  <2> QED
    BY <2>1, <2>2, <2>3
<1>27. \/ loops' = loops
       \/ /\ Len(loops') = Len(loops) + 1 /\ loops'[Len(loops) + 1] = n
          /\ \A j \in 1 .. Len(loops) : loops'[j] = loops[j]
  BY <1>1, <1>2
<1>28. Len(loops) \in Nat
  BY <1>1
<1>29. LoopsNested(tree, state', at', loops', running')
  <2>1. \A j \in 1 .. Len(loops) : state'[Frame(loops[j])] = "suspended" /\ at'[loops[j]] >= 1
    BY <1>5, <1>9, <1>26
  <2>2. state'[Frame(n)] = "suspended" /\ at'[n] >= 1
    BY <1>5, <1>9 DEF f
  <2>3. CASE loops' = loops
    BY <1>20, <1>26, <2>1, <2>3 DEF LoopsNested
  <2>4. CASE /\ Len(loops') = Len(loops) + 1 /\ loops'[Len(loops) + 1] = n
             /\ \A j \in 1 .. Len(loops) : loops'[j] = loops[j]
    <3>1. \A j \in 1 .. Len(loops') : j \in 1 .. Len(loops) \/ j = Len(loops) + 1
      BY <1>28, <2>4
    <3>2. \A j \in 1 .. Len(loops') : j \in Nat /\ j <= Len(loops) + 1
      BY <1>28, <2>4
    <3>3. ASSUME NEW j \in 1 .. Len(loops')
          PROVE  /\ state'[Frame(loops'[j])] = "suspended" /\ at'[loops'[j]] >= 1
                 /\ n = loops'[j] \/ loops'[j] \in tree.above[n]
      BY <1>26, <2>1, <2>2, <2>4, <3>1
    <3>4. ASSUME NEW j \in 1 .. Len(loops'), NEW m \in 1 .. Len(loops'), j < m
          PROVE  loops'[j] \in tree.above[loops'[m]]
      <4>1. j \in 1 .. Len(loops)
        BY <1>28, <3>1, <3>2, <3>4
      <4> QED
        BY <1>26, <2>4, <3>1, <3>4, <4>1
    <3> QED
      BY <1>20, <3>3, <3>4 DEF LoopsNested
  <2> QED
    BY <1>27, <2>3, <2>4
<1>30. EndedAtOnce(tree, outcome', loops')
  <2>1. SUFFICES ASSUME NEW j \in 1 .. Len(loops'), NEW m \in NodesOf(tree), loops'[j] \in tree.above[m]
                 PROVE  outcome'[Frame(m)] # "thrown" /\ (outcome'[Frame(m)] # "none" => m \in EndsAtOnce(tree))
    BY DEF EndedAtOnce
  <2>2. loops'[j] = n \/ \E k \in 1 .. Len(loops) : loops'[j] = loops[k]
    <3>1. CASE loops' = loops
      BY <3>1
    <3>2. CASE /\ Len(loops') = Len(loops) + 1 /\ loops'[Len(loops) + 1] = n
               /\ \A k \in 1 .. Len(loops) : loops'[k] = loops[k]
      <4>1. j \in 1 .. Len(loops) \/ j = Len(loops) + 1
        BY <1>28, <3>2
      <4> QED
        BY <3>2, <4>1
    <3> QED
      BY <1>27, <3>1, <3>2
  <2>3. CASE loops'[j] = n
    <3>1. outcome[Frame(m)] = "none"
      BY <1>2, <2>1, <2>3 DEF Main, FramesWait, NothingBelow, Unborn, f
    <3> QED
      BY <1>9, <3>1
  <2>4. CASE \E k \in 1 .. Len(loops) : loops'[j] = loops[k]
    <3>1. outcome[Frame(m)] # "thrown" /\ (outcome[Frame(m)] # "none" => m \in EndsAtOnce(tree))
      BY <2>1, <2>4 DEF Main, ControlGoes, EndedAtOnce
    <3> QED
      BY <1>9, <3>1
  <2> QED
    BY <2>2, <2>3, <2>4
<1> QED
  BY <1>2, <1>12, <1>13, <1>14, <1>15, <1>16, <1>17, <1>18, <1>19, <1>21, <1>22, <1>23, <1>24, <1>25, <1>29,
     <1>30 DEF Main, FramesWait, ControlGoes

-----------------------------------------------------------------------------
(* The end of run_task(): the wrapper is below no combinator. *)
LEMMA RootLoops ==
  ASSUME Inv, Main, running = Frame(Root)
  PROVE  loops = <<>>
<1>1. /\ tree \in Trees /\ loops \in Seq(Combs(tree)) /\ Root \in NodesOf(tree) /\ running # Nobody
      /\ running[1] = Root
  BY InvFacts DEF Frame
<1>2. tree.above[Root] = {} /\ \A q \in Combs(tree) : q # Root
  BY <1>1, TreeAbove, KindsApart
<1>3. ASSUME NEW j \in 1 .. Len(loops) PROVE FALSE
  <2>1. loops[j] \in Combs(tree)
    BY <1>1, ElementOfSeq
  <2>2. Root = loops[j] \/ loops[j] \in tree.above[Root]
    BY <1>1 DEF Main, ControlGoes, LoopsNested
  <2> QED
    BY <1>2, <2>1, <2>2
<1>4. Len(loops) \in Nat
  BY <1>1
<1>5. Len(loops) = 0
  BY <1>3, <1>4
<1> QED
  BY <1>1, <1>5, EmptySeq

LEMMA RunEnds ==
  ASSUME Inv, Main, EndRun \/ Terminate
  PROVE  Over'
<1>1. /\ outcome \in [FramesOfTree(tree) -> {"none", "value", "thrown", "timeout"}]
      /\ Frame(Root) \in FramesOfTree(tree)
  BY InvFacts
<1>2. /\ running = Frame(Root) /\ running' = Nobody /\ loops' = loops
      /\ \/ outcome' = [outcome EXCEPT ![Frame(Root)] = "value"]
         \/ outcome' = [outcome EXCEPT ![Frame(Root)] = "thrown"]
  BY DEF EndRun, Terminate, Resumed
<1>3. outcome'[Frame(Root)] # "none"
  BY <1>1, <1>2
<1> QED
  BY <1>2, <1>3, RootLoops DEF Over

(* When run_task() is over nothing happens any more. *)
LEMMA OverEnds ==
  ASSUME Inv, Over, [Next]_vars
  PROVE  UNCHANGED vars
<1>1. tree \in Trees /\ Root \in NodesOf(tree) /\ Nobody \notin FramesOfTree(tree)
  BY InvFacts
<1>2. \A n \in NodesOf(tree) : running # Frame(n)
  BY <1>1, FrameKinds DEF Over
<1>3. ~EndRun /\ ~Terminate
  BY <1>1, <1>2 DEF EndRun, Terminate, Resumed
<1>4. ASSUME NEW n \in NodesOf(tree), Body(n) \/ Leaf(n) PROVE FALSE
  BY <1>2, <1>4 DEF Body, StartTask, NextStatement, ReturnTask, Propagate, Retry, ReturnIo, Waited,
                    Leaf, SuspendLeaf, EndLeaf, Entered, Resumed
<1>5. ASSUME NEW n \in NodesOf(tree), Combinator(n) PROVE FALSE
  <2>1. ~StartCombinator(n) /\ ~ReturnEmpty(n) /\ ~EndCombinator(n)
    BY <1>2 DEF StartCombinator, ReturnEmpty, EndCombinator, Entered, Resumed
  <2>2. ~ResumeNext(n)
    BY DEF ResumeNext, Over
  <2>3. ASSUME NEW i \in DOMAIN tree.subs[n], Helper(n, i) PROVE FALSE
    <3>1. n \in Combs(tree) /\ running = <<n, i>>
      BY <2>3, HelperRuns
    <3>2. <<n, i>> \in FramesOfTree(tree)
      BY <1>1, <3>1, NotAFrame
    <3> QED
      BY <1>1, <3>1, <3>2 DEF Over
  <2> QED
    BY <1>5, <2>1, <2>2, <2>3 DEF Combinator, Subs
<1>6. ASSUME NEW n \in NodesOf(tree), Event(n) PROVE FALSE
  BY <1>6 DEF Event, Over
<1> QED
  BY <1>3, <1>4, <1>5, <1>6 DEF Next, Run, NodesOf

(* The steps of a program that goes on. *)
Step ==
  \/ UNCHANGED vars
  \/ EndRun \/ Terminate
  \/ \E n \in NodesOf(tree) : Awaiting(n) \/ SuspendLeaf(n) \/ Event(n) \/ StartCombinator(n) \/ ResumeNext(n)
  \/ \E n \in Combs(tree) : \E i \in DOMAIN tree.subs[n] : StartHelper(n, i)
  \/ \E f : Ending(f)

LEMMA StepIs ==
  ASSUME Inv, AllReturn(tree, state, prev), Main, [Next]_vars
  PROVE  Step
<1>1. CASE EndRun \/ Terminate \/ UNCHANGED vars
  BY <1>1 DEF Step
<1>2. ASSUME NEW n \in NodesOf(tree), Body(n) PROVE Awaiting(n) \/ Ending(Frame(n))
  BY <1>2, StartTaskAwaits, NextStatementAwaits, RetryAwaits, ReturnTaskEnds, PropagateEnds, ReturnIoEnds DEF Body
<1>3. ASSUME NEW n \in NodesOf(tree), Leaf(n) PROVE SuspendLeaf(n) \/ Ending(Frame(n))
  BY <1>3, EndLeafEnds DEF Leaf
<1>4. ASSUME NEW n \in NodesOf(tree), Combinator(n) PROVE Step
  <2>1. ASSUME NEW i \in DOMAIN tree.subs[n], Helper(n, i) PROVE Step
    <3>1. n \in Combs(tree)
      BY <2>1, HelperRuns
    <3>2. CASE EndAllHelper(n, i)
      BY <3>1, <3>2, NextInv, EndAllHelperEnds DEF Step
    <3>3. EndAnyHelper(n, i) \/ FailHelper(n, i) => Ending(<<n, i>>)
      BY <3>1, EndAnyHelperEnds, FailHelperEnds
    <3> QED
      BY <2>1, <3>1, <3>2, <3>3 DEF Helper, Step
  <2>2. ReturnEmpty(n) \/ EndCombinator(n) => Ending(Frame(n))
    BY ReturnEmptyEnds, EndCombinatorEnds
  <2> QED
    BY <1>4, <2>1, <2>2 DEF Combinator, Subs, Step
<1> QED
  BY <1>1, <1>2, <1>3, <1>4 DEF Next, Run, NodesOf, Step

LEMMA MainNext ==
  ASSUME Inv, Main, Step
  PROVE  EndRun \/ Terminate \/ Main'
<1>1. CASE UNCHANGED vars
  BY <1>1 DEF vars, Main, FramesWait, ControlGoes
<1>2. ASSUME NEW n \in NodesOf(tree), Awaiting(n) PROVE Main'
  BY <1>2, AwaitMain DEF Awaiting
<1>3. ASSUME NEW f, Ending(f) PROVE Main'
  BY <1>3, FinishMain DEF Ending
<1> QED
  BY <1>1, <1>2, <1>3, SuspendLeafMain, EventMain, StartCombinatorMain, ResumeNextMain,
     StartHelperMain DEF Step

LEMMA ControlNext ==
  ASSUME Inv, AllReturn(tree, state, prev), Over \/ Main, [Next]_vars
  PROVE  Over' \/ Main'
<1>1. CASE Over
  BY <1>1, OverEnds DEF vars, Over
<1>2. CASE Main
  BY <1>2, StepIs, MainNext, RunEnds
<1> QED
  BY <1>1, <1>2

LEMMA InitReturns == Init => AllReturn(tree, state, prev)
<1> SUFFICES ASSUME Init PROVE AllReturn(tree, state, prev)
  OBVIOUS
<1>1. tree \in Trees /\ \A f \in FramesOfTree(tree) : prev[f] = Nobody
  BY DEF Init
<1> QED
  BY <1>1, NotAFrame DEF AllReturn

LEMMA InitMain ==
  ASSUME Init, SafeTree(tree)
  PROVE  Main
<1> DEFINE made == {Root} \cup Made(Root, 1)
           first == {Frame(n) : n \in made}
<1>1. /\ tree \in Trees
      /\ state = [f \in FramesOfTree(tree) |-> IF f \in first THEN "fresh" ELSE "none"]
      /\ outcome = [f \in FramesOfTree(tree) |-> "none"]
      /\ at = [n \in NodesOf(tree) |-> 0]
      /\ armed = {} /\ running = Frame(Root) /\ loops = <<>>
  BY DEF Init, NodesOf
<1>2. Inv
  BY InitInv
<1>3. /\ Root \in NodesOf(tree) /\ Nobody \notin FramesOfTree(tree) /\ Frame(Root) \in FramesOfTree(tree)
      /\ tree.stmt[Root] = 0
  BY <1>1, <1>2, InvFacts, TreesAssumption DEF IsTree
<1>4. /\ \A m \in Made(Root, 1) :
           /\ m \in NodesOf(tree) \ {Root}
           /\ tree.stmt[m] # 0 => tree.owner[m] = Root /\ tree.stmt[m] = 1
      /\ \A m \in NodesOf(tree) \ {Root} :
           /\ tree.owner[m] = Root /\ tree.stmt[m] = 1 => m \in Made(Root, 1)
           /\ tree.stmt[m] = 0 /\ tree.owner[m] \in Made(Root, 1) => m \in Made(Root, 1)
  BY <1>1, <1>3, MadeFacts
<1>5. \A m \in Made(Root, 1) : tree.stmt[m] = 0 => tree.owner[m] \in Made(Root, 1)
  <2>1. SUFFICES ASSUME NEW m \in Made(Root, 1), tree.stmt[m] = 0
                 PROVE  tree.owner[m] \in Made(Root, 1)
    OBVIOUS
  <2>2. m \notin Temporaries(Root, 1)
    BY <2>1 DEF Temporaries
  <2>3. PICK x \in Temporaries(Root, 1) : m \in Temporaries(x, 0)
    BY <2>2 DEF Made
  <2>4. tree.owner[m] = x
    BY <2>3 DEF Temporaries
  <2> QED
    BY <2>3, <2>4 DEF Made
<1>6. \A m : Frame(m) \in first <=> m \in made
  BY DEF Frame
<1>7. \A q \in Combs(tree) : \A i \in DOMAIN tree.subs[q] : <<q, i>> \in FramesOfTree(tree) /\ <<q, i>> \notin first
  BY <1>1, NotAFrame
<1> HIDE DEF first
<1>8. /\ \A m \in NodesOf(tree) : state[Frame(m)] = IF m \in made THEN "fresh" ELSE "none"
      /\ \A q \in Combs(tree) : \A i \in DOMAIN tree.subs[q] : state[<<q, i>>] = "none"
      /\ \A f \in FramesOfTree(tree) : state[f] \in Unborn
  BY <1>1, <1>6, <1>7, FrameKinds DEF Unborn
<1>9. /\ \A m \in NodesOf(tree) : state[Frame(m)] \in Unborn
      /\ \A f \in FramesOfTree(tree) : state[f] \notin {"suspended", "done"}
      /\ \A m \in NodesOf(tree) : outcome[Frame(m)] = "none" /\ at[m] = 0
      /\ running # Nobody /\ state[running] = "fresh"
  BY <1>1, <1>3, <1>8, FrameKinds DEF Unborn
<1>10. /\ \A q \in Combs(tree) : q \in NodesOf(tree)
       /\ \A n \in BodiesOf(tree) : n \in NodesOf(tree)
       /\ \A m \in NodesOf(tree) : Frame(m) \in FramesOfTree(tree)
       /\ \A q \in NodesOf(tree) : \A i \in DOMAIN tree.subs[q] : tree.subs[q][i] \in NodesOf(tree) \ {Root}
  BY <1>1, FrameKinds, TreeSubs DEF Combs, BodiesOf
<1>11. ArgumentsLast(tree, state)
  <2>1. ASSUME NEW q \in Combs(tree), NEW i \in DOMAIN tree.subs[q], state[Frame(q)] = "fresh"
        PROVE  state[Frame(tree.subs[q][i])] = "fresh"
    <3> DEFINE m == tree.subs[q][i]
    <3>1. q \in Made(Root, 1) /\ q \in NodesOf(tree) /\ m \in NodesOf(tree) \ {Root}
      BY <1>1, <1>8, <1>10, <2>1, KindsApart
    <3>2. tree.owner[m] = tree.owner[q] /\ tree.stmt[m] \in {0, tree.stmt[q]}
      BY <1>1, <3>1, TreeSubs DEF Combs
    <3>3. tree.stmt[m] = 0 => tree.stmt[tree.owner[m]] # 0
      BY <1>1, <3>1, TreeNodes
    <3>4. m \in Made(Root, 1)
      BY <1>3, <1>4, <1>5, <3>1, <3>2, <3>3
    <3> QED
      BY <1>8, <3>1, <3>4
  <2>2. ASSUME NEW m \in NodesOf(tree) \ {Root}, tree.stmt[m] = 0, state[Frame(tree.owner[m])] \in Alive
        PROVE  state[Frame(m)] = "fresh"
    <3>1. tree.owner[m] \in NodesOf(tree) /\ tree.stmt[tree.owner[m]] # 0
      BY <1>1, <2>2, TreeNodes
    <3>2. tree.owner[m] \in Made(Root, 1)
      BY <1>3, <1>8, <2>2, <3>1 DEF Alive
    <3> QED
      BY <1>4, <1>8, <2>2, <3>2
  <2> QED
    BY <1>8, <2>1, <2>2 DEF ArgumentsLast
<1>12. ParentsWait(tree, state, prev) /\ HelpersBelong(tree, state, prev) /\ ArgumentsEnd(tree, state)
  BY <1>8, <1>9, <1>10 DEF ParentsWait, HelpersBelong, ArgumentsEnd, Alive
<1>13. OneStatement(tree, state, at)
  BY <1>1, <1>9, TreeNodes DEF OneStatement
<1>14. OutcomesKept(tree, state, outcome)
  BY <1>1, <1>9 DEF OutcomesKept
<1>15. StatementsEnded(tree, state, at, outcome)
  <2>1. \A n \in NodesOf(tree) : \A k \in DOMAIN tree.subs[n] : ~(k < 0)
    BY <1>1, TreeNodes
  <2> QED
    BY <1>9, <1>10, <2>1 DEF StatementsEnded
<1>16. NothingBelow(tree, state, outcome)
  BY <1>9 DEF NothingBelow
<1>17. ControlComes(tree, state, prev, running)
  <2>1. \A m \in NodesOf(tree) \ {Root} : running # Frame(m)
    BY <1>1 DEF Frame
  <2> QED
    BY <1>9, <1>10, <2>1 DEF ControlComes, Alive
<1>18. HelpersInTurn(tree, state, at, running)
  <2>1. \A q \in Combs(tree) : \A i \in DOMAIN tree.subs[q] : running # <<q, i>>
    BY <1>1, NotAFrame
  <2> QED
    BY <1>9, <1>10, <2>1 DEF HelpersInTurn
<1>19. ResumedBecause(tree, state, at, running)
  BY <1>9 DEF ResumedBecause
<1>20. GoesToOwner(tree, state, running)
  BY <1>9, <1>10 DEF GoesToOwner
<1>21. LeavesAtRest(tree, state, armed, loops, running)
  BY <1>1, <1>9 DEF LeavesAtRest
<1>22. 1 .. Len(loops) = {}
  BY <1>1
<1>23. LoopsNested(tree, state, at, loops, running) /\ EndedAtOnce(tree, outcome, loops)
  BY <1>22 DEF LoopsNested, EndedAtOnce
<1> QED
  BY <1>11, <1>12, <1>13, <1>14, <1>15, <1>16, <1>17, <1>18, <1>19, <1>20, <1>21, <1>23
  DEF Main, FramesWait, ControlGoes

LEMMA MainLive ==
  ASSUME Inv, Over \/ Main
  PROVE  ControlLive
<1>1. CASE Over
  <2>1. DOMAIN loops = {}
    BY <1>1 DEF Over
  <2> QED
    BY <1>1, <2>1 DEF Over, ControlLive
<1>2. CASE Main
  <2>1. /\ tree \in Trees /\ loops \in Seq(Combs(tree)) /\ Nobody \notin FramesOfTree(tree)
        /\ DOMAIN loops = 1 .. Len(loops)
    BY InvFacts
  <2>2. running # Nobody => state[running] \in {"fresh", "suspended"}
    BY <1>2 DEF Main, ControlGoes, ControlComes, Alive
  <2>3. ASSUME NEW i \in DOMAIN loops
        PROVE  state[Frame(loops[i])] = "suspended" /\ running # Frame(loops[i])
    <3>1. loops[i] \in NodesOf(tree)
      BY <2>1, ElementOfSeq, KindsApart
    <3>2. Frame(loops[i]) # Nobody
      BY <2>1, <3>1, FrameKinds
    <3> QED
      BY <1>2, <2>1, <3>2 DEF Main, ControlGoes, LoopsNested
  <2> QED
    BY <2>2, <2>3 DEF ControlLive
<1> QED
  BY <1>1, <1>2

(* Control never comes to a dead coroutine, in any program that keeps to   *)
(* what the code asks of it: the previous_handle_ of a frame is alive when *)
(* the frame ends, no helper of a combinator is resumed twice or after the *)
(* combinator, and no loop of await_suspend() goes on below a frame that   *)
(* has ended.                                                              *)
THEOREM ControlStaysLive == Spec /\ SafeTree(tree) => []ControlLive
<1>1. Init => Inv /\ AllReturn(tree, state, prev)
  BY InitInv, InitReturns
<1>2. Init /\ SafeTree(tree) => Over \/ Main
  BY InitMain
<1>3. Inv /\ AllReturn(tree, state, prev) /\ [Next]_vars => Inv' /\ AllReturn(tree, state, prev)'
  BY NextInv, ReturnsNext
<1>4. Inv /\ AllReturn(tree, state, prev) /\ (Over \/ Main) /\ [Next]_vars => (Over \/ Main)'
  BY ControlNext
<1>5. Inv /\ (Over \/ Main) => ControlLive
  BY MainLive
<1> QED
  BY <1>1, <1>2, <1>3, <1>4, <1>5, PTL DEF Spec

-----------------------------------------------------------------------------
(* Every node of a tree is reached from the root.                          *)
LEMMA TreeInduction ==
  ASSUME NEW t \in Trees, NEW S, Root \in S,
         \A q \in NodesOf(t) : \A i \in DOMAIN t.subs[q] : q \in S => t.subs[q][i] \in S
  PROVE  NodesOf(t) \subseteq S
<1> DEFINE Height(m) == Cardinality(t.above[m])
           Bad == {h \in Nat : \E m \in NodesOf(t) : m \notin S /\ Height(m) = h}
<1>1. \A m \in NodesOf(t) : IsFiniteSet(t.above[m]) /\ Height(m) \in Nat
  <2>1. IsFiniteSet(NodesOf(t))
    BY TreesAssumption DEF IsTree, NodesOf
  <2>2. \A m \in NodesOf(t) : t.above[m] \subseteq NodesOf(t)
    BY TreeAbove
  <2>3. \A m \in NodesOf(t) : IsFiniteSet(t.above[m])
    BY <2>1, <2>2, FS_Subset
  <2> QED
    BY <2>3, FS_CardinalityType
<1>2. SUFFICES ASSUME Bad # {} PROVE FALSE
  BY <1>1
<1>3. PICK h \in Bad : \A k \in Bad : ~(k < h)
  <2> DEFINE R == {p \in Nat \X Nat : p[1] < p[2]}
  <2>1. IsWellFoundedOn(R, Nat)
    BY NatLessThanWellFounded DEF OpToRel
  <2>2. Bad \subseteq Nat
    OBVIOUS
  <2> HIDE DEF Bad
  <2>3. PICK h \in Bad : \A k \in Bad : ~(<<k, h>> \in R)
    <3> HIDE DEF R
    <3> QED
      BY <1>2, <2>1, <2>2, WFMin
  <2>4. \A k \in Bad : k < h => <<k, h>> \in R
    BY <2>2, <2>3
  <2> QED
    BY <2>3, <2>4
<1>4. PICK m \in NodesOf(t) : m \notin S /\ Height(m) = h
  OBVIOUS
<1>5. PICK q \in NodesOf(t) : \E i \in DOMAIN t.subs[q] : t.subs[q][i] = m
  BY <1>4, TreeAbove
<1>6. t.above[m] = t.above[q] \cup {q} /\ q \notin t.above[q]
  BY <1>5, TreeEdge, TreeAbove
<1>7. q \notin S
  BY <1>4, <1>5
<1>8. Height(m) = Height(q) + 1
  BY <1>1, <1>6, FS_AddElement
<1>9. Height(q) \in Bad /\ Height(q) < h
  BY <1>1, <1>4, <1>7, <1>8
<1> QED
  BY <1>3, <1>9

(* m is x or is below it. *)
Under(t, x, m) == m = x \/ x \in t.above[m]

(* Below a node means below one of its arguments, and of no other; below a *)
(* statement of a task nothing belongs to another statement of the task.   *)
LEMMA BelowArgument ==
  ASSUME NEW t \in Trees, NEW m \in NodesOf(t)
  PROVE  \A y \in t.above[m] : \E i \in DOMAIN t.subs[y] : Under(t, t.subs[y][i], m)
<1> DEFINE S == {n \in NodesOf(t) : \A y \in t.above[n] : \E i \in DOMAIN t.subs[y] : Under(t, t.subs[y][i], n)}
<1>1. Root \in S
  BY TreeNodes, TreeAbove
<1>2. ASSUME NEW q \in NodesOf(t), NEW i \in DOMAIN t.subs[q], q \in S PROVE t.subs[q][i] \in S
  <2>1. t.subs[q][i] \in NodesOf(t) /\ t.above[t.subs[q][i]] = t.above[q] \cup {q}
    BY TreeSubs, TreeEdge
  <2>2. ASSUME NEW y \in t.above[q]
        PROVE  \E j \in DOMAIN t.subs[y] : Under(t, t.subs[y][j], t.subs[q][i])
    <3>1. PICK j \in DOMAIN t.subs[y] : Under(t, t.subs[y][j], q)
      BY <1>2
    <3> QED
      BY <2>1, <3>1 DEF Under
  <2>3. Under(t, t.subs[q][i], t.subs[q][i])
    BY DEF Under
  <2> QED
    BY <2>1, <2>2, <2>3
<1> HIDE DEF S
<1>3. NodesOf(t) \subseteq S
  BY <1>1, <1>2, TreeInduction
<1> QED
  BY <1>3 DEF S

LEMMA OneArgument ==
  ASSUME NEW t \in Trees, NEW m \in NodesOf(t), NEW q \in NodesOf(t),
         NEW i \in DOMAIN t.subs[q], NEW j \in DOMAIN t.subs[q],
         Under(t, t.subs[q][i], m), Under(t, t.subs[q][j], m)
  PROVE  t.subs[q][i] = t.subs[q][j]
<1> DEFINE S == {n \in NodesOf(t) : \A x \in NodesOf(t) : \A k, l \in DOMAIN t.subs[x] :
                   Under(t, t.subs[x][k], n) /\ Under(t, t.subs[x][l], n) => t.subs[x][k] = t.subs[x][l]}
<1>1. Root \in S
  <2>1. Root \in NodesOf(t) /\ t.above[Root] = {}
    BY TreeNodes, TreeAbove
  <2>2. \A x \in NodesOf(t) : \A k \in DOMAIN t.subs[x] : ~Under(t, t.subs[x][k], Root)
    BY <2>1, TreeSubs DEF Under
  <2> QED
    BY <2>1, <2>2
<1>2. ASSUME NEW n \in NodesOf(t), NEW l \in DOMAIN t.subs[n], n \in S PROVE t.subs[n][l] \in S
  <2> DEFINE s == t.subs[n][l]
  <2>1. /\ s \in NodesOf(t) /\ t.above[s] = t.above[n] \cup {n} /\ n \notin t.above[n]
        /\ \A x \in NodesOf(t) : \A k \in DOMAIN t.subs[x] : t.subs[x][k] = s => x = n
    BY TreeSubs, TreeEdge, TreeAbove
  <2>2. ASSUME NEW x \in NodesOf(t), NEW k \in DOMAIN t.subs[x], NEW g \in DOMAIN t.subs[x],
               t.subs[x][k] = s, Under(t, t.subs[x][g], s)
        PROVE  t.subs[x][g] = s
    <3>1. x = n
      BY <2>1, <2>2
    <3>2. t.above[t.subs[n][g]] = t.above[n] \cup {n} /\ t.subs[n][g] \in NodesOf(t)
      BY <2>2, <3>1, TreeEdge, TreeSubs
    <3>3. t.subs[n][g] # n
      BY <2>1, <3>2
    <3>4. t.subs[n][g] \notin t.above[n]
      <4>1. t.subs[n][g] \in t.above[n] => t.above[t.subs[n][g]] \subseteq t.above[n]
        BY TreeAbove
      <4> QED
        BY <2>1, <3>2, <4>1
    <3> QED
      BY <2>1, <2>2, <3>1, <3>3, <3>4 DEF Under
  <2>3. ASSUME NEW x \in NodesOf(t), NEW k \in DOMAIN t.subs[x], NEW g \in DOMAIN t.subs[x],
               Under(t, t.subs[x][k], s), Under(t, t.subs[x][g], s)
        PROVE  t.subs[x][k] = t.subs[x][g]
    <3>1. CASE t.subs[x][k] = s \/ t.subs[x][g] = s
      BY <2>2, <2>3, <3>1
    <3>2. CASE t.subs[x][k] # s /\ t.subs[x][g] # s
      <4>1. Under(t, t.subs[x][k], n) /\ Under(t, t.subs[x][g], n)
        BY <2>1, <2>3, <3>2 DEF Under
      <4> QED
        BY <1>2, <4>1
    <3> QED
      BY <3>1, <3>2
  <2> QED
    BY <2>1, <2>3
<1> HIDE DEF S
<1>3. NodesOf(t) \subseteq S
  BY <1>1, <1>2, TreeInduction
<1>4. m \in S
  BY <1>3
<1> QED
  BY <1>4 DEF S

LEMMA SameStatement ==
  ASSUME NEW t \in Trees, NEW m \in NodesOf(t), NEW x \in t.above[m] \ {Root}, t.owner[m] = t.owner[x]
  PROVE  t.stmt[m] \in {0, t.stmt[x]}
<1> DEFINE S == {n \in NodesOf(t) : \A y \in t.above[n] \ {Root} :
                   t.owner[n] = t.owner[y] => t.stmt[n] \in {0, t.stmt[y]}}
<1>1. Root \in S
  BY TreeNodes, TreeAbove
<1>2. ASSUME NEW q \in NodesOf(t), NEW i \in DOMAIN t.subs[q], q \in S PROVE t.subs[q][i] \in S
  <2> DEFINE n == t.subs[q][i]
  <2>1. /\ n \in NodesOf(t) /\ t.above[n] = t.above[q] \cup {q} /\ q \notin t.above[q]
        /\ t.kind[q] \in Combinators => t.owner[n] = t.owner[q] /\ t.stmt[n] \in {0, t.stmt[q]}
        /\ t.kind[q] \notin Combinators => t.owner[n] = q
    BY TreeSubs, TreeEdge, TreeAbove
  <2> HIDE DEF n
  <2>2. ASSUME NEW y \in t.above[n] \ {Root}, t.owner[n] = t.owner[y]
        PROVE  t.stmt[n] \in {0, t.stmt[y]}
    <3>1. t.owner[y] \in t.above[y] /\ y \notin t.above[y]
      BY <2>1, TreeAbove
    <3>2. CASE t.kind[q] \notin Combinators
      <4>1. t.owner[y] = q
        BY <2>1, <2>2, <3>2
      <4>2. y \in t.above[q] => t.above[y] \subseteq t.above[q]
        BY TreeAbove
      <4> QED
        BY <2>1, <3>1, <4>1, <4>2
    <3>3. CASE t.kind[q] \in Combinators
      <4>1. t.owner[q] = t.owner[y] /\ t.stmt[n] \in {0, t.stmt[q]}
        BY <2>1, <2>2, <3>3
      <4>2. y \in t.above[q] => t.stmt[q] \in {0, t.stmt[y]}
        BY <1>2, <4>1
      <4> QED
        BY <2>1, <4>1, <4>2
    <3> QED
      BY <3>2, <3>3
  <2> QED
    BY <2>1, <2>2 DEF n
<1> HIDE DEF S
<1>3. NodesOf(t) \subseteq S
  BY <1>1, <1>2, TreeInduction
<1> QED
  BY <1>3 DEF S

LEMMA RootAbove ==
  ASSUME NEW t \in Trees, NEW m \in NodesOf(t) \ {Root}
  PROVE  Root \in t.above[m]
<1> DEFINE S == {n \in NodesOf(t) : Under(t, Root, n)}
<1>1. Root \in S
  BY TreeNodes DEF Under
<1>2. \A q \in NodesOf(t) : \A i \in DOMAIN t.subs[q] : q \in S => t.subs[q][i] \in S
  BY TreeSubs, TreeEdge DEF Under
<1> HIDE DEF S
<1>3. NodesOf(t) \subseteq S
  BY <1>1, <1>2, TreeInduction
<1> QED
  BY <1>3 DEF S, Under

-----------------------------------------------------------------------------
(* What has not begun. A combinator has still to resume its helper k.      *)
Resuming(a, lp, q, k) == k > a[q] /\ \E j \in 1 .. Len(lp) : lp[j] = q

(* Control has come to f, and so to what m is below.                       *)
Reaches(t, f, m) ==
  \/ \E x \in NodesOf(t) : f = Frame(x) /\ Under(t, x, m)
  \/ \E q \in Combs(t) : \E i \in DOMAIN t.subs[q] : f = <<q, i>> /\ Under(t, t.subs[q][i], m)

(* A frame that has been made and has not begun is about to begin: control *)
(* is above it, in a coroutine that begins, or will be, when a combinator  *)
(* resumes the next of its helpers.                                        *)
FreshAhead(t, st, a, run, lp) ==
  \A m \in NodesOf(t) \ {Root} :
    t.stmt[m] # 0 /\ st[Frame(m)] = "fresh" =>
      \/ run # Nobody /\ st[run] = "fresh" /\ Reaches(t, run, m)
      \/ \E q \in Combs(t) : \E k \in DOMAIN t.subs[q] :
           Resuming(a, lp, q, k) /\ Under(t, t.subs[q][k], m)

HelpersAhead(t, st, a, run, lp) ==
  \A q \in Combs(t) : \A i \in DOMAIN t.subs[q] :
    st[<<q, i>>] = "fresh" => run = <<q, i>> \/ Resuming(a, lp, q, i)

(* It belongs to a task that waits.                                        *)
FreshOwned(t, st) ==
  \A m \in NodesOf(t) \ {Root} :
    t.stmt[m] # 0 /\ st[Frame(m)] = "fresh" =>
      t.owner[m] = Root \/ st[Frame(t.owner[m])] = "suspended"

Ahead ==
  /\ FreshAhead(tree, state, at, running, loops)
  /\ HelpersAhead(tree, state, at, running, loops)
  /\ FreshOwned(tree, state)

(* The steps that neither make nor destroy a task. *)
LEMMA SuspendLeafFacts ==
  ASSUME Inv, NEW n \in NodesOf(tree), SuspendLeaf(n)
  PROVE  /\ tree \in Trees /\ tree.kind[n] \in Leaves /\ DOMAIN tree.subs[n] = {}
         /\ n \notin Combs(tree) /\ n \notin BodiesOf(tree)
         /\ running = Frame(n) /\ running # Nobody /\ state[Frame(n)] = "fresh"
         /\ \A m \in NodesOf(tree) : state'[Frame(m)] = IF m = n THEN "suspended" ELSE state[Frame(m)]
         /\ \A q \in Combs(tree) : \A i \in DOMAIN tree.subs[q] :
              <<q, i>> # Frame(n) /\ state'[<<q, i>>] = state[<<q, i>>]
         /\ armed' = armed \cup {Frame(n)} /\ running' = Nobody
         /\ tree' = tree /\ prev' = prev /\ outcome' = outcome /\ at' = at /\ count' = count
         /\ loops' = loops
<1>1. /\ tree \in Trees /\ state \in [FramesOfTree(tree) -> States]
      /\ Frame(n) \in FramesOfTree(tree) /\ Nobody \notin FramesOfTree(tree)
  BY InvFacts, FrameKinds
<1>2. /\ tree.kind[n] \in Leaves /\ running = Frame(n) /\ running # Nobody
      /\ state[Frame(n)] = "fresh"
      /\ state' = [state EXCEPT ![Frame(n)] = "suspended"] /\ armed' = armed \cup {Frame(n)}
      /\ running' = Nobody
      /\ tree' = tree /\ prev' = prev /\ outcome' = outcome /\ at' = at /\ count' = count
      /\ loops' = loops
  BY <1>1 DEF SuspendLeaf, Kind, Entered
<1>3. n \notin Combs(tree) /\ n \notin BodiesOf(tree) /\ DOMAIN tree.subs[n] = {}
  BY <1>1, <1>2, KindsApart
<1>4. \A m \in NodesOf(tree) : Frame(m) \in FramesOfTree(tree) /\ (Frame(m) = Frame(n) <=> m = n)
  BY <1>1, FrameKinds
<1>5. \A q \in Combs(tree) : \A i \in DOMAIN tree.subs[q] :
        <<q, i>> \in FramesOfTree(tree) /\ <<q, i>> # Frame(n)
  BY <1>1, NotAFrame
<1>6. \A g \in FramesOfTree(tree) : state'[g] = IF g = Frame(n) THEN "suspended" ELSE state[g]
  BY <1>1, <1>2
<1>7. /\ \A m \in NodesOf(tree) : state'[Frame(m)] = IF m = n THEN "suspended" ELSE state[Frame(m)]
      /\ \A q \in Combs(tree) : \A i \in DOMAIN tree.subs[q] : state'[<<q, i>>] = state[<<q, i>>]
  BY <1>4, <1>5, <1>6
<1> QED
  BY <1>1, <1>2, <1>3, <1>5, <1>7

LEMMA EventFacts ==
  ASSUME Inv, Main, NEW n \in NodesOf(tree), Event(n)
  PROVE  /\ tree \in Trees /\ tree.kind[n] \in Leaves /\ Frame(n) # Nobody
         /\ state[Frame(n)] = "suspended" /\ running = Nobody /\ loops = <<>>
         /\ armed \ {Frame(n)} \subseteq armed' /\ running' = Frame(n)
         /\ tree' = tree /\ state' = state /\ prev' = prev /\ outcome' = outcome
         /\ at' = at /\ count' = count /\ loops' = loops
<1>1. tree \in Trees /\ Frame(n) \in FramesOfTree(tree) /\ Frame(n) # Nobody
  BY InvFacts, FrameKinds
<1>2. /\ running = Nobody /\ loops = <<>> /\ Frame(n) \in armed
      /\ armed' = IF tree.kind[n] = "event" THEN armed ELSE armed \ {Frame(n)}
      /\ running' = Frame(n)
      /\ tree' = tree /\ state' = state /\ prev' = prev /\ outcome' = outcome /\ at' = at
      /\ count' = count /\ loops' = loops
  BY DEF Event, Kind
<1>3. PICK x \in NodesOf(tree) : /\ Frame(n) = Frame(x) /\ tree.kind[x] \in Leaves
                                 /\ state[Frame(n)] \in {"suspended", "done"}
  BY <1>2 DEF Inv, TypeInv, ArmedWait
<1>4. x = n
  BY <1>3 DEF Frame
<1>5. tree.kind[n] = "event" => state[Frame(n)] # "done"
  BY <1>2 DEF Main, ControlGoes, GoesToOwner
<1>6. tree.kind[n] # "event" => state[Frame(n)] = "suspended"
  BY <1>2 DEF Main, ControlGoes, LeavesAtRest
<1> QED
  BY <1>1, <1>2, <1>3, <1>4, <1>5, <1>6

LEMMA ResumeNextFacts ==
  ASSUME Inv, Main, NEW n \in NodesOf(tree), ResumeNext(n)
  PROVE  /\ tree \in Trees /\ n \in Combs(tree) /\ running = Nobody
         /\ \E i \in DOMAIN tree.subs[n] :
              /\ running' = <<n, i>> /\ <<n, i>> # Nobody /\ state[<<n, i>>] = "fresh"
              /\ \A q \in Combs(tree) : \A k \in DOMAIN tree.subs[q] :
                   Resuming(at, loops, q, k) => <<q, k>> = <<n, i>> \/ Resuming(at', loops', q, k)
              /\ \A x \in NodesOf(tree) : x # n => at'[x] = at[x]
         /\ tree' = tree /\ state' = state /\ prev' = prev /\ outcome' = outcome
         /\ armed' = armed /\ count' = count
<1> DEFINE i == at[n] + 1
           l == Len(loops)
<1>1. tree \in Trees /\ at \in [NodesOf(tree) -> Nat] /\ Nobody \notin FramesOfTree(tree)
  BY InvFacts
<1>2. loops \in Seq(Combs(tree)) /\ l \in Nat /\ loops # <<>>
  BY InvFacts DEF ResumeNext
<1>3. l # 0 /\ l \in 1 .. l
  BY <1>2, EmptySeq
<1>4. /\ running = Nobody /\ loops[l] = n /\ state[Frame(n)] = "suspended"
      /\ at' = [at EXCEPT ![n] = i]
      /\ loops' = IF i = Len(tree.subs[n]) THEN SubSeq(loops, 1, l - 1) ELSE loops
      /\ running' = <<n, i>>
      /\ tree' = tree /\ state' = state /\ prev' = prev /\ outcome' = outcome /\ armed' = armed
      /\ count' = count
  BY DEF ResumeNext, Subs
<1>5. n \in Combs(tree)
  BY <1>2, <1>3, <1>4, ElementOfSeq
<1>6. /\ Len(tree.subs[n]) \in Nat /\ DOMAIN tree.subs[n] = 1 .. Len(tree.subs[n])
      /\ at[n] < Len(tree.subs[n]) /\ at[n] \in Nat
  BY <1>1, <1>3, <1>4, TreeNodes DEF Inv, CombinatorInv, LoopsOnce
<1>7. i \in DOMAIN tree.subs[n] /\ i > at[n]
  BY <1>6
<1>8. state[<<n, i>>] = "fresh" /\ <<n, i>> # Nobody
  BY <1>1, <1>4, <1>5, <1>7, NotAFrame DEF Main, ControlGoes, HelpersInTurn
<1>9. \A x \in NodesOf(tree) : at'[x] = IF x = n THEN i ELSE at[x]
  BY <1>1, <1>4
<1>10. ASSUME NEW j \in 1 .. l, loops[j] # n \/ i # Len(tree.subs[n])
       PROVE  j \in 1 .. Len(loops') /\ loops'[j] = loops[j]
  <2>1. CASE i # Len(tree.subs[n])
    BY <1>4, <2>1
  <2>2. CASE i = Len(tree.subs[n])
    <3>1. loops' = SubSeq(loops, 1, l - 1)
      BY <1>4, <2>2
    <3>2. j # l /\ j \in 1 .. (l - 1) /\ l - 1 \in Nat /\ l - 1 <= Len(loops)
      BY <1>2, <1>3, <1>4, <1>10, <2>2
    <3> HIDE DEF l
    <3>3. Len(SubSeq(loops, 1, l - 1)) = l - 1 /\ SubSeq(loops, 1, l - 1)[j] = loops[j]
      BY <1>2, <3>2
    <3> QED
      BY <3>1, <3>2, <3>3
  <2> QED
    BY <2>1, <2>2
<1>11. ASSUME NEW q \in Combs(tree), NEW k \in DOMAIN tree.subs[q], Resuming(at, loops, q, k)
       PROVE  <<q, k>> = <<n, i>> \/ Resuming(at', loops', q, k)
  <2>1. PICK j \in 1 .. l : loops[j] = q
    BY <1>11 DEF Resuming
  <2>2. k > at[q] /\ q \in NodesOf(tree)
    BY <1>11 DEF Resuming, Combs
  <2>3. CASE q # n
    <3>1. j \in 1 .. Len(loops') /\ loops'[j] = q /\ at'[q] = at[q]
      BY <1>9, <1>10, <2>1, <2>2, <2>3
    <3> QED
      BY <2>2, <3>1 DEF Resuming
  <2>4. CASE q = n /\ k # i
    <3>1. k \in Nat /\ k <= Len(tree.subs[n]) /\ k > i
      BY <1>6, <1>11, <2>2, <2>4
    <3>2. i # Len(tree.subs[n])
      BY <1>6, <3>1
    <3>3. j \in 1 .. Len(loops') /\ loops'[j] = q /\ k > at'[q]
      BY <1>9, <1>10, <2>1, <2>4, <3>1, <3>2
    <3> QED
      BY <3>3 DEF Resuming
  <2> QED
    BY <2>3, <2>4
<1> HIDE DEF i
<1> QED
  BY <1>1, <1>4, <1>5, <1>7, <1>8, <1>9, <1>11

LEMMA StartHelperFacts ==
  ASSUME Inv, Main, NEW n \in Combs(tree), NEW i \in DOMAIN tree.subs[n], StartHelper(n, i)
  PROVE  /\ tree \in Trees /\ running = <<n, i>> /\ state[<<n, i>>] = "fresh"
         /\ running' = Frame(tree.subs[n][i]) /\ Frame(tree.subs[n][i]) # Nobody
         /\ state[Frame(tree.subs[n][i])] = "fresh"
         /\ \A m \in NodesOf(tree) : state'[Frame(m)] = state[Frame(m)] /\ <<n, i>> # Frame(m)
         /\ state'[<<n, i>>] = "suspended"
         /\ \A q \in Combs(tree) : \A j \in DOMAIN tree.subs[q] :
              <<q, j>> = <<n, i>> \/ state'[<<q, j>>] = state[<<q, j>>]
         /\ tree' = tree /\ outcome' = outcome /\ at' = at /\ armed' = armed /\ loops' = loops
         /\ count' = count
<1>1. /\ tree \in Trees /\ state \in [FramesOfTree(tree) -> States] /\ Nobody \notin FramesOfTree(tree)
  BY InvFacts
<1>2. running = <<n, i>> /\ state[<<n, i>>] = "fresh"
  BY DEF StartHelper, Entered
<1>3. state[Frame(tree.subs[n][i])] = "fresh"
  BY <1>2 DEF Main, FramesWait, ArgumentsLast
<1>4. /\ state' = [state EXCEPT ![<<n, i>>] = "suspended"]
      /\ running' = Frame(tree.subs[n][i])
      /\ tree' = tree /\ outcome' = outcome /\ at' = at /\ armed' = armed /\ loops' = loops
      /\ count' = count
  BY DEF StartHelper, Subs
<1>a. n \in NodesOf(tree) /\ \A m : <<n, i>> # Frame(m)
  BY <1>1, NotAFrame
<1>b. \A m \in NodesOf(tree) : Frame(m) \in FramesOfTree(tree)
  BY <1>1, FrameKinds
<1>5. n \in NodesOf(tree) /\ \A m \in NodesOf(tree) : Frame(m) \in FramesOfTree(tree) /\ <<n, i>> # Frame(m)
  BY <1>a, <1>b
<1>6. Frame(tree.subs[n][i]) # Nobody
  BY <1>1, <1>5, EdgeIs
<1>7. \A q \in Combs(tree) : \A j \in DOMAIN tree.subs[q] : <<q, j>> \in FramesOfTree(tree)
  BY <1>1, NotAFrame
<1>8. /\ state'[<<n, i>>] = "suspended" /\ <<n, i>> \in FramesOfTree(tree)
      /\ \A g \in FramesOfTree(tree) : g = <<n, i>> \/ state'[g] = state[g]
  BY <1>1, <1>4, <1>7
<1> QED
  BY <1>1, <1>2, <1>3, <1>4, <1>5, <1>6, <1>7, <1>8

LEMMA StartCombinatorFacts ==
  ASSUME Inv, Main, NEW n \in NodesOf(tree), StartCombinator(n)
  PROVE  /\ tree \in Trees /\ n \in Combs(tree) /\ running = Frame(n) /\ running # Nobody
         /\ state[Frame(n)] = "fresh" /\ running' = <<n, 1>> /\ <<n, 1>> # Nobody
         /\ 1 \in DOMAIN tree.subs[n]
         /\ \A m \in NodesOf(tree) : state'[Frame(m)] = IF m = n THEN "suspended" ELSE state[Frame(m)]
         /\ \A q \in Combs(tree) : \A j \in DOMAIN tree.subs[q] :
              /\ state'[<<q, j>>] = IF q = n THEN "fresh" ELSE state[<<q, j>>]
              /\ Resuming(at, loops, q, j) => Resuming(at', loops', q, j)
         /\ \A j \in DOMAIN tree.subs[n] : j # 1 => Resuming(at', loops', n, j)
         /\ \A m \in NodesOf(tree) : outcome'[Frame(m)] = outcome[Frame(m)]
         /\ \A m \in NodesOf(tree) : m # n => at'[m] = at[m]
         /\ \A m \in NodesOf(tree) : count'[m] = IF m = n THEN 0 ELSE count[m]
         /\ tree' = tree /\ armed' = armed
<1> DEFINE f == Frame(n)
           H == Helpers(n)
<1>1. /\ tree \in Trees /\ state \in [FramesOfTree(tree) -> States]
      /\ at \in [NodesOf(tree) -> Nat] /\ count \in [NodesOf(tree) -> Nat]
      /\ Nobody \notin FramesOfTree(tree)
      /\ f \in FramesOfTree(tree) /\ loops \in Seq(Combs(tree))
  BY InvFacts, FrameKinds
<1>2. /\ n \in Combs(tree) /\ tree.subs[n] # <<>> /\ running = f /\ running # Nobody
      /\ state[f] = "fresh"
      /\ state' = [g \in FramesOfTree(tree) |->
                       IF g = f THEN "suspended" ELSE IF g \in H THEN "fresh"
                       ELSE IF g \in {} /\ state[g] # "none" THEN "freed" ELSE state[g]]
      /\ armed' = armed \ {}
      /\ outcome' = [g \in FramesOfTree(tree) |-> IF g \in H THEN "none" ELSE outcome[g]]
      /\ at' = [at EXCEPT ![n] = 1] /\ count' = [count EXCEPT ![n] = 0]
      /\ running' = <<n, 1>>
      /\ loops' = IF 1 = Len(tree.subs[n]) THEN loops ELSE Append(loops, n)
      /\ tree' = tree
  BY <1>1 DEF StartCombinator, Become, TakesHandlesBack, Kind, Subs, Entered, Combs, Frames, FirstResumed
<1>3. Len(tree.subs[n]) \in Nat /\ DOMAIN tree.subs[n] = 1 .. Len(tree.subs[n]) /\ Len(tree.subs[n]) # 0
  BY <1>1, <1>2, TreeNodes, EmptySeq
<1>4. 1 \in DOMAIN tree.subs[n]
  BY <1>3
<1>5. /\ \A q \in Combs(tree) : \A j \in DOMAIN tree.subs[q] :
           q \in NodesOf(tree) /\ <<q, j>> \in FramesOfTree(tree) /\ \A x : <<q, j>> # Frame(x)
      /\ \A m \in NodesOf(tree) : Frame(m) \in FramesOfTree(tree) /\ (Frame(m) = f <=> m = n)
  BY <1>1, NotAFrame, FrameKinds
<1>6. \A q \in Combs(tree) : \A j \in DOMAIN tree.subs[q] : <<q, j>> \in H <=> q = n
  BY DEF Helpers, Subs
<1>7. \A m : Frame(m) \notin H
  BY <1>2, <1>5 DEF Helpers, Subs
<1> HIDE DEF H
<1>8. \A g \in FramesOfTree(tree) : /\ state'[g] = IF g = f THEN "suspended"
                                                   ELSE IF g \in H THEN "fresh" ELSE state[g]
                                    /\ outcome'[g] = IF g \in H THEN "none" ELSE outcome[g]
  BY <1>2
<1>9. /\ \A m \in NodesOf(tree) : /\ state'[Frame(m)] = IF m = n THEN "suspended" ELSE state[Frame(m)]
                                  /\ outcome'[Frame(m)] = outcome[Frame(m)]
      /\ \A q \in Combs(tree) : \A j \in DOMAIN tree.subs[q] :
           state'[<<q, j>>] = IF q = n THEN "fresh" ELSE state[<<q, j>>]
  BY <1>5, <1>6, <1>7, <1>8
<1>10. \A m \in NodesOf(tree) : /\ at'[m] = IF m = n THEN 1 ELSE at[m]
                                /\ count'[m] = IF m = n THEN 0 ELSE count[m]
  BY <1>1, <1>2
<1>11. \A j \in 1 .. Len(loops) : loops[j] # n
  BY <1>2 DEF Main, ControlGoes, LoopsNested
<1>12. /\ \A j \in 1 .. Len(loops) : j \in 1 .. Len(loops') /\ loops'[j] = loops[j]
       /\ Len(tree.subs[n]) # 1 => \E j \in 1 .. Len(loops') : loops'[j] = n
  <2>1. CASE loops' = loops /\ Len(tree.subs[n]) = 1
    BY <2>1
  <2>2. CASE loops' = Append(loops, n)
    <3>1. Len(loops) \in Nat
      BY <1>1
    <3>2. Len(Append(loops, n)) = Len(loops) + 1 /\ Append(loops, n)[Len(loops) + 1] = n
      BY <1>1, <1>2
    <3>3. \A j \in 1 .. Len(loops) : Append(loops, n)[j] = loops[j]
      BY <1>1, <1>2
    <3>4. Len(loops) + 1 \in 1 .. Len(loops')
      BY <2>2, <3>1, <3>2
    <3>5. \A j \in 1 .. Len(loops) : j \in 1 .. Len(loops')
      BY <2>2, <3>1, <3>2
    <3> QED
      BY <2>2, <3>2, <3>3, <3>4, <3>5
  <2> QED
    BY <1>2, <2>1, <2>2
<1>13. ASSUME NEW q \in Combs(tree), NEW j \in DOMAIN tree.subs[q], Resuming(at, loops, q, j)
       PROVE  Resuming(at', loops', q, j)
  <2>1. q # n /\ q \in NodesOf(tree)
    BY <1>5, <1>11, <1>13 DEF Resuming
  <2>2. at'[q] = at[q]
    BY <1>10, <2>1
  <2> QED
    BY <1>12, <1>13, <2>2 DEF Resuming
<1>14. ASSUME NEW j \in DOMAIN tree.subs[n], j # 1 PROVE Resuming(at', loops', n, j)
  <2>1. j \in Nat /\ j > 1 /\ Len(tree.subs[n]) # 1
    <3> DEFINE l == Len(tree.subs[n])
    <3>1. l \in Nat /\ j \in 1 .. l
      BY <1>3
    <3> HIDE DEF l
    <3>2. j \in Nat /\ j > 1 /\ l # 1
      BY <1>14, <3>1
    <3> QED
      BY <3>2 DEF l
  <2>2. at'[n] = 1
    BY <1>10
  <2> QED
    BY <1>12, <2>1, <2>2 DEF Resuming
<1>15. <<n, 1>> # Nobody
  BY <1>1, <1>2, <1>4, <1>5
<1>16. armed' = armed
  BY <1>2
<1> QED
  BY <1>1, <1>2, <1>4, <1>9, <1>10, <1>13, <1>14, <1>15, <1>16 DEF f

(* The awaiting task makes the frames below its expression, and no others. *)
LEMMA AwaitAhead ==
  ASSUME Inv, Main, Ahead, NEW n, NEW i, NEW k, NEW freed, AwaitIs(n, i, k, freed)
  PROVE  Ahead'
<1> DEFINE e == tree.subs[n][i]
           M == Made(n, i)
<1>1. /\ tree \in Trees /\ n \in BodiesOf(tree) /\ n \in NodesOf(tree) /\ n \notin Combs(tree)
      /\ i \in DOMAIN tree.subs[n] /\ running = Frame(n) /\ Nobody \notin FramesOfTree(tree)
  BY InvFacts, KindsApart DEF AwaitIs
<1>2. /\ e \in NodesOf(tree) \ {Root} /\ Frame(e) # Nobody /\ tree.owner[e] = n /\ tree.stmt[e] = i
      /\ n \notin tree.above[n]
  BY <1>1, EdgeIs, FrameKinds
<1>3. /\ tree' = tree /\ running' = Frame(e) /\ loops' = loops /\ e \in M
      /\ \A m \in NodesOf(tree) : at'[m] = IF m = n THEN k ELSE at[m]
      /\ \A m \in M : m \in NodesOf(tree) \ {Root} /\ n \in tree.above[m]
      /\ \A m \in M : tree.stmt[m] # 0 => tree.owner[m] = n /\ tree.stmt[m] = i
      /\ \A m \in NodesOf(tree) \ {Root} : tree.owner[m] = n /\ tree.stmt[m] = i => m \in M
      /\ \A m \in M : state[Frame(m)] \in Unborn \/ (Frame(m) \in freed /\ m \notin BodiesOf(tree))
  BY DEF AwaitIs
<1>4. \A m \in NodesOf(tree) :
       state'[Frame(m)] = IF m = n THEN "suspended"
                          ELSE IF m \in M THEN "fresh"
                          ELSE IF Frame(m) \in freed /\ state[Frame(m)] # "none" THEN "freed"
                          ELSE state[Frame(m)]
  BY DEF AwaitIs
<1>5. ASSUME NEW m \in M, tree.stmt[m] # 0 PROVE Under(tree, e, m)
  <2>1. m \in NodesOf(tree) \ {Root} /\ n \in tree.above[m] /\ tree.owner[m] = n /\ tree.stmt[m] = i
    BY <1>3, <1>5
  <2>2. PICK j \in DOMAIN tree.subs[n] : Under(tree, tree.subs[n][j], m)
    BY <1>1, <2>1, BelowArgument
  <2> DEFINE x == tree.subs[n][j]
  <2>3. x \in NodesOf(tree) \ {Root} /\ tree.owner[x] = n /\ tree.stmt[x] = j
    BY <1>1, EdgeIs
  <2>4. x \in tree.above[m] => tree.stmt[m] \in {0, tree.stmt[x]}
    BY <1>1, <2>1, <2>3, SameStatement
  <2>5. j = i
    <3>1. CASE m = x
      BY <2>1, <2>3, <3>1
    <3>2. CASE x \in tree.above[m]
      BY <1>5, <2>1, <2>3, <2>4, <3>2
    <3> QED
      BY <2>2, <3>1, <3>2 DEF Under
  <2> QED
    BY <2>2, <2>5
<1> HIDE DEF e, M
<1>6. state'[Frame(e)] = "fresh"
  <2>1. e # n
    BY <1>2, <1>3
  <2>2. state'[Frame(e)] = "fresh"
    BY <1>2, <1>3, <1>4, <2>1
  <2> QED
    BY <2>2
<1>7. ASSUME NEW m \in NodesOf(tree) \ {Root}, tree.stmt[m] # 0, state'[Frame(m)] = "fresh", m \notin M
      PROVE  m # n /\ state[Frame(m)] = "fresh" /\ Frame(m) \notin freed
  BY <1>4, <1>7
<1>8. FreshOwned(tree, state')
  <2>1. SUFFICES ASSUME NEW m \in NodesOf(tree) \ {Root}, tree.stmt[m] # 0, state'[Frame(m)] = "fresh",
                        tree.owner[m] # Root
                 PROVE  state'[Frame(tree.owner[m])] = "suspended"
    BY DEF FreshOwned
  <2>2. CASE m \in M
    BY <1>1, <1>3, <1>4, <2>1, <2>2
  <2>3. CASE m \notin M
    <3> DEFINE o == tree.owner[m]
    <3>1. state[Frame(m)] = "fresh" /\ Frame(m) \notin freed
      BY <1>7, <2>1, <2>3
    <3>2. state[Frame(o)] = "suspended"
      BY <2>1, <3>1 DEF Ahead, FreshOwned
    <3>3. o \in NodesOf(tree) /\ o \in BodiesOf(tree) /\ o \in tree.above[m]
      BY <1>1, TreeNodes, TreeAbove DEF BodiesOf
    <3>4. o \notin M
      BY <1>3, <3>2, <3>3 DEF Unborn
    <3>5. Frame(o) \notin freed
      <4>1. Frame(o) \in freed => Frame(m) \in freed
        BY <3>3 DEF AwaitIs, Swept
      <4> QED
        BY <3>1, <4>1
    <3> HIDE DEF o
    <3> QED
      BY <1>4, <3>2, <3>3, <3>4, <3>5 DEF o
  <2> QED
    BY <2>2, <2>3
<1>9. \A q \in Combs(tree) : q \in NodesOf(tree) /\ q # n /\ at'[q] = at[q]
  BY <1>1, <1>3, KindsApart
<1>10. \A q \in Combs(tree) : \A j \in DOMAIN tree.subs[q] :
         Resuming(at, loops, q, j) => Resuming(at', loops', q, j)
  BY <1>3, <1>9 DEF Resuming
<1>11. HelpersAhead(tree, state', at', running', loops')
  <2>1. SUFFICES ASSUME NEW q \in Combs(tree), NEW j \in DOMAIN tree.subs[q], state'[<<q, j>>] = "fresh"
                 PROVE  Resuming(at', loops', q, j)
    BY DEF HelpersAhead
  <2>2. state[<<q, j>>] = "fresh"
    BY <2>1, AwaitKeeps
  <2>3. running # <<q, j>>
    BY <1>1, NotAFrame
  <2>4. Resuming(at, loops, q, j)
    BY <2>2, <2>3 DEF Ahead, HelpersAhead
  <2> QED
    BY <1>10, <2>4
<1>12. FreshAhead(tree, state', at', running', loops')
  <2>1. SUFFICES ASSUME NEW m \in NodesOf(tree) \ {Root}, tree.stmt[m] # 0, state'[Frame(m)] = "fresh"
                 PROVE  \/ running' # Nobody /\ state'[running'] = "fresh" /\ Reaches(tree, running', m)
                        \/ \E q \in Combs(tree) : \E j \in DOMAIN tree.subs[q] :
                             Resuming(at', loops', q, j) /\ Under(tree, tree.subs[q][j], m)
    BY DEF FreshAhead
  <2>2. CASE m \in M
    <3>1. Reaches(tree, Frame(e), m)
      BY <1>2, <1>5, <2>1, <2>2 DEF Reaches
    <3> QED
      BY <1>2, <1>3, <1>6, <3>1
  <2>3. CASE m \notin M
    <3>1. state[Frame(m)] = "fresh" /\ m # n
      BY <1>7, <2>1, <2>3
    <3>2. tree.owner[m] \in NodesOf(tree) /\ tree.owner[m] \in tree.above[m] /\ tree.stmt[m] \in Nat
      BY <1>1, TreeNodes, TreeAbove
    <3>3. ASSUME running # Nobody, state[running] = "fresh", Reaches(tree, running, m) PROVE FALSE
      <4>1. n \in tree.above[m] /\ state[Frame(n)] = "fresh"
        <5>1. \A q \in Combs(tree) : \A j \in DOMAIN tree.subs[q] : running # <<q, j>>
          BY <1>1, NotAFrame
        <5>2. PICK x \in NodesOf(tree) : running = Frame(x) /\ Under(tree, x, m)
          BY <3>3, <5>1 DEF Reaches
        <5>3. x = n
          BY <1>1, <5>2 DEF Frame
        <5> QED
          BY <1>1, <3>1, <3>3, <5>2, <5>3 DEF Under
      <4>2. n = tree.owner[m] \/ n \in tree.above[tree.owner[m]]
        BY <1>1, <4>1, TreeAbove DEF BodiesOf
      <4>3. CASE tree.owner[m] = Root
        <5>1. n = Root
          BY <1>1, <4>2, <4>3, TreeAbove
        <5>2. tree.kind[Root] = "run"
          BY <1>1, TreeNodes
        <5>3. tree.stmt[m] \in 0 .. Len(tree.subs[Root]) /\ Len(tree.subs[Root]) = 1
          <6>1. IsRooted(tree)
            BY <1>1, TreesAssumption DEF IsTree
          <6>2. tree.stmt[m] \in 0 .. Len(tree.subs[tree.owner[m]])
            BY <6>1, Zenon DEF IsRooted, NodesOf
          <6> QED
            BY <1>1, <4>3, <5>2, <6>2, TreeNodes
        <5>4. DOMAIN tree.subs[Root] = 1 .. Len(tree.subs[Root])
          BY <1>1, TreeNodes
        <5>5. i = 1 /\ tree.stmt[m] = 1
          BY <1>1, <2>1, <3>2, <5>1, <5>3, <5>4
        <5> QED
          BY <1>3, <2>3, <4>3, <5>1, <5>5
      <4>4. CASE tree.owner[m] # Root
        <5>1. state[Frame(tree.owner[m])] = "suspended"
          BY <2>1, <3>1, <4>4 DEF Ahead, FreshOwned
        <5>2. n \in tree.above[tree.owner[m]]
          BY <4>1, <4>2, <5>1
        <5> QED
          BY <3>2, <4>1, <5>1, <5>2 DEF Main, FramesWait, NothingBelow, Unborn
      <4> QED
        BY <4>3, <4>4
    <3>4. \E q \in Combs(tree) : \E j \in DOMAIN tree.subs[q] :
            Resuming(at, loops, q, j) /\ Under(tree, tree.subs[q][j], m)
      BY <2>1, <3>1, <3>3 DEF Ahead, FreshAhead
    <3> QED
      BY <1>10, <3>4
  <2> QED
    BY <2>2, <2>3
<1> QED
  BY <1>3, <1>8, <1>11, <1>12 DEF Ahead

LEMMA FinishAhead ==
  ASSUME Inv, Main, Ahead, NEW f, NEW r, NEW freed, FinishIs(f, r, freed)
  PROVE  Ahead'
<1>1. /\ tree \in Trees /\ f \in FramesOfTree(tree) /\ running = f /\ running # Nobody
      /\ tree' = tree /\ at' = at /\ loops' = loops
  BY InvFacts DEF FinishIs
<1>2. \A m \in NodesOf(tree) : state'[Frame(m)] = "fresh" =>
        Frame(m) # f /\ state[Frame(m)] = "fresh" /\ Frame(m) \notin freed
  BY FinishKeeps
<1>3. FreshOwned(tree, state')
  <2>1. SUFFICES ASSUME NEW m \in NodesOf(tree) \ {Root}, tree.stmt[m] # 0, state'[Frame(m)] = "fresh",
                        tree.owner[m] # Root
                 PROVE  state'[Frame(tree.owner[m])] = "suspended"
    BY DEF FreshOwned
  <2> DEFINE o == tree.owner[m]
  <2>2. state[Frame(m)] = "fresh" /\ Frame(m) \notin freed
    BY <1>2, <2>1
  <2>3. state[Frame(o)] = "suspended"
    BY <2>1, <2>2 DEF Ahead, FreshOwned
  <2>4. o \in NodesOf(tree) /\ o \in BodiesOf(tree) /\ o \in tree.above[m]
    BY <1>1, TreeNodes, TreeAbove DEF BodiesOf
  <2>5. f # Frame(o)
    <3>1. at[o] # 0
      BY <2>3, <2>4 DEF Main, FramesWait, StatementsEnded
    <3>2. tree.stmt[m] = Current(tree, at, o)
      BY <2>1, <2>2, <3>1 DEF Main, FramesWait, OneStatement
    <3>3. f = Frame(o) => Clears(o, freed)
      BY <2>4 DEF FinishIs
    <3> QED
      BY <2>2, <3>2, <3>3 DEF Clears
  <2>6. Frame(o) \notin freed
    <3>1. Swept(f, freed)
      BY DEF FinishIs
    <3>2. Frame(o) \in freed => Frame(m) \in freed
      BY <2>4, <3>1 DEF Swept
    <3> QED
      BY <2>2, <3>2
  <2> QED
    BY <2>3, <2>4, <2>5, <2>6, FinishKeeps
<1>4. HelpersAhead(tree, state', at', running', loops')
  <2>1. SUFFICES ASSUME NEW q \in Combs(tree), NEW j \in DOMAIN tree.subs[q], state'[<<q, j>>] = "fresh"
                 PROVE  Resuming(at, loops, q, j)
    BY <1>1 DEF HelpersAhead
  <2>2. state[<<q, j>>] = "fresh" /\ <<q, j>> # f
    BY <2>1, FinishKeeps
  <2> QED
    BY <1>1, <2>2 DEF Ahead, HelpersAhead
<1>5. FreshAhead(tree, state', at', running', loops')
  <2>1. SUFFICES ASSUME NEW m \in NodesOf(tree) \ {Root}, tree.stmt[m] # 0, state'[Frame(m)] = "fresh"
                 PROVE  \E q \in Combs(tree) : \E k \in DOMAIN tree.subs[q] :
                          Resuming(at, loops, q, k) /\ Under(tree, tree.subs[q][k], m)
    BY <1>1 DEF FreshAhead
  <2>2. state[Frame(m)] = "fresh" /\ Frame(m) # f
    BY <1>2, <2>1
  <2>3. ASSUME state[f] = "fresh", Reaches(tree, f, m) PROVE FALSE
    <3>1. PICK x \in NodesOf(tree) : f = Frame(x) /\ DOMAIN tree.subs[x] = {}
      BY <2>3 DEF FinishIs
    <3>2. \A q \in Combs(tree) : \A j \in DOMAIN tree.subs[q] : f # <<q, j>>
      BY <1>1, <3>1, NotAFrame
    <3>3. PICK y \in NodesOf(tree) : f = Frame(y) /\ Under(tree, y, m)
      BY <2>3, <3>2 DEF Reaches
    <3>4. x = y /\ x # m
      BY <2>2, <3>1, <3>3 DEF Frame
    <3>5. x \in tree.above[m]
      BY <3>3, <3>4 DEF Under
    <3> QED
      BY <1>1, <3>1, <3>5, BelowArgument
  <2> QED
    BY <1>1, <2>1, <2>2, <2>3 DEF Ahead, FreshAhead
<1> QED
  BY <1>1, <1>3, <1>4, <1>5 DEF Ahead

LEMMA SuspendLeafAhead ==
  ASSUME Inv, Main, Ahead, NEW n \in NodesOf(tree), SuspendLeaf(n)
  PROVE  Ahead'
<1>1. /\ tree \in Trees /\ DOMAIN tree.subs[n] = {} /\ n \notin BodiesOf(tree)
      /\ running = Frame(n) /\ running # Nobody /\ tree' = tree /\ at' = at /\ loops' = loops
      /\ \A m \in NodesOf(tree) : state'[Frame(m)] = IF m = n THEN "suspended" ELSE state[Frame(m)]
      /\ \A q \in Combs(tree) : \A i \in DOMAIN tree.subs[q] :
           <<q, i>> # Frame(n) /\ state'[<<q, i>>] = state[<<q, i>>]
  BY SuspendLeafFacts
<1>2. FreshOwned(tree, state')
  <2>1. \A m \in NodesOf(tree) : tree.owner[m] \in NodesOf(tree)
    BY <1>1, TreeNodes
  <2> QED
    BY <1>1, <2>1 DEF Ahead, FreshOwned
<1>3. HelpersAhead(tree, state', at', running', loops')
  BY <1>1 DEF Ahead, HelpersAhead
<1>4. FreshAhead(tree, state', at', running', loops')
  <2>1. SUFFICES ASSUME NEW m \in NodesOf(tree) \ {Root}, tree.stmt[m] # 0, state'[Frame(m)] = "fresh"
                 PROVE  \E q \in Combs(tree) : \E k \in DOMAIN tree.subs[q] :
                          Resuming(at, loops, q, k) /\ Under(tree, tree.subs[q][k], m)
    BY <1>1 DEF FreshAhead
  <2>2. state[Frame(m)] = "fresh" /\ m # n
    BY <1>1, <2>1
  <2>3. ASSUME Reaches(tree, running, m) PROVE FALSE
    <3>1. PICK x \in NodesOf(tree) : Frame(n) = Frame(x) /\ Under(tree, x, m)
      BY <1>1, <2>3 DEF Reaches
    <3>2. n \in tree.above[m]
      BY <2>2, <3>1 DEF Under, Frame
    <3> QED
      BY <1>1, <3>2, BelowArgument
  <2> QED
    BY <1>1, <2>1, <2>2, <2>3 DEF Ahead, FreshAhead
<1> QED
  BY <1>1, <1>2, <1>3, <1>4 DEF Ahead

(* When the event loop calls a handle nothing waits to begin. *)
LEMMA EventAhead ==
  ASSUME Inv, Main, Ahead, NEW n \in NodesOf(tree), Event(n)
  PROVE  Ahead'
<1>1. /\ running = Nobody /\ loops = <<>> /\ tree' = tree /\ state' = state
  BY EventFacts
<1>2. \A q, k : ~Resuming(at, loops, q, k)
  BY <1>1 DEF Resuming
<1>3. /\ \A m \in NodesOf(tree) \ {Root} : tree.stmt[m] # 0 => state[Frame(m)] # "fresh"
      /\ \A q \in Combs(tree) : \A i \in DOMAIN tree.subs[q] : state[<<q, i>>] # "fresh"
  <2>1. \A q \in Combs(tree) : \A i \in DOMAIN tree.subs[q] : <<q, i>> # Nobody
    BY InvFacts, NotAFrame
  <2> QED
    BY <1>1, <1>2, <2>1 DEF Ahead, FreshAhead, HelpersAhead
<1> QED
  BY <1>1, <1>3 DEF Ahead, FreshAhead, HelpersAhead, FreshOwned

LEMMA ResumeNextAhead ==
  ASSUME Inv, Main, Ahead, NEW n \in NodesOf(tree), ResumeNext(n)
  PROVE  Ahead'
<1>1. tree \in Trees /\ n \in Combs(tree) /\ running = Nobody /\ tree' = tree /\ state' = state
  BY ResumeNextFacts
<1>2. PICK i \in DOMAIN tree.subs[n] :
              /\ running' = <<n, i>> /\ <<n, i>> # Nobody /\ state[<<n, i>>] = "fresh"
              /\ \A q \in Combs(tree) : \A k \in DOMAIN tree.subs[q] :
                   Resuming(at, loops, q, k) => <<q, k>> = <<n, i>> \/ Resuming(at', loops', q, k)
  BY ResumeNextFacts
<1>3. HelpersAhead(tree, state', at', running', loops')
  <2>1. \A q \in Combs(tree) : \A k \in DOMAIN tree.subs[q] : <<q, k>> # Nobody
    BY <1>1, NotAFrame, FrameKinds
  <2> QED
    BY <1>1, <1>2, <2>1 DEF Ahead, HelpersAhead
<1>4. FreshAhead(tree, state', at', running', loops')
  <2>1. SUFFICES ASSUME NEW m \in NodesOf(tree) \ {Root}, tree.stmt[m] # 0, state[Frame(m)] = "fresh"
                 PROVE  \/ running' # Nobody /\ state[running'] = "fresh" /\ Reaches(tree, running', m)
                        \/ \E q \in Combs(tree) : \E k \in DOMAIN tree.subs[q] :
                             Resuming(at', loops', q, k) /\ Under(tree, tree.subs[q][k], m)
    BY <1>1 DEF FreshAhead
  <2>2. PICK q \in Combs(tree) : \E k \in DOMAIN tree.subs[q] :
          Resuming(at, loops, q, k) /\ Under(tree, tree.subs[q][k], m)
    BY <1>1, <2>1 DEF Ahead, FreshAhead
  <2>3. PICK k \in DOMAIN tree.subs[q] : Resuming(at, loops, q, k) /\ Under(tree, tree.subs[q][k], m)
    BY <2>2
  <2>4. CASE <<q, k>> = <<n, i>>
    <3>1. Reaches(tree, <<q, k>>, m)
      BY <2>3 DEF Reaches
    <3> QED
      BY <1>2, <2>4, <3>1
  <2>5. CASE Resuming(at', loops', q, k)
    BY <2>3, <2>5
  <2> QED
    BY <1>2, <2>3, <2>4, <2>5
<1>5. FreshOwned(tree, state')
  BY <1>1 DEF Ahead, FreshOwned
<1> QED
  BY <1>1, <1>3, <1>4, <1>5 DEF Ahead

LEMMA StartHelperAhead ==
  ASSUME Inv, Main, Ahead, NEW n \in Combs(tree), NEW i \in DOMAIN tree.subs[n], StartHelper(n, i)
  PROVE  Ahead'
<1> DEFINE x == tree.subs[n][i]
<1>1. /\ tree \in Trees /\ running = <<n, i>> /\ running' = Frame(x) /\ Frame(x) # Nobody
      /\ state[Frame(x)] = "fresh" /\ tree' = tree /\ at' = at /\ loops' = loops
      /\ \A m \in NodesOf(tree) : state'[Frame(m)] = state[Frame(m)] /\ <<n, i>> # Frame(m)
      /\ \A q \in Combs(tree) : \A j \in DOMAIN tree.subs[q] :
           <<q, j>> = <<n, i>> \/ state'[<<q, j>>] = state[<<q, j>>]
      /\ state'[<<n, i>>] = "suspended"
  <2> HIDE DEF x
  <2>1. /\ running' = Frame(x) /\ Frame(x) # Nobody /\ state[Frame(x)] = "fresh"
    BY StartHelperFacts DEF x
  <2>2. /\ tree \in Trees /\ running = <<n, i>> /\ tree' = tree /\ at' = at /\ loops' = loops
        /\ \A m \in NodesOf(tree) : state'[Frame(m)] = state[Frame(m)] /\ <<n, i>> # Frame(m)
        /\ state'[<<n, i>>] = "suspended"
    BY StartHelperFacts
  <2>3. \A q \in Combs(tree) : \A j \in DOMAIN tree.subs[q] :
          <<q, j>> = <<n, i>> \/ state'[<<q, j>>] = state[<<q, j>>]
    BY StartHelperFacts
  <2> QED
    BY <2>1, <2>2, <2>3
<1>2. n \in NodesOf(tree) /\ x \in NodesOf(tree)
  BY <1>1, NotAFrame, EdgeIs
<1> HIDE DEF x
<1>3. HelpersAhead(tree, state', at', running', loops')
  BY <1>1 DEF Ahead, HelpersAhead
<1>4. FreshOwned(tree, state')
  <2>1. \A m \in NodesOf(tree) : tree.owner[m] \in NodesOf(tree)
    BY <1>1, TreeNodes
  <2> QED
    BY <1>1, <2>1 DEF Ahead, FreshOwned
<1>5. FreshAhead(tree, state', at', running', loops')
  <2>1. SUFFICES ASSUME NEW m \in NodesOf(tree) \ {Root}, tree.stmt[m] # 0, state'[Frame(m)] = "fresh",
                        Reaches(tree, running, m)
                 PROVE  running' # Nobody /\ state'[running'] = "fresh" /\ Reaches(tree, running', m)
    BY <1>1 DEF Ahead, FreshAhead
  <2>2. \A y \in NodesOf(tree) : running # Frame(y)
    BY <1>1
  <2>3. PICK q \in Combs(tree) : \E j \in DOMAIN tree.subs[q] :
          running = <<q, j>> /\ Under(tree, tree.subs[q][j], m)
    BY <2>1, <2>2 DEF Reaches
  <2>4. Under(tree, x, m)
    BY <1>1, <2>3 DEF x
  <2>5. Reaches(tree, Frame(x), m)
    BY <1>2, <2>4 DEF Reaches
  <2> QED
    BY <1>1, <1>2, <2>5
<1> QED
  BY <1>1, <1>3, <1>4, <1>5 DEF Ahead

LEMMA StartCombinatorAhead ==
  ASSUME Inv, Main, Ahead, NEW n \in NodesOf(tree), StartCombinator(n)
  PROVE  Ahead'
<1>1. /\ tree \in Trees /\ n \in Combs(tree) /\ running = Frame(n) /\ running # Nobody
      /\ running' = <<n, 1>> /\ <<n, 1>> # Nobody /\ 1 \in DOMAIN tree.subs[n] /\ tree' = tree
      /\ \A m \in NodesOf(tree) : state'[Frame(m)] = IF m = n THEN "suspended" ELSE state[Frame(m)]
      /\ \A q \in Combs(tree) : \A j \in DOMAIN tree.subs[q] :
           /\ state'[<<q, j>>] = IF q = n THEN "fresh" ELSE state[<<q, j>>]
           /\ Resuming(at, loops, q, j) => Resuming(at', loops', q, j)
      /\ \A j \in DOMAIN tree.subs[n] : j # 1 => Resuming(at', loops', n, j)
  BY StartCombinatorFacts
<1>2. \A q \in Combs(tree) : \A j \in DOMAIN tree.subs[q] : <<q, j>> # Frame(n)
  BY <1>1, NotAFrame
<1>3. HelpersAhead(tree, state', at', running', loops')
  BY <1>1, <1>2 DEF Ahead, HelpersAhead
<1>4. FreshOwned(tree, state')
  <2>1. \A m \in NodesOf(tree) : tree.owner[m] \in NodesOf(tree)
    BY <1>1, TreeNodes
  <2> QED
    BY <1>1, <2>1 DEF Ahead, FreshOwned
<1>5. FreshAhead(tree, state', at', running', loops')
  <2>1. SUFFICES ASSUME NEW m \in NodesOf(tree) \ {Root}, tree.stmt[m] # 0, state'[Frame(m)] = "fresh"
                 PROVE  \/ running' # Nobody /\ state'[running'] = "fresh" /\ Reaches(tree, running', m)
                        \/ \E q \in Combs(tree) : \E k \in DOMAIN tree.subs[q] :
                             Resuming(at', loops', q, k) /\ Under(tree, tree.subs[q][k], m)
    BY DEF FreshAhead
  <2>2. state[Frame(m)] = "fresh" /\ m # n
    BY <1>1, <2>1
  <2>3. CASE Reaches(tree, running, m)
    <3>1. PICK x \in NodesOf(tree) : Frame(n) = Frame(x) /\ Under(tree, x, m)
      BY <1>1, <1>2, <2>3 DEF Reaches
    <3>2. n \in tree.above[m]
      BY <2>2, <3>1 DEF Under, Frame
    <3>3. PICK k \in DOMAIN tree.subs[n] : Under(tree, tree.subs[n][k], m)
      BY <1>1, <3>2, BelowArgument
    <3>4. CASE k = 1
      <4>1. Reaches(tree, <<n, 1>>, m) /\ state'[<<n, 1>>] = "fresh"
        BY <1>1, <3>3, <3>4 DEF Reaches
      <4> QED
        BY <1>1, <4>1
    <3>5. CASE k # 1
      BY <1>1, <3>3, <3>5
    <3> QED
      BY <3>4, <3>5
  <2>4. CASE ~Reaches(tree, running, m)
    BY <1>1, <2>1, <2>2, <2>4 DEF Ahead, FreshAhead
  <2> QED
    BY <2>3, <2>4
<1> QED
  BY <1>1, <1>3, <1>4, <1>5 DEF Ahead

LEMMA AheadNext ==
  ASSUME Inv, Main, Ahead, Step
  PROVE  EndRun \/ Terminate \/ Ahead'
<1>1. CASE UNCHANGED vars
  BY <1>1 DEF vars, Ahead
<1>2. ASSUME NEW n \in NodesOf(tree), Awaiting(n) PROVE Ahead'
  BY <1>2, AwaitAhead DEF Awaiting
<1>3. ASSUME NEW f, Ending(f) PROVE Ahead'
  BY <1>3, FinishAhead DEF Ending
<1> QED
  BY <1>1, <1>2, <1>3, SuspendLeafAhead, EventAhead, StartCombinatorAhead, ResumeNextAhead,
     StartHelperAhead DEF Step

LEMMA InitAhead ==
  ASSUME Init
  PROVE  Ahead
<1>1. /\ tree \in Trees
      /\ state = [f \in FramesOfTree(tree) |->
                    IF f \in {Frame(n) : n \in {Root} \cup Made(Root, 1)} THEN "fresh" ELSE "none"]
      /\ running = Frame(Root)
  BY DEF Init
<1>2. Inv
  BY InitInv
<1>3. /\ Root \in NodesOf(tree) /\ Nobody \notin FramesOfTree(tree) /\ Frame(Root) \in FramesOfTree(tree)
  BY <1>2, InvFacts
<1>4. running # Nobody /\ state[running] = "fresh"
  BY <1>1, <1>3
<1>5. \A q \in Combs(tree) : \A i \in DOMAIN tree.subs[q] : state[<<q, i>>] = "none"
  <2>1. \A q \in Combs(tree) : \A i \in DOMAIN tree.subs[q] :
          <<q, i>> \in FramesOfTree(tree) /\ \A m : <<q, i>> # Frame(m)
    BY <1>1, NotAFrame
  <2> QED
    BY <1>1, <2>1
<1>6. FreshOwned(tree, state)
  <2>1. SUFFICES ASSUME NEW m \in NodesOf(tree) \ {Root}, tree.stmt[m] # 0, state[Frame(m)] = "fresh"
                 PROVE  tree.owner[m] = Root
    BY DEF FreshOwned
  <2>2. PICK x \in {Root} \cup Made(Root, 1) : Frame(m) = Frame(x)
    BY <1>1, <2>1, FrameKinds
  <2>3. m \in Made(Root, 1)
    BY <2>1, <2>2 DEF Frame
  <2> QED
    BY <1>1, <1>3, <2>1, <2>3, MadeFacts
<1>7. FreshAhead(tree, state, at, running, loops)
  <2>1. SUFFICES ASSUME NEW m \in NodesOf(tree) \ {Root} PROVE Reaches(tree, running, m)
    BY <1>4 DEF FreshAhead
  <2>2. Root \in tree.above[m]
    BY <1>1, RootAbove
  <2> QED
    BY <1>1, <1>3, <2>2 DEF Reaches, Under
<1> QED
  BY <1>5, <1>6, <1>7 DEF Ahead, HelpersAhead

-----------------------------------------------------------------------------
(* What is destroyed below a task that waits has begun: what has not is    *)
(* below a combinator above the task, and the task below it as well.       *)
LEMMA FreedBegan ==
  ASSUME Inv, Main, Ahead, NEW n \in NodesOf(tree), running = Frame(n), state[Frame(n)] = "suspended",
         NEW m \in NodesOf(tree), n \in tree.above[m], tree.stmt[m] # 0, state[Frame(m)] = "fresh"
  PROVE  FALSE
<1>1. tree \in Trees /\ running # Nobody /\ running[1] = n /\ loops \in Seq(Combs(tree))
  BY InvFacts, FrameKinds DEF Frame
<1>2. m # Root /\ tree.above[n] \subseteq tree.above[m]
  BY <1>1, TreeAbove
<1>3. PICK q \in Combs(tree) : \E k \in DOMAIN tree.subs[q] :
        Resuming(at, loops, q, k) /\ Under(tree, tree.subs[q][k], m)
  BY <1>1, <1>2 DEF Ahead, FreshAhead
<1>4. PICK k \in DOMAIN tree.subs[q] : Resuming(at, loops, q, k) /\ Under(tree, tree.subs[q][k], m)
  BY <1>3
<1>5. PICK j \in 1 .. Len(loops) : loops[j] = q
  BY <1>4 DEF Resuming
<1>6. state[Frame(q)] = "suspended" /\ q \in tree.above[n] /\ q \in NodesOf(tree)
  <2>1. running # Frame(q) /\ (n = q \/ q \in tree.above[n]) /\ state[Frame(q)] = "suspended"
    BY <1>1, <1>5 DEF Main, ControlGoes, LoopsNested
  <2> QED
    BY <2>1 DEF Combs
<1>7. state[<<q, k>>] = "fresh"
  BY <1>4, <1>6 DEF Resuming, Main, ControlGoes, HelpersInTurn
<1>8. state[Frame(tree.subs[q][k])] = "fresh"
  BY <1>7 DEF Main, FramesWait, ArgumentsLast
<1>9. PICK l \in DOMAIN tree.subs[q] : Under(tree, tree.subs[q][l], n)
  BY <1>1, <1>6, BelowArgument
<1>10. Under(tree, tree.subs[q][l], m)
  BY <1>2, <1>9 DEF Under
<1>11. tree.subs[q][l] = tree.subs[q][k]
  BY <1>1, <1>4, <1>6, <1>10, OneArgument
<1>12. tree.subs[q][k] # n /\ tree.subs[q][k] \in tree.above[n]
  BY <1>8, <1>9, <1>11 DEF Under
<1> QED
  BY <1>8, <1>12 DEF Main, FramesWait, NothingBelow, Unborn

LEMMA AwaitStarted ==
  ASSUME Inv, Main, Ahead, NEW n, NEW i, NEW k, NEW freed, AwaitIs(n, i, k, freed),
         NEW m \in NodesOf(tree), tree.stmt[m] # 0, state[Frame(m)] = "fresh"
  PROVE  state'[Frame(m)] # "freed"
<1>1. n \in BodiesOf(tree) /\ n \in NodesOf(tree) /\ running = Frame(n)
  BY DEF AwaitIs, BodiesOf
<1>2. \/ state[Frame(n)] = "fresh" /\ freed = {}
      \/ state[Frame(n)] = "suspended"
  BY DEF AwaitIs
<1>3. Frame(m) \in freed => n \in tree.above[m]
  BY DEF AwaitIs, Swept, Frame
<1>4. Frame(m) \notin freed
  BY <1>1, <1>2, <1>3, FreedBegan
<1>5. state'[Frame(m)] = IF m = n THEN "suspended"
                          ELSE IF m \in Made(n, i) THEN "fresh"
                          ELSE IF Frame(m) \in freed /\ state[Frame(m)] # "none" THEN "freed"
                          ELSE state[Frame(m)]
  BY DEF AwaitIs
<1> QED
  BY <1>4, <1>5

LEMMA FinishStarted ==
  ASSUME Inv, Main, Ahead, NEW f, NEW r, NEW freed, FinishIs(f, r, freed),
         NEW m \in NodesOf(tree), tree.stmt[m] # 0, state[Frame(m)] = "fresh"
  PROVE  state'[Frame(m)] # "freed"
<1>1. tree \in Trees /\ f \in FramesOfTree(tree) /\ running = f /\ Frame(m) \in FramesOfTree(tree)
  BY InvFacts, FrameKinds DEF FinishIs
<1>2. state'[Frame(m)] = "freed" => Frame(m) \in freed
  <2>1. state'[Frame(m)] = IF Frame(m) = f THEN "done"
                      ELSE IF Frame(m) \in freed /\ state[Frame(m)] # "none" THEN "freed" ELSE state[Frame(m)]
    BY <1>1 DEF FinishIs
  <2> QED
    BY <2>1
<1>3. SUFFICES ASSUME Frame(m) \in freed PROVE FALSE
  BY <1>2
<1>4. f[1] \in tree.above[m]
  <2>1. Swept(f, freed)
    BY DEF FinishIs
  <2> QED
    BY <1>3, <2>1 DEF Swept
<1>5. CASE \E x \in NodesOf(tree) : f = Frame(x)
  <2>1. PICK x \in NodesOf(tree) : f = Frame(x)
    BY <1>5
  <2>2. x \in tree.above[m]
    BY <1>4, <2>1 DEF Frame
  <2>3. DOMAIN tree.subs[x] # {}
    BY <1>1, <2>2, BelowArgument
  <2>4. state[f] = "suspended"
    BY <2>1, <2>3 DEF FinishIs, Frame
  <2> QED
    BY <1>1, <2>1, <2>2, <2>4, FreedBegan
<1>6. CASE \E q \in Combs(tree) : \E i \in DOMAIN tree.subs[q] : f = <<q, i>>
  BY <1>3, <1>6 DEF FinishIs
<1> QED
  BY <1>1, <1>5, <1>6, FrameKinds

(* The wrapper of run_task() is destroyed when nothing waits to begin. *)
LEMMA RunStarted ==
  ASSUME Inv, Main, Ahead, EndRun, NEW m \in NodesOf(tree), tree.stmt[m] # 0, state[Frame(m)] = "fresh"
  PROVE  FALSE
<1>1. running = Frame(Root) /\ state[Frame(Root)] = "suspended"
  BY DEF EndRun, Resumed
<1>2. loops = <<>>
  BY <1>1, RootLoops
<1>3. m # Root
  BY <1>1
<1>4. \A q, k : ~Resuming(at, loops, q, k)
  BY <1>2 DEF Resuming
<1> QED
  BY <1>1, <1>3, <1>4 DEF Ahead, FreshAhead

LEMMA StepStarted ==
  ASSUME Inv, Main, Ahead, Step, NEW m \in NodesOf(tree), tree.kind[m] = "event",
         state[Frame(m)] = "fresh"
  PROVE  state'[Frame(m)] # "freed"
<1>1. tree \in Trees /\ tree.stmt[m] # 0
  BY InvFacts, WaitMade DEF Main
<1>2. CASE UNCHANGED vars
  BY <1>2 DEF vars
<1>3. ~EndRun
  BY <1>1, RunStarted
<1>4. CASE Terminate
  BY <1>4 DEF Terminate
<1>5. ASSUME NEW n \in NodesOf(tree), Awaiting(n) PROVE state'[Frame(m)] # "freed"
  BY <1>1, <1>5, AwaitStarted DEF Awaiting
<1>6. ASSUME NEW f, Ending(f) PROVE state'[Frame(m)] # "freed"
  BY <1>1, <1>6, FinishStarted DEF Ending
<1>7. ASSUME NEW n \in NodesOf(tree), SuspendLeaf(n) PROVE state'[Frame(m)] # "freed"
  BY <1>7, SuspendLeafFacts
<1>8. ASSUME NEW n \in NodesOf(tree), Event(n) PROVE state'[Frame(m)] # "freed"
  BY <1>8, EventFacts
<1>9. ASSUME NEW n \in NodesOf(tree), StartCombinator(n) PROVE state'[Frame(m)] # "freed"
  <2>1. state'[Frame(m)] = IF m = n THEN "suspended" ELSE state[Frame(m)]
    BY <1>9, StartCombinatorFacts
  <2> QED
    BY <2>1
<1>10. ASSUME NEW n \in NodesOf(tree), ResumeNext(n) PROVE state'[Frame(m)] # "freed"
  BY <1>10, ResumeNextFacts
<1>11. ASSUME NEW n \in Combs(tree), NEW i \in DOMAIN tree.subs[n], StartHelper(n, i)
       PROVE  state'[Frame(m)] # "freed"
  BY <1>11, StartHelperFacts
<1> QED
  BY <1>2, <1>3, <1>4, <1>5, <1>6, <1>7, <1>8, <1>9, <1>10, <1>11 DEF Step

LEMMA EventStarted ==
  ASSUME Inv, AllReturn(tree, state, prev), Over \/ (Main /\ Ahead), [Next]_vars
  PROVE  \A f \in Frames :
           state[f] = "fresh" /\ Kind(f[1]) = "event" => state'[f] # "freed"
<1>1. SUFFICES ASSUME NEW f \in Frames, state[f] = "fresh", Kind(f[1]) = "event"
               PROVE  state'[f] # "freed"
  OBVIOUS
<1>2. CASE Over
  BY <1>1, <1>2, OverEnds DEF vars
<1>3. CASE Main /\ Ahead
  <2>1. Step
    BY <1>3, StepIs
  <2>2. tree \in Trees /\ f \in FramesOfTree(tree) /\ tree.kind[f[1]] = "event"
    BY <1>1, InvFacts DEF Frames, Kind
  <2>3. \A q \in Combs(tree) : tree.kind[q] # "event"
    BY <2>2, KindsApart
  <2>4. PICK m \in NodesOf(tree) : f = Frame(m)
    BY <2>2, <2>3, FrameKinds
  <2>5. tree.kind[m] = "event"
    BY <2>2, <2>4 DEF Frame
  <2> QED
    BY <1>1, <1>3, <2>1, <2>4, <2>5, StepStarted
<1> QED
  BY <1>2, <1>3

LEMMA AheadStays ==
  ASSUME Inv, AllReturn(tree, state, prev), Over \/ (Main /\ Ahead), [Next]_vars
  PROVE  Over' \/ (Main' /\ Ahead')
<1>1. CASE Over
  BY <1>1, OverEnds DEF vars, Over
<1>2. CASE Main /\ Ahead
  BY <1>2, StepIs, MainNext, AheadNext, RunEnds
<1> QED
  BY <1>1, <1>2

(* A wait for the poller that has been made but never ran is not destroyed *)
(* with its task, its combinator or run_task(): ~PollerPromise would read  *)
(* the fields that only await_suspend() sets.                              *)
THEOREM WaitsStart == Spec /\ SafeTree(tree) => StartedBeforeDestroyed
<1>1. Init /\ SafeTree(tree) => Inv /\ AllReturn(tree, state, prev) /\ (Over \/ (Main /\ Ahead))
  BY InitInv, InitReturns, InitMain, InitAhead
<1>2. Inv /\ AllReturn(tree, state, prev) /\ [Next]_vars => Inv' /\ AllReturn(tree, state, prev)'
  BY NextInv, ReturnsNext
<1>3. Inv /\ AllReturn(tree, state, prev) /\ (Over \/ (Main /\ Ahead)) /\ [Next]_vars
        => (Over \/ (Main /\ Ahead))'
  BY AheadStays
<1>4. Inv /\ AllReturn(tree, state, prev) /\ (Over \/ (Main /\ Ahead)) /\ [Next]_vars
        => [\A f \in Frames : state[f] = "fresh" /\ Kind(f[1]) = "event" => state'[f] # "freed"]_vars
  BY EventStarted
<1> QED
  BY <1>1, <1>2, <1>3, <1>4, PTL DEF Spec, StartedBeforeDestroyed

-----------------------------------------------------------------------------
(* What waits. A leaf that waits can be called.                            *)
LeavesArmed(t, st, arm, run) ==
  \A m \in NodesOf(t) :
    t.kind[m] \in Leaves /\ st[Frame(m)] = "suspended" => Frame(m) \in arm \/ run = Frame(m)

(* What a coroutine waits for waits as well, or has control, or has just   *)
(* given control back.                                                     *)
AwaitsOn(t, st, a, run) ==
  \A q \in NodesOf(t) : \A i \in DOMAIN t.subs[q] :
    st[ParentOf(t, q, i)] = "suspended" /\ (q \in Combs(t) \/ i = Current(t, a, q)) =>
      \/ st[Frame(t.subs[q][i])] = "suspended"
      \/ run = Frame(t.subs[q][i]) \/ run = ParentOf(t, q, i)

CombinatorsWait(t, st, a, run, lp) ==
  \A q \in Combs(t) :
    st[Frame(q)] = "suspended" =>
      \/ run = Frame(q)
      \/ \E i \in DOMAIN t.subs[q] :
           st[<<q, i>>] = "suspended" \/ run = <<q, i>> \/ Resuming(a, lp, q, i)

(* complete_count misses no helper that has ended, for none has thrown.    *)
CountsAll(t, st, c) ==
  \A q \in Combs(t) :
    t.kind[q] = "all" /\ st[Frame(q)] = "suspended" => Cardinality(Ended(t, st, q)) <= c[q]

ThrowsOnly(t, o) == \A m \in NodesOf(t) : o[Frame(m)] = "thrown" => m \in MayThrow(t)

Waiting ==
  /\ AllSucceed(tree)
  /\ LeavesArmed(tree, state, armed, running)
  /\ AwaitsOn(tree, state, at, running)
  /\ CombinatorsWait(tree, state, at, running, loops)
  /\ CountsAll(tree, state, count)
  /\ ThrowsOnly(tree, outcome)
  /\ state[Frame(Root)] \in Alive

LEMMA ThrowsClosed ==
  ASSUME NEW t, NEW n \in NodesOf(t), n \in Throws(t, MayThrow(t))
  PROVE  n \in MayThrow(t)
<1> SUFFICES ASSUME NEW S \in SUBSET NodesOf(t), Throws(t, S) \subseteq S PROVE n \in S
  BY DEF MayThrow, NodesOf
<1>1. MayThrow(t) \subseteq S
  BY DEF MayThrow, NodesOf
<1>2. n \in Throws(t, S)
  BY <1>1 DEF Throws
<1> QED
  BY <1>2

LEMMA AwaitWaits ==
  ASSUME Inv, Main, Waiting, NEW n, NEW i, NEW k, NEW freed, AwaitIs(n, i, k, freed), count' = count
  PROVE  Waiting'
<1> DEFINE e == tree.subs[n][i]
           M == Made(n, i)
<1>1. /\ tree \in Trees /\ n \in BodiesOf(tree) /\ n \in NodesOf(tree) /\ n \notin Combs(tree)
      /\ tree.kind[n] \notin Leaves
      /\ i \in DOMAIN tree.subs[n] /\ i = (IF tree.kind[n] = "io" THEN 1 ELSE k)
      /\ running = Frame(n) /\ Nobody \notin FramesOfTree(tree) /\ Root \in NodesOf(tree)
  BY InvFacts, KindsApart DEF AwaitIs
<1>2. /\ tree' = tree /\ running' = Frame(e) /\ loops' = loops /\ armed' = armed \ freed
      /\ \A m \in NodesOf(tree) : at'[m] = IF m = n THEN k ELSE at[m]
      /\ \A m \in M : m \in NodesOf(tree) \ {Root} /\ n \in tree.above[m]
      /\ \A m \in M : state[Frame(m)] \in Unborn \/ (Frame(m) \in freed /\ m \notin BodiesOf(tree))
  BY DEF AwaitIs
<1>3. \A m \in NodesOf(tree) :
       state'[Frame(m)] = IF m = n THEN "suspended"
                          ELSE IF m \in M THEN "fresh"
                          ELSE IF Frame(m) \in freed /\ state[Frame(m)] # "none" THEN "freed"
                          ELSE state[Frame(m)]
  BY DEF AwaitIs
<1>4. \A m \in NodesOf(tree) : Frame(m) \in freed => n \in tree.above[m]
  BY DEF AwaitIs, Swept, Frame
<1> HIDE DEF M
<1>5. \A q \in Combs(tree) : q \in NodesOf(tree) /\ q # n /\ at'[q] = at[q]
  BY <1>1, <1>2, KindsApart
<1>6. ASSUME NEW m \in NodesOf(tree), m # n, state'[Frame(m)] = "suspended"
      PROVE  state[Frame(m)] = "suspended" /\ Frame(m) \notin freed /\ m \notin M
  BY <1>3, <1>6
<1>7. ASSUME NEW q \in Combs(tree), state'[Frame(q)] = "suspended"
      PROVE  /\ state[Frame(q)] = "suspended"
             /\ \A j \in DOMAIN tree.subs[q] : state'[<<q, j>>] = state[<<q, j>>]
  <2>1. state[Frame(q)] = "suspended" /\ Frame(q) \notin freed
    BY <1>5, <1>6, <1>7
  <2> QED
    BY <2>1 DEF AwaitIs
<1>8. LeavesArmed(tree, state', armed', running')
  <2>1. SUFFICES ASSUME NEW m \in NodesOf(tree), tree.kind[m] \in Leaves, state'[Frame(m)] = "suspended"
                 PROVE  Frame(m) \in armed'
    BY DEF LeavesArmed
  <2>2. m # n /\ state[Frame(m)] = "suspended" /\ Frame(m) \notin freed
    BY <1>1, <1>6, <2>1
  <2>3. running # Frame(m)
    BY <1>1, <2>2 DEF Frame
  <2> QED
    BY <1>2, <2>1, <2>2, <2>3 DEF Waiting, LeavesArmed
<1>9. AwaitsOn(tree, state', at', running')
  <2>1. SUFFICES ASSUME NEW q \in NodesOf(tree), NEW j \in DOMAIN tree.subs[q],
                        state'[ParentOf(tree, q, j)] = "suspended",
                        q \in Combs(tree) \/ j = Current(tree, at', q),
                        running' # Frame(tree.subs[q][j])
                 PROVE  state'[Frame(tree.subs[q][j])] = "suspended"
    BY DEF AwaitsOn
  <2> DEFINE x == tree.subs[q][j]
             p == ParentOf(tree, q, j)
  <2>2. /\ x \in NodesOf(tree)
        /\ q \in Combs(tree) => p = <<q, j>> /\ \A y : <<q, j>> # Frame(y)
        /\ q \notin Combs(tree) => p = Frame(q) /\ q \in BodiesOf(tree)
    BY <1>1, EdgeIs
  <2>3. q # n
    <3>1. q = n => j = i
      BY <1>1, <1>2, <2>1 DEF Current
    <3> QED
      BY <1>2, <2>1, <3>1
  <2>4. /\ state[p] = "suspended" /\ p # Frame(n)
        /\ q \in Combs(tree) => Frame(q) \notin freed
        /\ q \notin Combs(tree) => Frame(q) \notin freed
    <3>1. CASE q \in Combs(tree)
      <4>1. state[<<q, j>>] = "suspended" /\ Frame(q) \notin freed
        BY <2>1, <2>2, <3>1, AwaitKeeps
      <4> QED
        BY <2>2, <3>1, <4>1
    <3>2. CASE q \notin Combs(tree)
      <4>1. p = Frame(q) /\ state'[Frame(q)] = "suspended"
        BY <2>1, <2>2, <3>2
      <4> QED
        BY <1>6, <2>3, <3>2, <4>1 DEF Frame
    <3> QED
      BY <3>1, <3>2
  <2>5. Frame(x) \notin freed
    <3>1. Swept(Frame(n), freed) /\ Frame(n)[1] = n
      BY DEF AwaitIs, Frame
    <3>2. CASE q \in Combs(tree)
      BY <2>4, <3>1, <3>2 DEF Swept
    <3>3. CASE q \notin Combs(tree)
      BY <2>2, <2>3, <2>4, <3>1, <3>3 DEF Swept
    <3> QED
      BY <3>2, <3>3
  <2>6. q \in Combs(tree) \/ j = Current(tree, at, q)
    BY <1>2, <2>1, <2>3 DEF Current
  <2>7. state[Frame(x)] = "suspended" \/ x = n
    <3>1. state[Frame(x)] = "suspended" \/ running = Frame(x) \/ running = p
      BY <2>4, <2>6 DEF Waiting, AwaitsOn
    <3> QED
      BY <1>1, <2>4, <3>1 DEF Frame
  <2> HIDE DEF x
  <2>8. state'[Frame(x)] = "suspended"
    <3>1. x \in M => state[Frame(x)] \in Unborn
      BY <1>2, <2>5
    <3> QED
      BY <1>3, <2>2, <2>5, <2>7, <3>1 DEF Unborn
  <2> QED
    BY <2>8 DEF x
<1>10. CombinatorsWait(tree, state', at', running', loops')
  <2>1. SUFFICES ASSUME NEW q \in Combs(tree), state'[Frame(q)] = "suspended"
                 PROVE  \E j \in DOMAIN tree.subs[q] :
                          state'[<<q, j>>] = "suspended" \/ Resuming(at', loops', q, j)
    BY DEF CombinatorsWait
  <2>2. /\ state[Frame(q)] = "suspended" /\ running # Frame(q)
        /\ \A j \in DOMAIN tree.subs[q] : running # <<q, j>> /\ state'[<<q, j>>] = state[<<q, j>>]
    BY <1>1, <1>5, <1>7, <2>1, NotAFrame DEF Frame
  <2>3. PICK j \in DOMAIN tree.subs[q] : state[<<q, j>>] = "suspended" \/ Resuming(at, loops, q, j)
    BY <2>2 DEF Waiting, CombinatorsWait
  <2> QED
    BY <1>2, <1>5, <2>2, <2>3 DEF Resuming
<1>11. CountsAll(tree, state', count')
  <2>1. SUFFICES ASSUME NEW q \in Combs(tree), tree.kind[q] = "all", state'[Frame(q)] = "suspended"
                 PROVE  Cardinality(Ended(tree, state', q)) <= count[q]
    BY DEF CountsAll
  <2>2. Ended(tree, state', q) = Ended(tree, state, q)
    BY <1>7, <2>1 DEF Ended
  <2> QED
    BY <1>7, <2>1, <2>2 DEF Waiting, CountsAll
<1>12. ThrowsOnly(tree, outcome')
  <2>1. \A m \in NodesOf(tree) : outcome'[Frame(m)] = IF m \in M THEN "none" ELSE outcome[Frame(m)]
    BY AwaitKeeps DEF M
  <2> QED
    BY <2>1 DEF Waiting, ThrowsOnly
<1>13. state'[Frame(Root)] \in Alive
  <2>1. tree.above[Root] = {}
    BY <1>1, TreeAbove
  <2>2. Root \notin M /\ Frame(Root) \notin freed
    BY <1>1, <1>2, <1>4, <2>1
  <2> QED
    BY <1>1, <1>3, <2>2 DEF Waiting, Alive
<1>14. AllSucceed(tree')
  BY <1>2 DEF Waiting
<1> QED
  BY <1>2, <1>8, <1>9, <1>10, <1>11, <1>12, <1>13, <1>14 DEF Waiting

(* The helpers of a when_all end with their arguments, which do not throw. *)
LEMMA HelperCounts ==
  ASSUME Inv, Waiting, NEW q \in Combs(tree), tree.kind[q] = "all", NEW i \in DOMAIN tree.subs[q],
         NEW r, Ends(<<q, i>>, r)
  PROVE  /\ count'[q] = count[q] + 1
         /\ count[q] + 1 = Len(tree.subs[q]) => running' = Frame(q)
<1>1. outcome[Frame(tree.subs[q][i])] # "thrown"
  <2>1. q \in NodesOf(tree) /\ tree.subs[q][i] \in NodesOf(tree)
    BY InvFacts, NotAFrame, EdgeIs
  <2>2. tree.subs[q][i] \notin MayThrow(tree)
    BY <2>1 DEF Waiting, AllSucceed, NodesOf
  <2> QED
    BY <2>1, <2>2 DEF Waiting, ThrowsOnly
<1>2. /\ r = "thrown" => outcome[Frame(tree.subs[q][i])] = "thrown"
      /\ tree.kind[q] = "all" /\ r # "thrown" =>
            /\ count'[q] = count[q] + 1
            /\ count[q] + 1 = Len(tree.subs[q]) => running' = Frame(q)
  BY DEF Ends
<1> QED
  BY <1>1, <1>2

(* A helper that leaves its when_all incomplete leaves another that has    *)
(* not ended.                                                              *)
LEMMA AnotherHelper ==
  ASSUME Inv, Main, Waiting, NEW q \in Combs(tree), tree.kind[q] = "all", NEW i \in DOMAIN tree.subs[q],
         state[Frame(q)] = "suspended", count[q] + 1 # Len(tree.subs[q]),
         state[<<q, i>>] \in Alive
  PROVE  \E j \in DOMAIN tree.subs[q] : j # i /\ state[<<q, j>>] \in Alive
<1> DEFINE L == Len(tree.subs[q])
           E == Ended(tree, state, q)
<1>1. tree \in Trees /\ count[q] \in Nat /\ q \in NodesOf(tree)
  BY InvFacts DEF Combs
<1>2. L \in Nat /\ DOMAIN tree.subs[q] = 1 .. L
  BY <1>1, TreeNodes
<1>3. E \subseteq 1 .. L /\ IsFiniteSet(E) /\ Cardinality(E) \in Nat
  BY <1>1, EndedFinite
<1>4. count[q] = Cardinality(E)
  <2>1. count[q] <= Cardinality(E)
    BY DEF Inv, CombinatorInv, CountsEnded
  <2>2. Cardinality(E) <= count[q]
    BY DEF Waiting, CountsAll
  <2> QED
    BY <1>1, <1>3, <2>1, <2>2
<1>5. i \notin E
  BY DEF Ended, Alive
<1>6. IsFiniteSet(1 .. L) /\ Cardinality(1 .. L) = L
  <2> HIDE DEF L
  <2>1. Cardinality(1 .. L) = IF 1 > L THEN 0 ELSE L - 1 + 1
    BY <1>2, FS_Interval
  <2>2. IsFiniteSet(1 .. L)
    BY <1>2, FS_Interval
  <2> QED
    BY <1>2, <2>1, <2>2
<1>7. \A j \in 1 .. L : j \notin E => state[<<q, j>>] \in Alive
  <2>1. \A j \in DOMAIN tree.subs[q] : state[<<q, j>>] \in {"fresh", "suspended", "done"}
    BY DEF Main, FramesWait, HelpersBelong
  <2> QED
    BY <1>2, <2>1 DEF Ended, Alive
<1>8. Cardinality(E \cup {i}) = Cardinality(E) + 1
  BY <1>3, <1>5, FS_AddElement
<1> HIDE DEF E, L
<1>9. E \cup {i} # 1 .. L
  BY <1>4, <1>6, <1>8 DEF L
<1>10. PICK j \in 1 .. L : j \notin E \cup {i}
  BY <1>2, <1>3, <1>9
<1> QED
  BY <1>2, <1>7, <1>10

LEMMA FinishWaits ==
  ASSUME Inv, Main, Ahead, Waiting, NEW f, NEW r, NEW freed, FinishIs(f, r, freed), Ends(f, r)
  PROVE  Waiting'
<1>1. /\ tree \in Trees /\ f \in FramesOfTree(tree) \ {Frame(Root)} /\ running = f /\ running # Nobody
      /\ tree' = tree /\ at' = at /\ loops' = loops /\ armed' = armed \ freed
      /\ Root \in NodesOf(tree)
  BY InvFacts DEF FinishIs
<1>2. Swept(f, freed)
  BY DEF FinishIs
<1>3. /\ \A g \in FramesOfTree(tree) :
           /\ state'[g] \in {"fresh", "suspended"} => g # f /\ state[g] = state'[g] /\ g \notin freed
           /\ g # f /\ g \notin freed => state'[g] = state[g]
           /\ outcome'[g] = IF g = f THEN r ELSE outcome[g]
      /\ \A m \in NodesOf(tree) : Frame(m) \in FramesOfTree(tree)
      /\ \A q \in Combs(tree) : \A i \in DOMAIN tree.subs[q] :
           /\ q \in NodesOf(tree) /\ <<q, i>> \in FramesOfTree(tree) /\ \A m : <<q, i>> # Frame(m)
           /\ <<q, i>> \in freed <=> Frame(q) \in freed \/ f = Frame(q)
  <2>1. \A g \in FramesOfTree(tree) : outcome'[g] = IF g = f THEN r ELSE outcome[g]
    BY DEF FinishIs
  <2>2. \A q \in Combs(tree) : \A i \in DOMAIN tree.subs[q] :
           <<q, i>> \in freed <=> Frame(q) \in freed \/ f = Frame(q)
    BY <1>2 DEF Swept
  <2>3. \A g \in FramesOfTree(tree) :
           /\ state'[g] \in {"fresh", "suspended"} => g # f /\ state[g] = state'[g] /\ g \notin freed
           /\ g # f /\ g \notin freed => state'[g] = state[g]
    BY FinishKeeps
  <2>4. \A m \in NodesOf(tree) : Frame(m) \in FramesOfTree(tree)
    BY <1>1, FrameKinds
  <2>5. \A q \in Combs(tree) : \A i \in DOMAIN tree.subs[q] :
          q \in NodesOf(tree) /\ <<q, i>> \in FramesOfTree(tree) /\ \A m : <<q, i>> # Frame(m)
    BY <1>1, NotAFrame
  <2> QED
    BY <2>1, <2>2, <2>3, <2>4, <2>5
<1>4. LeavesArmed(tree, state', armed', running')
  <2>1. SUFFICES ASSUME NEW m \in NodesOf(tree), tree.kind[m] \in Leaves, state'[Frame(m)] = "suspended"
                 PROVE  Frame(m) \in armed'
    BY DEF LeavesArmed
  <2>2. Frame(m) # f /\ state[Frame(m)] = "suspended" /\ Frame(m) \notin freed
    BY <1>3, <2>1
  <2> QED
    BY <1>1, <2>1, <2>2 DEF Waiting, LeavesArmed
<1>5. AwaitsOn(tree, state', at', running')
  <2>1. SUFFICES ASSUME NEW q \in NodesOf(tree), NEW j \in DOMAIN tree.subs[q],
                        state'[ParentOf(tree, q, j)] = "suspended",
                        q \in Combs(tree) \/ j = Current(tree, at, q)
                 PROVE  \/ state'[Frame(tree.subs[q][j])] = "suspended"
                        \/ running' = ParentOf(tree, q, j)
    BY <1>1 DEF AwaitsOn
  <2> DEFINE x == tree.subs[q][j]
             p == ParentOf(tree, q, j)
  <2>2. /\ x \in NodesOf(tree) /\ p \in FramesOfTree(tree)
        /\ q \in Combs(tree) => p = <<q, j>>
        /\ q \notin Combs(tree) => p = Frame(q) /\ q \in BodiesOf(tree)
    BY <1>1, EdgeIs
  <2>3. state[p] = "suspended" /\ p # f /\ p \notin freed
    BY <1>3, <2>1, <2>2
  <2>4. Frame(x) \notin freed
    <3>1. CASE q \in Combs(tree)
      <4>1. Frame(q) \notin freed
        BY <1>3, <2>2, <2>3, <3>1
      <4>2. Frame(x) \in freed => Frame(q) \in freed
        BY <1>2, <3>1 DEF Swept
      <4> QED
        BY <4>1, <4>2
    <3>2. CASE q \notin Combs(tree)
      <4>1. q # f[1]
        <5>1. \A y \in NodesOf(tree) : f = Frame(y) => f[1] = y
          BY DEF Frame
        <5>2. \A y \in Combs(tree) : \A l \in DOMAIN tree.subs[y] : f = <<y, l>> => f[1] = y
          OBVIOUS
        <5>3. \/ \E y \in NodesOf(tree) : f = Frame(y)
              \/ \E y \in Combs(tree) : \E l \in DOMAIN tree.subs[y] : f = <<y, l>>
          BY <1>1, FrameKinds
        <5> QED
          BY <2>2, <2>3, <3>2, <5>1, <5>2, <5>3
      <4>2. Frame(x) \in freed => Frame(q) \in freed
        BY <1>2, <2>2, <3>2, <4>1 DEF Swept
      <4> QED
        BY <2>2, <2>3, <3>2, <4>2
    <3> QED
      BY <3>1, <3>2
  <2>5. state[Frame(x)] = "suspended" \/ f = Frame(x)
    BY <1>1, <2>1, <2>3 DEF Waiting, AwaitsOn
  <2>6. CASE f = Frame(x)
    <3>1. running' = prev[f]
      BY <2>2, <2>6 DEF FinishIs
    <3>2. prev[f] = p
      BY <1>1, <2>6 DEF Main, ControlGoes, ControlComes
    <3> QED
      BY <3>1, <3>2
  <2>7. CASE f # Frame(x)
    <3>1. state'[Frame(x)] = state[Frame(x)]
      BY <1>3, <2>2, <2>4, <2>7
    <3> QED
      BY <2>5, <2>7, <3>1
  <2> QED
    BY <2>6, <2>7
<1>6. ASSUME NEW q \in Combs(tree), state'[Frame(q)] = "suspended"
      PROVE  /\ state[Frame(q)] = "suspended" /\ Frame(q) # f
             /\ \A j \in DOMAIN tree.subs[q] : <<q, j>> # f => state'[<<q, j>>] = state[<<q, j>>]
  <2>1. q \in NodesOf(tree)
    BY DEF Combs
  <2>2. state[Frame(q)] = "suspended" /\ Frame(q) # f /\ Frame(q) \notin freed
    BY <1>3, <1>6, <2>1
  <2>3. \A j \in DOMAIN tree.subs[q] : <<q, j>> \notin freed
    BY <1>3, <2>2
  <2> QED
    BY <1>3, <2>2, <2>3
<1>7. CombinatorsWait(tree, state', at', running', loops')
  <2>1. SUFFICES ASSUME NEW q \in Combs(tree), state'[Frame(q)] = "suspended", running' # Frame(q)
                 PROVE  \E j \in DOMAIN tree.subs[q] :
                          state'[<<q, j>>] = "suspended" \/ Resuming(at, loops, q, j)
    BY <1>1 DEF CombinatorsWait
  <2>2. /\ state[Frame(q)] = "suspended" /\ running # Frame(q)
        /\ \A j \in DOMAIN tree.subs[q] : <<q, j>> # f => state'[<<q, j>>] = state[<<q, j>>]
    BY <1>1, <1>6, <2>1
  <2>3. PICK j \in DOMAIN tree.subs[q] :
          state[<<q, j>>] = "suspended" \/ running = <<q, j>> \/ Resuming(at, loops, q, j)
    BY <2>2 DEF Waiting, CombinatorsWait
  <2>4. CASE f # <<q, j>>
    BY <1>1, <2>2, <2>3, <2>4
  <2>5. CASE f = <<q, j>>
    <3>1. tree.kind[q] = "all"
      <4>1. tree.kind[q] = "any" => running' = Frame(q)
        BY <2>5 DEF FinishIs
      <4> QED
        BY <1>1, <2>1, <4>1, KindsApart
    <3>2. count[q] + 1 # Len(tree.subs[q])
      BY <2>1, <2>5, <3>1, HelperCounts
    <3>3. state[<<q, j>>] \in Alive
      BY <2>5, FinishKeeps
    <3>4. PICK l \in DOMAIN tree.subs[q] : l # j /\ state[<<q, l>>] \in Alive
      BY <2>2, <3>1, <3>2, <3>3, AnotherHelper
    <3>5. f # <<q, l>>
      BY <2>5, <3>4
    <3>6. CASE state[<<q, l>>] = "suspended"
      BY <2>2, <3>5, <3>6
    <3>7. CASE state[<<q, l>>] = "fresh"
      BY <1>1, <3>5, <3>7 DEF Ahead, HelpersAhead
    <3> QED
      BY <3>4, <3>6, <3>7 DEF Alive
  <2> QED
    BY <2>4, <2>5
<1>8. CountsAll(tree, state', count')
  <2>1. SUFFICES ASSUME NEW q \in Combs(tree), tree.kind[q] = "all", state'[Frame(q)] = "suspended"
                 PROVE  Cardinality(Ended(tree, state', q)) <= count'[q]
    BY DEF CountsAll
  <2> DEFINE E == Ended(tree, state, q)
  <2>2. /\ state[Frame(q)] = "suspended" /\ Frame(q) # f
        /\ \A j \in DOMAIN tree.subs[q] : <<q, j>> # f => state'[<<q, j>>] = state[<<q, j>>]
    BY <1>6, <2>1
  <2>3. Cardinality(E) <= count[q] /\ count[q] \in Nat /\ Cardinality(E) \in Nat /\ IsFiniteSet(E)
    <3>1. Cardinality(E) <= count[q]
      BY <2>1, <2>2 DEF Waiting, CountsAll
    <3>2. count[q] \in Nat
      BY InvFacts DEF Combs
    <3> QED
      BY <1>1, <3>1, <3>2, EndedFinite
  <2>4. CASE \E i \in DOMAIN tree.subs[q] : f = <<q, i>>
    <3>1. PICK i \in DOMAIN tree.subs[q] : f = <<q, i>>
      BY <2>4
    <3>2. count'[q] = count[q] + 1
      BY <2>1, <3>1, HelperCounts
    <3>3. i \notin E
      <4>1. state[<<q, i>>] \in Alive
        BY <3>1, FinishKeeps
      <4> QED
        BY <4>1 DEF Ended, Alive
    <3>4. Cardinality(E \cup {i}) = Cardinality(E) + 1
      BY <2>3, <3>3, FS_AddElement
    <3>5. Ended(tree, state', q) = E \cup {i}
      <4>1. \A j \in DOMAIN tree.subs[q] : j # i => state'[<<q, j>>] = state[<<q, j>>]
        BY <2>2, <3>1
      <4>2. state'[<<q, i>>] = "done"
        BY <1>1, <3>1 DEF FinishIs
      <4> QED
        BY <4>1, <4>2 DEF Ended
    <3> HIDE DEF E
    <3> QED
      BY <2>3, <3>2, <3>4, <3>5
  <2>5. CASE \A i \in DOMAIN tree.subs[q] : f # <<q, i>>
    <3>1. Ended(tree, state', q) = E
      BY <2>2, <2>5 DEF Ended
    <3>2. count'[q] = count[q]
      <4>1. CASE \E x \in NodesOf(tree) : f = Frame(x)
        <5>1. count' = count
          BY <4>1 DEF Ends
        <5> QED
          BY <5>1
      <4>2. CASE \E x \in Combs(tree) : \E i \in DOMAIN tree.subs[x] : f = <<x, i>>
        <5>1. PICK x \in Combs(tree) : \E i \in DOMAIN tree.subs[x] : f = <<x, i>>
          BY <4>2
        <5>2. \A y \in Combs(tree) \ {x} : count'[y] = count[y]
          BY <5>1 DEF Ends
        <5>3. x # q
          BY <2>5, <5>1
        <5> QED
          BY <5>2, <5>3
      <4> QED
        BY <1>1, <4>1, <4>2, FrameKinds
    <3> QED
      BY <2>3, <3>1, <3>2
  <2> QED
    BY <2>4, <2>5
<1>9. ThrowsOnly(tree, outcome')
  <2>1. SUFFICES ASSUME NEW m \in NodesOf(tree), outcome'[Frame(m)] = "thrown"
                 PROVE  m \in MayThrow(tree)
    BY DEF ThrowsOnly
  <2>2. CASE Frame(m) # f
    BY <1>3, <2>1, <2>2 DEF Waiting, ThrowsOnly
  <2>3. CASE Frame(m) = f
    <3>1. r = "thrown"
      BY <1>1, <1>3, <2>1, <2>3
    <3>2. \/ tree.kind[m] = "fail"
          \/ /\ m \in BodiesOf(tree)
             /\ \E i \in DOMAIN tree.subs[m] : outcome[Frame(tree.subs[m][i])] = "thrown"
      BY <2>3, <3>1 DEF Ends
    <3>3. m \in Throws(tree, MayThrow(tree))
      <4>1. CASE tree.kind[m] = "fail"
        BY <4>1 DEF Throws, NodesOf
      <4>2. CASE m \in BodiesOf(tree) /\ \E i \in DOMAIN tree.subs[m] : outcome[Frame(tree.subs[m][i])] = "thrown"
        <5>1. PICK i \in DOMAIN tree.subs[m] : outcome[Frame(tree.subs[m][i])] = "thrown"
          BY <4>2
        <5>2. tree.subs[m][i] \in MayThrow(tree)
          BY <1>1, <5>1, EdgeIs DEF Waiting, ThrowsOnly
        <5> QED
          BY <4>2, <5>2 DEF Throws, BodiesOf, NodesOf
      <4> QED
        BY <3>2, <4>1, <4>2
    <3> QED
      BY <3>3, ThrowsClosed
  <2> QED
    BY <2>2, <2>3
<1>10. state'[Frame(Root)] \in Alive
  <2>1. tree.above[Root] = {}
    BY <1>1, TreeAbove
  <2>2. Frame(Root) \notin freed
    BY <1>1, <1>2, <2>1 DEF Swept
  <2> QED
    BY <1>1, <1>3, <2>2 DEF Waiting
<1> QED
  BY <1>1, <1>4, <1>5, <1>7, <1>8, <1>9, <1>10 DEF Waiting

LEMMA SuspendLeafWaits ==
  ASSUME Inv, Main, Waiting, NEW n \in NodesOf(tree), SuspendLeaf(n)
  PROVE  Waiting'
<1>1. /\ tree \in Trees /\ tree.kind[n] \in Leaves /\ DOMAIN tree.subs[n] = {}
      /\ n \notin Combs(tree) /\ running = Frame(n) /\ state[Frame(n)] = "fresh"
      /\ armed' = armed \cup {Frame(n)} /\ running' = Nobody
      /\ tree' = tree /\ outcome' = outcome /\ at' = at /\ count' = count /\ loops' = loops
  BY SuspendLeafFacts
<1>2. /\ \A m \in NodesOf(tree) : state'[Frame(m)] = IF m = n THEN "suspended" ELSE state[Frame(m)]
      /\ \A q \in Combs(tree) : \A i \in DOMAIN tree.subs[q] :
           <<q, i>> # Frame(n) /\ state'[<<q, i>>] = state[<<q, i>>]
  BY SuspendLeafFacts
<1>3. /\ \A m \in NodesOf(tree) : Frame(m) = Frame(n) <=> m = n
      /\ \A q \in Combs(tree) : q \in NodesOf(tree) /\ q # n
      /\ Root \in NodesOf(tree)
  BY <1>1, InvFacts DEF Frame, Combs
<1>4. LeavesArmed(tree, state', armed', running')
  BY <1>1, <1>2, <1>3 DEF Waiting, LeavesArmed
<1>5. AwaitsOn(tree, state', at', running')
  <2>1. SUFFICES ASSUME NEW q \in NodesOf(tree), NEW j \in DOMAIN tree.subs[q],
                        state'[ParentOf(tree, q, j)] = "suspended",
                        q \in Combs(tree) \/ j = Current(tree, at, q)
                 PROVE  state'[Frame(tree.subs[q][j])] = "suspended"
    BY <1>1 DEF AwaitsOn
  <2> DEFINE x == tree.subs[q][j]
             p == ParentOf(tree, q, j)
  <2>2. /\ x \in NodesOf(tree) /\ q # n
        /\ q \in Combs(tree) => p = <<q, j>>
        /\ q \notin Combs(tree) => p = Frame(q)
    BY <1>1, EdgeIs
  <2>3. state[p] = "suspended" /\ p # Frame(n)
    BY <1>2, <1>3, <2>1, <2>2
  <2>4. state[Frame(x)] = "suspended" \/ running = Frame(x) \/ running = p
    BY <2>1, <2>3 DEF Waiting, AwaitsOn
  <2> QED
    BY <1>1, <1>2, <1>3, <2>2, <2>3, <2>4
<1>6. CombinatorsWait(tree, state', at', running', loops')
  BY <1>1, <1>2, <1>3 DEF Waiting, CombinatorsWait
<1>7. CountsAll(tree, state', count')
  <2>1. \A q \in Combs(tree) : Ended(tree, state', q) = Ended(tree, state, q)
    BY <1>2 DEF Ended
  <2> QED
    BY <1>1, <1>2, <1>3, <2>1 DEF Waiting, CountsAll
<1>8. state'[Frame(Root)] \in Alive
  BY <1>2, <1>3 DEF Waiting, Alive
<1> QED
  BY <1>1, <1>4, <1>5, <1>6, <1>7, <1>8 DEF Waiting

LEMMA EventWaits ==
  ASSUME Inv, Main, Waiting, NEW n \in NodesOf(tree), Event(n)
  PROVE  Waiting'
<1>1. /\ tree \in Trees /\ running = Nobody /\ loops = <<>>
      /\ armed \ {Frame(n)} \subseteq armed' /\ running' = Frame(n)
      /\ tree' = tree /\ state' = state /\ outcome' = outcome
      /\ at' = at /\ count' = count /\ loops' = loops
  BY EventFacts
<1>2. /\ \A m \in NodesOf(tree) : Frame(m) # Nobody
      /\ \A q \in Combs(tree) : \A i \in DOMAIN tree.subs[q] : q \in NodesOf(tree) /\ <<q, i>> # Nobody
  BY <1>1, FrameKinds DEF Combs
<1>3. LeavesArmed(tree, state', armed', running')
  BY <1>1, <1>2 DEF Waiting, LeavesArmed
<1>4. AwaitsOn(tree, state', at', running')
  <2>1. \A q \in NodesOf(tree) : \A i \in DOMAIN tree.subs[q] :
          Frame(tree.subs[q][i]) # Nobody /\ ParentOf(tree, q, i) # Nobody
    <3>1. SUFFICES ASSUME NEW q \in NodesOf(tree), NEW i \in DOMAIN tree.subs[q]
                   PROVE  Frame(tree.subs[q][i]) # Nobody /\ ParentOf(tree, q, i) # Nobody
      OBVIOUS
    <3>2. tree.subs[q][i] \in NodesOf(tree) /\ ParentOf(tree, q, i) # Nobody
      BY <1>1, EdgeIs
    <3> QED
      BY <1>2, <3>2
  <2> QED
    BY <1>1, <2>1 DEF Waiting, AwaitsOn
<1>5. CombinatorsWait(tree, state', at', running', loops')
  <2>1. SUFFICES ASSUME NEW q \in Combs(tree), state[Frame(q)] = "suspended"
                 PROVE  \E j \in DOMAIN tree.subs[q] :
                          state[<<q, j>>] = "suspended" \/ Resuming(at, loops, q, j)
    BY <1>1 DEF CombinatorsWait
  <2>2. q \in NodesOf(tree) /\ Frame(q) # Nobody /\ \A j \in DOMAIN tree.subs[q] : <<q, j>> # Nobody
    BY <1>2, <2>1 DEF Combs
  <2> QED
    BY <1>1, <2>1, <2>2 DEF Waiting, CombinatorsWait
<1> QED
  BY <1>1, <1>3, <1>4, <1>5 DEF Waiting

LEMMA ResumeNextWaits ==
  ASSUME Inv, Main, Waiting, NEW n \in NodesOf(tree), ResumeNext(n)
  PROVE  Waiting'
<1>1. /\ tree \in Trees /\ n \in Combs(tree) /\ running = Nobody
      /\ tree' = tree /\ state' = state /\ outcome' = outcome /\ armed' = armed /\ count' = count
  BY ResumeNextFacts
<1>2. PICK i \in DOMAIN tree.subs[n] :
        /\ running' = <<n, i>> /\ state[<<n, i>>] = "fresh"
        /\ \A q \in Combs(tree) : \A k \in DOMAIN tree.subs[q] :
             Resuming(at, loops, q, k) => <<q, k>> = <<n, i>> \/ Resuming(at', loops', q, k)
        /\ \A x \in NodesOf(tree) : x # n => at'[x] = at[x]
  BY ResumeNextFacts
<1>3. /\ \A m \in NodesOf(tree) : Frame(m) # Nobody
      /\ \A q \in Combs(tree) : \A j \in DOMAIN tree.subs[q] : q \in NodesOf(tree) /\ <<q, j>> # Nobody
  BY <1>1, FrameKinds DEF Combs
<1>4. LeavesArmed(tree, state', armed', running')
  BY <1>1, <1>3 DEF Waiting, LeavesArmed
<1>5. AwaitsOn(tree, state', at', running')
  <2>1. SUFFICES ASSUME NEW q \in NodesOf(tree), NEW j \in DOMAIN tree.subs[q],
                        state[ParentOf(tree, q, j)] = "suspended",
                        q \in Combs(tree) \/ j = Current(tree, at', q)
                 PROVE  state[Frame(tree.subs[q][j])] = "suspended"
    BY <1>1 DEF AwaitsOn
  <2>2. tree.subs[q][j] \in NodesOf(tree) /\ ParentOf(tree, q, j) # Nobody
    BY <1>1, EdgeIs
  <2>3. q \in Combs(tree) \/ j = Current(tree, at, q)
    BY <1>1, <1>2, <2>1 DEF Current
  <2> QED
    BY <1>1, <1>3, <2>1, <2>2, <2>3 DEF Waiting, AwaitsOn
<1>6. CombinatorsWait(tree, state', at', running', loops')
  <2>1. SUFFICES ASSUME NEW q \in Combs(tree), state[Frame(q)] = "suspended"
                 PROVE  \E j \in DOMAIN tree.subs[q] :
                          state[<<q, j>>] = "suspended" \/ running' = <<q, j>>
                            \/ Resuming(at', loops', q, j)
    BY <1>1 DEF CombinatorsWait
  <2>2. Frame(q) # Nobody /\ \A j \in DOMAIN tree.subs[q] : <<q, j>> # Nobody
    BY <1>3, <2>1 DEF Combs
  <2>3. PICK j \in DOMAIN tree.subs[q] : state[<<q, j>>] = "suspended" \/ Resuming(at, loops, q, j)
    BY <1>1, <2>1, <2>2 DEF Waiting, CombinatorsWait
  <2> QED
    BY <1>2, <2>3
<1> QED
  BY <1>1, <1>4, <1>5, <1>6 DEF Waiting

LEMMA StartHelperWaits ==
  ASSUME Inv, Main, Waiting, NEW n \in Combs(tree), NEW i \in DOMAIN tree.subs[n], StartHelper(n, i)
  PROVE  Waiting'
<1> DEFINE x == tree.subs[n][i]
<1>1. /\ tree \in Trees /\ running = <<n, i>> /\ state[<<n, i>>] = "fresh"
      /\ running' = Frame(x)
      /\ tree' = tree /\ outcome' = outcome /\ at' = at /\ armed' = armed /\ loops' = loops
      /\ count' = count
  BY StartHelperFacts
<1>2. /\ \A m \in NodesOf(tree) : state'[Frame(m)] = state[Frame(m)] /\ <<n, i>> # Frame(m)
      /\ state'[<<n, i>>] = "suspended"
  BY StartHelperFacts
<1>3. \A q \in Combs(tree) : \A j \in DOMAIN tree.subs[q] :
        <<q, j>> = <<n, i>> \/ state'[<<q, j>>] = state[<<q, j>>]
  BY StartHelperFacts
<1>4. /\ n \in NodesOf(tree) /\ Root \in NodesOf(tree)
      /\ \A q \in Combs(tree) : q \in NodesOf(tree)
  BY InvFacts DEF Combs
<1> HIDE DEF x
<1>5. LeavesArmed(tree, state', armed', running')
  BY <1>1, <1>2 DEF Waiting, LeavesArmed
<1>6. AwaitsOn(tree, state', at', running')
  <2>1. SUFFICES ASSUME NEW q \in NodesOf(tree), NEW j \in DOMAIN tree.subs[q],
                        state'[ParentOf(tree, q, j)] = "suspended",
                        q \in Combs(tree) \/ j = Current(tree, at, q)
                 PROVE  state'[Frame(tree.subs[q][j])] = "suspended" \/ running' = Frame(tree.subs[q][j])
    BY <1>1 DEF AwaitsOn
  <2> DEFINE y == tree.subs[q][j]
             p == ParentOf(tree, q, j)
  <2>2. /\ y \in NodesOf(tree)
        /\ q \in Combs(tree) => p = <<q, j>>
        /\ q \notin Combs(tree) => p = Frame(q)
    BY <1>1, EdgeIs
  <2>3. CASE p = <<n, i>>
    <3>1. q = n /\ j = i
      BY <1>2, <2>2, <2>3
    <3> QED
      BY <1>1, <3>1 DEF x
  <2>4. CASE p # <<n, i>>
    <3>1. state[p] = "suspended"
      BY <1>2, <1>3, <2>1, <2>2, <2>4
    <3>2. state[Frame(y)] = "suspended"
      BY <1>1, <1>2, <2>1, <2>2, <2>4, <3>1 DEF Waiting, AwaitsOn
    <3> QED
      BY <1>2, <2>2, <3>2
  <2> QED
    BY <2>3, <2>4
<1>7. CombinatorsWait(tree, state', at', running', loops')
  <2>1. SUFFICES ASSUME NEW q \in Combs(tree), state'[Frame(q)] = "suspended"
                 PROVE  \E j \in DOMAIN tree.subs[q] :
                          state'[<<q, j>>] = "suspended" \/ Resuming(at', loops', q, j)
    BY DEF CombinatorsWait
  <2>2. state[Frame(q)] = "suspended" /\ running # Frame(q)
    BY <1>1, <1>2, <1>4, <2>1
  <2>3. PICK j \in DOMAIN tree.subs[q] :
          state[<<q, j>>] = "suspended" \/ running = <<q, j>> \/ Resuming(at, loops, q, j)
    BY <2>2 DEF Waiting, CombinatorsWait
  <2> QED
    BY <1>1, <1>2, <1>3, <2>3
<1>8. CountsAll(tree, state', count')
  <2>1. \A q \in Combs(tree) : \A j \in DOMAIN tree.subs[q] :
          state'[<<q, j>>] \in {"done", "freed"} <=> state[<<q, j>>] \in {"done", "freed"}
    BY <1>1, <1>2, <1>3
  <2>2. ASSUME NEW q \in Combs(tree) PROVE Ended(tree, state', q) = Ended(tree, state, q)
    BY <2>1 DEF Ended
  <2> QED
    BY <1>1, <1>2, <1>4, <2>2 DEF Waiting, CountsAll
<1>9. state'[Frame(Root)] \in Alive
  BY <1>2, <1>4 DEF Waiting
<1> QED
  BY <1>1, <1>5, <1>6, <1>7, <1>8, <1>9 DEF Waiting

LEMMA StartCombinatorWaits ==
  ASSUME Inv, Main, Waiting, NEW n \in NodesOf(tree), StartCombinator(n)
  PROVE  Waiting'
<1>1. /\ tree \in Trees /\ n \in Combs(tree) /\ running = Frame(n)
      /\ state[Frame(n)] = "fresh" /\ running' = <<n, 1>> /\ 1 \in DOMAIN tree.subs[n]
      /\ tree' = tree /\ armed' = armed
  BY StartCombinatorFacts
<1>2. /\ \A m \in NodesOf(tree) : state'[Frame(m)] = IF m = n THEN "suspended" ELSE state[Frame(m)]
      /\ \A q \in Combs(tree) : \A j \in DOMAIN tree.subs[q] :
           /\ state'[<<q, j>>] = IF q = n THEN "fresh" ELSE state[<<q, j>>]
           /\ Resuming(at, loops, q, j) => Resuming(at', loops', q, j)
  BY StartCombinatorFacts
<1>3. /\ \A m \in NodesOf(tree) : outcome'[Frame(m)] = outcome[Frame(m)]
      /\ \A m \in NodesOf(tree) : m # n => at'[m] = at[m]
      /\ \A m \in NodesOf(tree) : count'[m] = IF m = n THEN 0 ELSE count[m]
  BY StartCombinatorFacts
<1>4. /\ Root \in NodesOf(tree)
      /\ \A q \in Combs(tree) : q \in NodesOf(tree)
      /\ \A m \in NodesOf(tree) : Frame(m) = Frame(n) <=> m = n
      /\ tree.kind[n] \notin Leaves
      /\ \A q \in Combs(tree) : \A j \in DOMAIN tree.subs[q] : \A m : <<q, j>> # Frame(m)
  BY <1>1, InvFacts, KindsApart, NotAFrame DEF Frame, Combs
<1>5. LeavesArmed(tree, state', armed', running')
  BY <1>1, <1>2, <1>4 DEF Waiting, LeavesArmed
<1>6. AwaitsOn(tree, state', at', running')
  <2>1. SUFFICES ASSUME NEW q \in NodesOf(tree), NEW j \in DOMAIN tree.subs[q],
                        state'[ParentOf(tree, q, j)] = "suspended",
                        q \in Combs(tree) \/ j = Current(tree, at', q)
                 PROVE  state'[Frame(tree.subs[q][j])] = "suspended"
    BY <1>1 DEF AwaitsOn
  <2> DEFINE y == tree.subs[q][j]
             p == ParentOf(tree, q, j)
  <2>2. /\ y \in NodesOf(tree)
        /\ q \in Combs(tree) => p = <<q, j>>
        /\ q \notin Combs(tree) => p = Frame(q)
    BY <1>1, EdgeIs
  <2>3. q # n /\ state[p] = "suspended" /\ p # Frame(n)
    BY <1>1, <1>2, <1>4, <2>1, <2>2
  <2>4. q \in Combs(tree) \/ j = Current(tree, at, q)
    BY <1>3, <2>1, <2>3 DEF Current
  <2>5. state[Frame(y)] = "suspended" \/ running = Frame(y) \/ running = p
    BY <2>3, <2>4 DEF Waiting, AwaitsOn
  <2> QED
    BY <1>1, <1>2, <1>4, <2>2, <2>3, <2>5
<1>7. CombinatorsWait(tree, state', at', running', loops')
  <2>1. SUFFICES ASSUME NEW q \in Combs(tree), state'[Frame(q)] = "suspended", q # n
                 PROVE  \E j \in DOMAIN tree.subs[q] :
                          state'[<<q, j>>] = "suspended" \/ Resuming(at', loops', q, j)
    BY <1>1 DEF CombinatorsWait
  <2>2. state[Frame(q)] = "suspended" /\ running # Frame(q)
    BY <1>1, <1>2, <1>4, <2>1
  <2>3. PICK j \in DOMAIN tree.subs[q] : state[<<q, j>>] = "suspended" \/ Resuming(at, loops, q, j)
    BY <1>1, <1>4, <2>2 DEF Waiting, CombinatorsWait
  <2> QED
    BY <1>2, <2>1, <2>3
<1>8. CountsAll(tree, state', count')
  <2>1. SUFFICES ASSUME NEW q \in Combs(tree), tree.kind[q] = "all", state'[Frame(q)] = "suspended"
                 PROVE  Cardinality(Ended(tree, state', q)) <= count'[q]
    BY DEF CountsAll
  <2>2. CASE q = n
    <3>1. Ended(tree, state', q) = {}
      BY <1>2, <2>2 DEF Ended
    <3>2. count'[q] = 0
      BY <1>3, <1>4, <2>2
    <3> QED
      BY <3>1, <3>2, FS_EmptySet
  <2>3. CASE q # n
    <3>1. Ended(tree, state', q) = Ended(tree, state, q)
      BY <1>2, <2>3 DEF Ended
    <3>2. count'[q] = count[q] /\ state[Frame(q)] = "suspended"
      BY <1>2, <1>3, <1>4, <2>1, <2>3
    <3> QED
      BY <2>1, <3>1, <3>2 DEF Waiting, CountsAll
  <2> QED
    BY <2>2, <2>3
<1>9. ThrowsOnly(tree, outcome')
  BY <1>3 DEF Waiting, ThrowsOnly
<1>10. state'[Frame(Root)] \in Alive
  BY <1>2, <1>4 DEF Waiting, Alive
<1>11. AllSucceed(tree')
  BY <1>1 DEF Waiting
<1> QED
  BY <1>1, <1>5, <1>6, <1>7, <1>8, <1>9, <1>10, <1>11 DEF Waiting

LEMMA WaitingNext ==
  ASSUME Inv, Main, Ahead, Waiting, Step
  PROVE  EndRun \/ Terminate \/ Waiting'
<1>1. CASE UNCHANGED vars
  BY <1>1 DEF vars, Waiting
<1>2. ASSUME NEW n \in NodesOf(tree), Awaiting(n) PROVE Waiting'
  BY <1>2, AwaitWaits DEF Awaiting
<1>3. ASSUME NEW f, Ending(f) PROVE Waiting'
  BY <1>3, FinishWaits DEF Ending
<1> QED
  BY <1>1, <1>2, <1>3, SuspendLeafWaits, EventWaits, StartCombinatorWaits, ResumeNextWaits,
     StartHelperWaits DEF Step

LEMMA InitWaiting ==
  ASSUME Init, AllSucceed(tree)
  PROVE  Waiting
<1>1. /\ tree \in Trees
      /\ state = [f \in FramesOfTree(tree) |->
                    IF f \in {Frame(n) : n \in {Root} \cup Made(Root, 1)} THEN "fresh" ELSE "none"]
      /\ \A f \in FramesOfTree(tree) : outcome[f] = "none"
  BY DEF Init
<1>2. Inv
  BY InitInv
<1>3. Root \in NodesOf(tree) /\ Frame(Root) \in FramesOfTree(tree)
  BY <1>2, InvFacts
<1>4. \A f \in FramesOfTree(tree) : state[f] # "suspended"
  BY <1>1
<1>5. \A m \in NodesOf(tree) : Frame(m) \in FramesOfTree(tree) /\ state[Frame(m)] # "suspended"
  BY <1>1, <1>4, FrameKinds
<1>6. AwaitsOn(tree, state, at, running)
  BY <1>1, <1>4, EdgeIs DEF AwaitsOn
<1>7. /\ LeavesArmed(tree, state, armed, running)
      /\ CombinatorsWait(tree, state, at, running, loops)
      /\ CountsAll(tree, state, count)
  BY <1>5 DEF LeavesArmed, CombinatorsWait, CountsAll, Combs
<1>8. ThrowsOnly(tree, outcome)
  BY <1>1, <1>5 DEF ThrowsOnly
<1>9. state[Frame(Root)] \in Alive
  BY <1>1, <1>3 DEF Alive
<1> QED
  BY <1>6, <1>7, <1>8, <1>9 DEF Waiting

-----------------------------------------------------------------------------
(* When run_task() has returned nothing is left.                           *)
Gone ==
  /\ Over
  /\ outcome[Frame(Root)] # "thrown" => \A f \in FramesOfTree(tree) : state[f] \in {"none", "freed"}

LEMMA RunGone ==
  ASSUME Inv, Main, EndRun \/ Terminate
  PROVE  Gone'
<1>1. Over'
  BY RunEnds
<1>2. /\ tree \in Trees /\ Root \in NodesOf(tree) /\ Frame(Root) \in FramesOfTree(tree)
      /\ outcome \in [FramesOfTree(tree) -> {"none", "value", "thrown", "timeout"}]
  BY InvFacts
<1>3. CASE Terminate
  <2>1. outcome' = [outcome EXCEPT ![Frame(Root)] = "thrown"]
    BY <1>3 DEF Terminate
  <2>2. outcome'[Frame(Root)] = "thrown"
    BY <1>2, <2>1
  <2> QED
    BY <1>1, <2>2 DEF Gone
<1>4. CASE EndRun
  <2>1. /\ state' = [g \in FramesOfTree(tree) |->
                       IF g = Frame(Root) THEN "freed" ELSE IF g \in {} THEN "fresh"
                       ELSE IF g \in FramesIn(Root) /\ state[g] # "none" THEN "freed" ELSE state[g]]
        /\ tree' = tree
    BY <1>4 DEF EndRun, Become, WrapperAndTask, Frames
  <2>2. tree.inside[Root] = NodesOf(tree)
    <3>1. tree.kind[Root] \in Bodies \cup {"run"}
      BY <1>2, TreeNodes
    <3>2. tree.inside[Root] = {x \in NodesOf(tree) : x = Root \/ Root \in tree.above[x]}
      BY <1>2, <3>1, TreeAbove
    <3> QED
      BY <1>2, <3>2, RootAbove
  <2>3. FramesOfTree(tree) \subseteq FramesIn(Root)
    <3>1. \A q \in Combs(tree) : q \in NodesOf(tree)
      BY DEF Combs
    <3> QED
      BY <1>2, <2>2, <3>1, FramesInIs, FrameKinds
  <2>4. \A f \in FramesOfTree(tree) : state'[f] \in {"none", "freed"}
    BY <2>1, <2>3
  <2> QED
    BY <1>1, <2>1, <2>4 DEF Gone
<1> QED
  BY <1>3, <1>4

LEMMA WaitingStays ==
  ASSUME Inv, AllReturn(tree, state, prev), Gone \/ (Main /\ Ahead /\ Waiting), [Next]_vars
  PROVE  Gone' \/ (Main' /\ Ahead' /\ Waiting')
<1>1. CASE Gone
  <2>1. UNCHANGED vars
    BY <1>1, OverEnds DEF Gone
  <2> QED
    BY <1>1, <2>1 DEF vars, Gone, Over
<1>2. CASE Main /\ Ahead /\ Waiting
  <2>1. Step
    BY <1>2, StepIs
  <2>2. CASE EndRun \/ Terminate
    BY <1>2, <2>2, RunGone
  <2> QED
    BY <1>2, <2>1, <2>2, MainNext, AheadNext, WaitingNext
<1> QED
  BY <1>1, <1>2

(* What remains when the event loop has control and nothing is lost.       *)
LEMMA NodeWaits ==
  ASSUME Inv, Main, Waiting, running = Nobody, loops = <<>>,
         NEW m \in NodesOf(tree), state[Frame(m)] = "suspended"
  PROVE  IF tree.kind[m] \in Leaves THEN Frame(m) \in armed
         ELSE \E g \in AwaitedBy(Frame(m)) : state[g] = "suspended"
<1>1. /\ tree \in Trees /\ Frame(m) # Nobody /\ \A q, k : ~Resuming(at, loops, q, k)
      /\ Frame(m)[1] = m /\ ~(Frame(m)[2] > 0)
      /\ tree.kind[m] \in Leaves \/ m \in Combs(tree) \/ m \in BodiesOf(tree)
  <2>1. tree \in Trees /\ Frame(m) # Nobody
    BY InvFacts, FrameKinds
  <2>2. \A q, k : ~Resuming(at, loops, q, k)
    BY DEF Resuming
  <2>3. tree.kind[m] \in Leaves \/ m \in Combs(tree) \/ m \in BodiesOf(tree)
    BY <2>1, TreeNodes DEF Combs, BodiesOf
  <2> QED
    BY <2>1, <2>2, <2>3 DEF Frame
<1>2. CASE tree.kind[m] \in Leaves
  BY <1>1, <1>2 DEF Waiting, LeavesArmed
<1>3. CASE m \in Combs(tree)
  <2>1. PICK i \in DOMAIN tree.subs[m] : state[<<m, i>>] = "suspended"
    <3>1. \A i \in DOMAIN tree.subs[m] : <<m, i>> # Nobody
      BY <1>1, <1>3, NotAFrame, FrameKinds
    <3> QED
      BY <1>1, <1>3, <3>1 DEF Waiting, CombinatorsWait
  <2>2. AwaitedBy(Frame(m)) = Helpers(m) /\ tree.kind[m] \notin Leaves
    BY <1>1, <1>3, KindsApart DEF AwaitedBy, Kind, Combs
  <2> QED
    BY <2>1, <2>2 DEF Helpers, Subs
<1>4. CASE m \in BodiesOf(tree)
  <2> DEFINE i == Current(tree, at, m)
  <2>1. m \notin Combs(tree) /\ tree.kind[m] \notin Leaves /\ tree.kind[m] \notin Combinators
    BY <1>1, <1>4, KindsApart DEF Combs
  <2>2. i \in DOMAIN tree.subs[m]
    <3>1. at[m] # 0 /\ at[m] \in Nat /\ (tree.kind[m] # "io" => at[m] <= Len(tree.subs[m]))
      BY <1>4 DEF Main, FramesWait, StatementsEnded, Inv, TypeInv, Bounded
    <3>2. /\ Len(tree.subs[m]) \in Nat /\ DOMAIN tree.subs[m] = 1 .. Len(tree.subs[m])
          /\ tree.kind[m] = "io" => Len(tree.subs[m]) = 1
      BY <1>1, TreeNodes
    <3>3. i = IF tree.kind[m] = "io" THEN 1 ELSE at[m]
      BY DEF Current
    <3> DEFINE l == Len(tree.subs[m])
    <3>4. i \in 1 .. l
      <4> HIDE DEF i
      <4>1. l \in Nat /\ (tree.kind[m] = "io" => l = 1)
        BY <3>2
      <4>2. at[m] # 0 /\ at[m] \in Nat /\ (tree.kind[m] # "io" => at[m] <= l)
        BY <3>1
      <4> HIDE DEF l
      <4> QED
        BY <3>3, <4>1, <4>2
    <3> QED
      BY <3>2, <3>4
  <2>3. tree.subs[m][i] \in NodesOf(tree) /\ ParentOf(tree, m, i) = Frame(m)
    BY <1>1, <2>1, <2>2, EdgeIs
  <2>4. Frame(tree.subs[m][i]) # Nobody
    BY <1>1, <2>3, FrameKinds
  <2>5. state[Frame(tree.subs[m][i])] = "suspended"
    BY <1>1, <2>2, <2>3, <2>4 DEF Waiting, AwaitsOn
  <2>6. AwaitedBy(Frame(m)) = {Frame(tree.subs[m][i])}
    BY <1>1, <2>1 DEF AwaitedBy, Kind, Awaited, Subs, Stmt, Current
  <2> QED
    BY <2>1, <2>5, <2>6
<1> QED
  BY <1>1, <1>2, <1>3, <1>4

LEMMA HelperAwaits ==
  ASSUME Inv, Main, Waiting, running = Nobody,
         NEW q \in Combs(tree), NEW i \in DOMAIN tree.subs[q],
         NEW f, f = <<q, i>>, state[f] = "suspended"
  PROVE  \E g \in AwaitedBy(f) : state[g] = "suspended"
<1>1. tree \in Trees /\ q \in NodesOf(tree) /\ <<q, i>> # Nobody
  BY InvFacts, NotAFrame
<1>2. DOMAIN tree.subs[q] = 1 .. Len(tree.subs[q]) /\ Len(tree.subs[q]) \in Nat
  BY <1>1, TreeNodes
<1>3. tree.subs[q][i] \in NodesOf(tree) /\ ParentOf(tree, q, i) = <<q, i>>
  BY <1>1, EdgeIs
<1>4. Frame(tree.subs[q][i]) # Nobody
  BY <1>1, <1>3, FrameKinds
<1>5. state[Frame(tree.subs[q][i])] = "suspended"
  BY <1>1, <1>3, <1>4 DEF Waiting, AwaitsOn
<1>6. AwaitedBy(f) = {Frame(tree.subs[q][i])}
  BY <1>2 DEF AwaitedBy, Subs
<1> QED
  BY <1>5, <1>6

LEMMA HelperAwaited ==
  ASSUME Inv, Main, NEW q \in Combs(tree), NEW i \in DOMAIN tree.subs[q], state[<<q, i>>] = "suspended"
  PROVE  /\ Frame(q) \in FramesOfTree(tree) /\ Frame(q)[1] = q /\ Frame(q)[2] = 0
         /\ state[Frame(q)] = "suspended" /\ <<q, i>> \in AwaitedBy(Frame(q))
         /\ prev[<<q, i>>] \in {Frame(q), Nobody}
         /\ prev[<<q, i>>] = Nobody => tree.kind[q] = "all"
<1>1. tree \in Trees /\ q \in NodesOf(tree) /\ tree.kind[q] \in Combinators
  BY InvFacts, NotAFrame DEF Combs
<1>2. Frame(q) \in FramesOfTree(tree) /\ Frame(q) # Nobody
  BY <1>1, FrameKinds
<1>3. /\ state[Frame(q)] = "suspended"
      /\ prev[<<q, i>>] = IF tree.kind[q] = "any" THEN Frame(q) ELSE Nobody
  BY DEF Main, FramesWait, HelpersBelong, Alive
<1>4. <<q, i>> \in AwaitedBy(Frame(q)) /\ Frame(q)[1] = q /\ Frame(q)[2] = 0
  BY <1>1 DEF AwaitedBy, Kind, Helpers, Subs, Frame
<1>5. tree.kind[q] # "any" => tree.kind[q] = "all"
  BY <1>1 DEF Combinators
<1> QED
  BY <1>2, <1>3, <1>4, <1>5

LEMMA AwaiterWaits ==
  ASSUME Inv, Main, Waiting, running = Nobody,
         NEW m \in NodesOf(tree) \ {Root}, state[Frame(m)] = "suspended"
  PROVE  \E g \in FramesOfTree(tree) :
           state[g] = "suspended" /\ Frame(m) \in AwaitedBy(g) /\ prev[Frame(m)] = g /\ g # Nobody
<1>1. tree \in Trees
  BY InvFacts
<1>2. PICK q \in NodesOf(tree) : \E i \in DOMAIN tree.subs[q] : tree.subs[q][i] = m
  BY <1>1, TreeAbove
<1>3. PICK i \in DOMAIN tree.subs[q] : tree.subs[q][i] = m
  BY <1>2
<1> DEFINE p == ParentOf(tree, q, i)
<1>4. /\ p \in FramesOfTree(tree) /\ p # Nobody
      /\ q \in Combs(tree) => p = <<q, i>>
      /\ q \notin Combs(tree) => p = Frame(q) /\ q \in BodiesOf(tree) /\ tree.owner[m] = q /\ tree.stmt[m] = i
  BY <1>1, <1>3, EdgeIs
<1>5. state[p] = "suspended" /\ prev[Frame(m)] = p
  <2>1. ~(tree.kind[q] = "any" /\ state[Frame(q)] = "done")
    BY DEF Main, ControlGoes, GoesToOwner
  <2> QED
    BY <1>3, <2>1 DEF Main, FramesWait, ParentsWait
<1>6. DOMAIN tree.subs[q] = 1 .. Len(tree.subs[q]) /\ Len(tree.subs[q]) \in Nat
  BY <1>1, TreeNodes
<1>7. i > 0 /\ i # 0
  BY <1>6
<1>8. Frame(m) \in AwaitedBy(p)
  <2>1. CASE q \in Combs(tree)
    BY <1>3, <1>4, <1>7, <2>1 DEF AwaitedBy, Subs
  <2>2. CASE q \notin Combs(tree)
    <3>1. at[q] # 0
      BY <1>4, <1>5, <2>2 DEF Main, FramesWait, StatementsEnded
    <3>2. i = Current(tree, at, q)
      BY <1>4, <1>7, <2>2, <3>1 DEF Main, FramesWait, OneStatement
    <3>3. p[1] = q /\ p[2] = 0 /\ tree.kind[q] \notin Combinators /\ tree.kind[q] \notin Leaves
      BY <1>1, <1>4, <2>2, KindsApart DEF Frame, Combs
    <3>4. Awaited(q) = m
      BY <1>3, <3>2 DEF Awaited, Subs, Stmt, Kind, Current
    <3> HIDE DEF p
    <3> QED
      BY <3>3, <3>4 DEF AwaitedBy, Kind
  <2> QED
    BY <2>1, <2>2
<1> QED
  BY <1>4, <1>5, <1>8

(* A coroutine that has not begun, when the event loop has control, is a   *)
(* parameter.                                                              *)
LEMMA NothingAhead ==
  ASSUME Inv, Main, Ahead, running = Nobody, loops = <<>>
  PROVE  /\ \A m \in NodesOf(tree) : state[Frame(m)] = "fresh" => tree.stmt[m] = 0
         /\ \A q \in Combs(tree) : \A i \in DOMAIN tree.subs[q] : state[<<q, i>>] # "fresh"
<1>1. \A q, k : ~Resuming(at, loops, q, k)
  BY DEF Resuming
<1>2. tree \in Trees /\ tree.stmt[Root] = 0
  <2>1. tree \in Trees
    BY InvFacts
  <2> QED
    BY <2>1, TreesAssumption DEF IsTree
<1>3. \A m \in NodesOf(tree) : state[Frame(m)] = "fresh" => tree.stmt[m] = 0
  BY <1>1, <1>2 DEF Ahead, FreshAhead
<1>4. \A q \in Combs(tree) : \A i \in DOMAIN tree.subs[q] : <<q, i>> # Nobody
  BY <1>2, NotAFrame, FrameKinds
<1> QED
  BY <1>1, <1>3, <1>4 DEF Ahead, HelpersAhead

LEMMA RemainAwaited ==
  ASSUME Inv, Gone \/ (Main /\ Ahead /\ Waiting)
  PROVE  OnlyAwaitedFramesRemain
<1>1. SUFFICES ASSUME Idle, NEW f \in FramesOfTree(tree)
               PROVE  /\ state[f] = "suspended" =>
                           /\ IF tree.kind[f[1]] \in Leaves THEN f \in armed
                              ELSE \E g \in AwaitedBy(f) : state[g] = "suspended"
                           /\ f # Frame(Root) =>
                                \E g \in FramesOfTree(tree) :
                                  /\ state[g] = "suspended" /\ f \in AwaitedBy(g)
                                  /\ prev[f] \in {g, Nobody}
                                  /\ prev[f] = Nobody => tree.kind[g[1]] = "all" /\ g[2] = 0
                      /\ state[f] = "fresh" => f[2] = 0 /\ tree.stmt[f[1]] = 0
                      /\ state[Frame(Root)] = "freed" => state[f] \in {"none", "freed"}
  BY DEF OnlyAwaitedFramesRemain, Frames, Kind
<1>2. CASE Gone
  BY <1>1, <1>2 DEF Gone, Idle
<1>3. CASE Main /\ Ahead /\ Waiting
  <2>1. tree \in Trees /\ running = Nobody /\ loops = <<>> /\ state[Frame(Root)] # "freed"
    BY <1>1, <1>3, InvFacts DEF Idle, Waiting, Alive
  <2>2. CASE \E m \in NodesOf(tree) : f = Frame(m)
    <3>1. PICK m \in NodesOf(tree) : f = Frame(m)
      BY <2>2
    <3>2. f[1] = m /\ f[2] = 0
      BY <3>1 DEF Frame
    <3>3. state[f] = "suspended" =>
            IF tree.kind[f[1]] \in Leaves THEN f \in armed
            ELSE \E g \in AwaitedBy(f) : state[g] = "suspended"
      BY <1>3, <2>1, <3>1, <3>2, NodeWaits
    <3>4. state[f] = "suspended" /\ f # Frame(Root) =>
            \E g \in FramesOfTree(tree) :
              state[g] = "suspended" /\ f \in AwaitedBy(g) /\ prev[f] = g /\ g # Nobody
      BY <1>3, <2>1, <3>1, AwaiterWaits
    <3>5. state[f] = "fresh" => tree.stmt[f[1]] = 0
      BY <1>3, <2>1, <3>1, <3>2, NothingAhead
    <3> QED
      BY <2>1, <3>2, <3>3, <3>4, <3>5
  <2>3. CASE \E q \in Combs(tree) : \E i \in DOMAIN tree.subs[q] : f = <<q, i>>
    <3>1. PICK q \in Combs(tree) : \E i \in DOMAIN tree.subs[q] : f = <<q, i>>
      BY <2>3
    <3>2. PICK i \in DOMAIN tree.subs[q] : f = <<q, i>>
      BY <3>1
    <3>3. f[1] = q /\ state[f] # "fresh"
      BY <1>3, <2>1, <3>2, NothingAhead
    <3>4. tree.kind[q] \notin Leaves
      BY <2>1, KindsApart
    <3>5. state[f] = "suspended" => \E g \in AwaitedBy(f) : state[g] = "suspended"
      BY <1>3, <2>1, <3>2, HelperAwaits
    <3>6. state[f] = "suspended" =>
            /\ Frame(q) \in FramesOfTree(tree) /\ Frame(q)[1] = q /\ Frame(q)[2] = 0
            /\ state[Frame(q)] = "suspended" /\ f \in AwaitedBy(Frame(q))
            /\ prev[f] \in {Frame(q), Nobody}
            /\ prev[f] = Nobody => tree.kind[q] = "all"
      BY <1>3, <3>2, HelperAwaited
    <3> QED
      BY <2>1, <3>3, <3>4, <3>5, <3>6
  <2> QED
    BY <2>1, <2>2, <2>3, FrameKinds
<1> QED
  BY <1>2, <1>3

(* Whenever the event loop has control, every suspended coroutine is one   *)
(* that a suspended one awaits and waits for an armed leaf or a suspended  *)
(* one itself; and run_task() that has returned leaves nothing: no loser   *)
(* of a when_any, no retry of a file operation is ever forgotten.          *)
THEOREM OnlyAwaitedRemain ==
  Spec /\ SafeTree(tree) /\ AllSucceed(tree) => []OnlyAwaitedFramesRemain
<1>1. Init /\ SafeTree(tree) /\ AllSucceed(tree)
        => Inv /\ AllReturn(tree, state, prev) /\ (Gone \/ (Main /\ Ahead /\ Waiting))
  BY InitInv, InitReturns, InitMain, InitAhead, InitWaiting
<1>2. Inv /\ AllReturn(tree, state, prev) /\ [Next]_vars => Inv' /\ AllReturn(tree, state, prev)'
  BY NextInv, ReturnsNext
<1>3. Inv /\ AllReturn(tree, state, prev) /\ (Gone \/ (Main /\ Ahead /\ Waiting)) /\ [Next]_vars
        => (Gone \/ (Main /\ Ahead /\ Waiting))'
  BY WaitingStays
<1>4. Inv /\ (Gone \/ (Main /\ Ahead /\ Waiting)) => OnlyAwaitedFramesRemain
  BY RemainAwaited
<1> QED
  BY <1>1, <1>2, <1>3, <1>4, PTL DEF Spec
-----------------------------------------------------------------------------
(* Who has ended first. Of the arguments of a when_any that goes on only   *)
(* one has ended, the one whose helper, or after it the when_any, has      *)
(* control; its index is kept.                                             *)
FirstComesUp(t, st, o, x, run) ==
  \A q \in Combs(t) : \A i \in DOMAIN t.subs[q] :
    t.kind[q] = "any" /\ st[Frame(q)] = "suspended" /\ o[Frame(t.subs[q][i])] # "none" =>
      \/ run = <<q, i>>
      \/ run = Frame(q) /\ (x[q] = i \/ o[Frame(t.subs[q][i])] = "thrown")

OneEnds(t, st, o) ==
  \A q \in Combs(t) : \A i, j \in DOMAIN t.subs[q] :
    /\ t.kind[q] = "any" /\ st[Frame(q)] \in {"suspended", "done"}
    /\ o[Frame(t.subs[q][i])] # "none" /\ o[Frame(t.subs[q][j])] # "none"
    => i = j

FirstKept(t, st, o, x) ==
  \A q \in Combs(t) :
    t.kind[q] = "any" /\ st[Frame(q)] = "done" /\ DOMAIN t.subs[q] # {} =>
      \E i \in DOMAIN t.subs[q] :
        /\ o[Frame(t.subs[q][i])] # "none"
        /\ x[q] = i \/ o[Frame(t.subs[q][i])] = "thrown"

(* complete_count counts helpers that have ended and whose arguments have  *)
(* not thrown; a when_all has control when it has counted them all.        *)
Counted(t, st, o, q) ==
  {i \in DOMAIN t.subs[q] : st[<<q, i>>] = "done" /\ o[Frame(t.subs[q][i])] # "thrown"}

CountsValues(t, st, o, c, run) ==
  \A q \in Combs(t) :
    t.kind[q] = "all" /\ st[Frame(q)] = "suspended" =>
      /\ c[q] <= Cardinality(Counted(t, st, o, q))
      /\ run = Frame(q) => c[q] = Len(t.subs[q])

LeavesThrow(t, o) ==
  \A m \in NodesOf(t) :
    t.kind[m] \in Leaves /\ o[Frame(m)] = "thrown" => t.kind[m] = "fail"

Firsts ==
  /\ FirstComesUp(tree, state, outcome, index, running)
  /\ OneEnds(tree, state, outcome)
  /\ FirstKept(tree, state, outcome, index)
  /\ CountsValues(tree, state, outcome, count, running)
  /\ LeavesThrow(tree, outcome)
  /\ outcome[Frame(Root)] = "none"

LEMMA CountedFinite ==
  ASSUME NEW t \in Trees, NEW st, NEW o, NEW q \in Combs(t)
  PROVE  LET C == Counted(t, st, o, q) IN
         /\ C \subseteq 1 .. Len(t.subs[q]) /\ IsFiniteSet(C) /\ Cardinality(C) \in Nat
         /\ Cardinality(C) = Len(t.subs[q]) => C = DOMAIN t.subs[q]
<1> DEFINE L == Len(t.subs[q])
           C == Counted(t, st, o, q)
<1>1. L \in Nat /\ DOMAIN t.subs[q] = 1 .. L
  BY TreeNodes DEF Combs
<1>2. C \subseteq 1 .. L
  BY <1>1 DEF Counted
<1> HIDE DEF C, L
<1>3. IsFiniteSet(1 .. L) /\ Cardinality(1 .. L) = L
  <2>1. Cardinality(1 .. L) = IF 1 > L THEN 0 ELSE L - 1 + 1
    BY <1>1, FS_Interval
  <2>2. IsFiniteSet(1 .. L)
    BY <1>1, FS_Interval
  <2> QED
    BY <1>1, <2>1, <2>2
<1>4. IsFiniteSet(C)
  BY <1>2, <1>3, FS_Subset
<1>5. Cardinality(C) \in Nat
  BY <1>4, FS_CardinalityType
<1>6. Cardinality(C) = L => C = 1 .. L
  BY <1>2, <1>3, FS_Subset
<1> QED
  BY <1>1, <1>2, <1>4, <1>5, <1>6 DEF C, L

LEMMA CountGrows ==
  ASSUME Inv, NEW q \in Combs(tree), NEW st, NEW o,
         Counted(tree, state, outcome, q) \subseteq Counted(tree, st, o, q),
         count[q] <= Cardinality(Counted(tree, state, outcome, q))
  PROVE  count[q] <= Cardinality(Counted(tree, st, o, q))
<1> DEFINE C == Counted(tree, state, outcome, q)
           D == Counted(tree, st, o, q)
<1>1. tree \in Trees /\ count[q] \in Nat
  BY InvFacts DEF Combs
<1>2. IsFiniteSet(D) /\ Cardinality(D) \in Nat /\ Cardinality(C) \in Nat
  BY <1>1, CountedFinite
<1>3. C \subseteq D /\ count[q] <= Cardinality(C)
  OBVIOUS
<1> HIDE DEF C, D
<1>4. Cardinality(C) <= Cardinality(D)
  BY <1>2, <1>3, FS_Subset
<1>5. count[q] <= Cardinality(D)
  BY <1>1, <1>2, <1>3, <1>4
<1> QED
  BY <1>5 DEF D

LEMMA AwaitFirsts ==
  ASSUME Inv, Main, Main', Firsts, NEW n, NEW i, NEW k, NEW freed, AwaitIs(n, i, k, freed),
         count' = count, index' = index
  PROVE  Firsts'
<1> DEFINE e == tree.subs[n][i]
           M == Made(n, i)
<1>1. /\ tree \in Trees /\ n \in BodiesOf(tree) /\ n \in NodesOf(tree) /\ n \notin Combs(tree)
      /\ running = Frame(n) /\ Nobody \notin FramesOfTree(tree) /\ Root \in NodesOf(tree)
  BY InvFacts, KindsApart DEF AwaitIs
<1>2. /\ tree' = tree /\ running' = Frame(e) /\ e \in M
      /\ \A m \in M : m \in NodesOf(tree) \ {Root} /\ n \in tree.above[m]
  BY DEF AwaitIs
<1>3. \A m \in NodesOf(tree) :
       state'[Frame(m)] = IF m = n THEN "suspended"
                          ELSE IF m \in M THEN "fresh"
                          ELSE IF Frame(m) \in freed /\ state[Frame(m)] # "none" THEN "freed"
                          ELSE state[Frame(m)]
  BY DEF AwaitIs
<1>4. \A q \in Combs(tree) : \A j \in DOMAIN tree.subs[q] :
        state'[<<q, j>>] = IF Frame(q) \in freed /\ state[<<q, j>>] # "none" THEN "freed"
                           ELSE state[<<q, j>>]
  BY DEF AwaitIs
<1>5. \A f \in FramesOfTree(tree) :
        outcome'[f] = IF f \in {Frame(m) : m \in M} THEN "none" ELSE outcome[f]
  BY DEF AwaitIs
<1>6. \A m \in NodesOf(tree) : /\ Frame(m) \in FramesOfTree(tree)
                               /\ outcome'[Frame(m)] \in {"none", outcome[Frame(m)]}
  <2>1. \A m \in NodesOf(tree) : Frame(m) \in FramesOfTree(tree)
    BY <1>1, FrameKinds
  <2> QED
    BY <1>5, <2>1
<1>7. e # n /\ e \in NodesOf(tree)
  BY <1>1, <1>2, TreeAbove
<1>8. state'[Frame(e)] = "fresh"
  BY <1>2, <1>3, <1>7
<1> HIDE DEF e, M
<1>9. ASSUME NEW q \in Combs(tree)
      PROVE  /\ q \in NodesOf(tree) /\ q # n
             /\ state'[Frame(q)] = "suspended" => state[Frame(q)] = "suspended" /\ Frame(q) \notin freed
             /\ tree.kind[q] = "any" => state'[Frame(q)] # "done"
             /\ running # Frame(q) /\ \A j \in DOMAIN tree.subs[q] : running # <<q, j>>
             /\ state'[Frame(q)] = "suspended" => running' # Frame(q)
             /\ \A j \in DOMAIN tree.subs[q] : tree.subs[q][j] \in NodesOf(tree)
  <2>1. q \in NodesOf(tree) /\ q # n /\ \A j \in DOMAIN tree.subs[q] : <<q, j>> # Frame(n)
    BY <1>1, NotAFrame DEF Combs
  <2>2. state'[Frame(q)] = "suspended" => state[Frame(q)] = "suspended" /\ Frame(q) \notin freed
    BY <1>3, <2>1
  <2>3. tree.kind[q] = "any" => state'[Frame(q)] # "done"
    <3>1. tree.kind[q] = "any" /\ state'[Frame(q)] = "done" => state'[running'] = "suspended"
      BY <1>2, <2>1 DEF Main, ControlGoes, GoesToOwner
    <3> QED
      BY <1>2, <1>8, <3>1
  <2>4. running # Frame(q)
    BY <1>1, <2>1, FrameKinds
  <2>5. state'[Frame(q)] = "suspended" => running' # Frame(q)
    BY <1>2, <1>8
  <2>6. \A j \in DOMAIN tree.subs[q] : tree.subs[q][j] \in NodesOf(tree)
    BY <1>1, <2>1, EdgeIs
  <2> QED
    BY <1>1, <2>1, <2>2, <2>3, <2>4, <2>5, <2>6
<1>10. FirstComesUp(tree, state', outcome', index', running')
  <2>1. SUFFICES ASSUME NEW q \in Combs(tree), NEW j \in DOMAIN tree.subs[q], tree.kind[q] = "any",
                        state'[Frame(q)] = "suspended", outcome'[Frame(tree.subs[q][j])] # "none"
                 PROVE  FALSE
    BY DEF FirstComesUp
  <2>2. outcome[Frame(tree.subs[q][j])] # "none"
    BY <1>6, <1>9, <2>1
  <2> QED
    BY <1>9, <2>1, <2>2 DEF Firsts, FirstComesUp
<1>11. OneEnds(tree, state', outcome')
  <2>1. SUFFICES ASSUME NEW q \in Combs(tree), NEW j \in DOMAIN tree.subs[q], NEW l \in DOMAIN tree.subs[q],
                        tree.kind[q] = "any", state'[Frame(q)] \in {"suspended", "done"},
                        outcome'[Frame(tree.subs[q][j])] # "none", outcome'[Frame(tree.subs[q][l])] # "none"
                 PROVE  j = l
    BY DEF OneEnds
  <2>2. outcome[Frame(tree.subs[q][j])] # "none" /\ outcome[Frame(tree.subs[q][l])] # "none"
    BY <1>6, <1>9, <2>1
  <2>3. state[Frame(q)] = "suspended"
    BY <1>9, <2>1
  <2> QED
    BY <2>1, <2>2, <2>3 DEF Firsts, OneEnds
<1>12. FirstKept(tree, state', outcome', index')
  BY <1>9 DEF FirstKept
<1>13. CountsValues(tree, state', outcome', count', running')
  <2>1. SUFFICES ASSUME NEW q \in Combs(tree), tree.kind[q] = "all", state'[Frame(q)] = "suspended"
                 PROVE  count[q] <= Cardinality(Counted(tree, state', outcome', q))
    BY <1>9 DEF CountsValues
  <2>2. state[Frame(q)] = "suspended" /\ Frame(q) \notin freed
    BY <1>9, <2>1
  <2>3. \A j \in DOMAIN tree.subs[q] :
          /\ state'[<<q, j>>] = state[<<q, j>>]
          /\ outcome'[Frame(tree.subs[q][j])] \in {"none", outcome[Frame(tree.subs[q][j])]}
    BY <1>4, <1>6, <1>9, <2>2
  <2>4. Counted(tree, state, outcome, q) \subseteq Counted(tree, state', outcome', q)
    BY <2>3 DEF Counted
  <2> QED
    BY <1>1, <2>1, <2>2, <2>4, CountGrows DEF Firsts, CountsValues
<1>14. LeavesThrow(tree, outcome')
  BY <1>6 DEF Firsts, LeavesThrow
<1>15. outcome'[Frame(Root)] = "none"
  BY <1>1, <1>6 DEF Firsts
<1> QED
  BY <1>2, <1>10, <1>11, <1>12, <1>13, <1>14, <1>15 DEF Firsts

(* Of who ends: where f is, and what does not change. *)
LEMMA FinishAt ==
  ASSUME Inv, Main, NEW f, NEW r, NEW freed, FinishIs(f, r, freed), Ends(f, r), NEW q \in Combs(tree)
  PROVE  /\ q \in NodesOf(tree)
         /\ state'[Frame(q)] = "suspended" =>
              state[Frame(q)] = "suspended" /\ Frame(q) \notin freed /\ f # Frame(q)
         /\ state'[Frame(q)] = "done" /\ DOMAIN tree.subs[q] # {} =>
              state[Frame(q)] = "done" \/ (f = Frame(q) /\ state[Frame(q)] = "suspended")
         /\ tree.kind[q] = "any" /\ state[Frame(q)] = "done" =>
              \A i \in DOMAIN tree.subs[q] : f # Frame(tree.subs[q][i]) /\ f # <<q, i>>
         /\ \A i \in DOMAIN tree.subs[q] :
              /\ tree.subs[q][i] \in NodesOf(tree)
              /\ Frame(q) # Frame(tree.subs[q][i])
              /\ \A j \in DOMAIN tree.subs[q] :
                   /\ i # j => Frame(tree.subs[q][i]) # Frame(tree.subs[q][j])
                   /\ <<q, i>> # Frame(tree.subs[q][j])
              /\ <<q, i>> # Frame(q)
              /\ f = Frame(tree.subs[q][i]) => running' = <<q, i>>
         /\ (\A i \in DOMAIN tree.subs[q] : f # <<q, i>>) =>
              /\ count'[q] = count[q]
              /\ DOMAIN tree.subs[q] # {} => index'[q] = index[q]
              /\ running' # Frame(q)
         /\ \A m \in NodesOf(tree) : outcome'[Frame(m)] = IF f = Frame(m) THEN r ELSE outcome[Frame(m)]
<1>1. /\ tree \in Trees /\ q \in NodesOf(tree) /\ f \in FramesOfTree(tree) /\ running = f /\ running # Nobody
      /\ Nobody \notin FramesOfTree(tree)
  BY InvFacts DEF FinishIs, Combs
<1>2. state'[Frame(q)] = "suspended" =>
        state[Frame(q)] = "suspended" /\ Frame(q) \notin freed /\ f # Frame(q)
  BY <1>1, FinishKeeps
<1>3. state'[Frame(q)] = "done" /\ DOMAIN tree.subs[q] # {} =>
        state[Frame(q)] = "done" \/ (f = Frame(q) /\ state[Frame(q)] = "suspended")
  <2>1. state'[Frame(q)] = "done" => state[Frame(q)] = "done" \/ f = Frame(q)
    BY <1>1, FinishKeeps
  <2>2. f = Frame(q) /\ state[f] # "suspended" => DOMAIN tree.subs[q] = {}
    <3>1. state[f] # "suspended" => \E x \in NodesOf(tree) : f = Frame(x) /\ DOMAIN tree.subs[x] = {}
      BY DEF FinishIs
    <3> QED
      BY <3>1 DEF Frame
  <2> QED
    BY <2>1, <2>2
<1>4. ASSUME NEW i \in DOMAIN tree.subs[q]
      PROVE  /\ tree.subs[q][i] \in NodesOf(tree) /\ q \in tree.above[tree.subs[q][i]]
             /\ Frame(q) # Frame(tree.subs[q][i])
             /\ \A j \in DOMAIN tree.subs[q] :
                  /\ i # j => Frame(tree.subs[q][i]) # Frame(tree.subs[q][j])
                  /\ <<q, i>> # Frame(tree.subs[q][j])
             /\ <<q, i>> # Frame(q)
  <2>1. /\ tree.subs[q][i] \in NodesOf(tree) /\ tree.above[tree.subs[q][i]] = tree.above[q] \cup {q}
        /\ q \notin tree.above[q] /\ \A x : <<q, i>> # Frame(x)
    BY <1>1, EdgeIs
  <2>2. q # tree.subs[q][i]
    BY <2>1
  <2>3. ASSUME NEW j \in DOMAIN tree.subs[q], i # j PROVE tree.subs[q][i] # tree.subs[q][j]
    BY <1>1, <2>3, TreeEdge
  <2> QED
    BY <2>1, <2>2, <2>3 DEF Frame
<1>5. ASSUME tree.kind[q] = "any", state[Frame(q)] = "done", NEW i \in DOMAIN tree.subs[q]
      PROVE  f # Frame(tree.subs[q][i]) /\ f # <<q, i>>
  <2>1. running[1] \in tree.above[q]
    BY <1>1, <1>5 DEF Main, ControlGoes, GoesToOwner
  <2>2. q \notin tree.above[q] /\ tree.above[running[1]] \subseteq tree.above[q]
    BY <1>1, <2>1, TreeAbove
  <2>3. f[1] # q /\ q \notin tree.above[f[1]]
    BY <1>1, <2>1, <2>2
  <2> QED
    BY <1>4, <2>3 DEF Frame
<1>6. ASSUME NEW i \in DOMAIN tree.subs[q], f = Frame(tree.subs[q][i]) PROVE running' = <<q, i>>
  <2>1. \A x \in Combs(tree) : \A j \in DOMAIN tree.subs[x] : f # <<x, j>>
    BY <1>1, <1>6, NotAFrame
  <2>2. PICK x \in NodesOf(tree) : \E j \in DOMAIN tree.subs[x] :
               f = Frame(tree.subs[x][j]) /\ running' = ParentOf(tree, x, j)
    BY <2>1, FinishGoes
  <2>3. PICK j \in DOMAIN tree.subs[x] : f = Frame(tree.subs[x][j]) /\ running' = ParentOf(tree, x, j)
    BY <2>2
  <2>4. tree.subs[x][j] = tree.subs[q][i]
    BY <1>6, <2>3 DEF Frame
  <2>5. x = q /\ j = i
    BY <1>1, <2>4, TreeEdge
  <2> QED
    BY <2>3, <2>5 DEF ParentOf
<1>7. ASSUME \A i \in DOMAIN tree.subs[q] : f # <<q, i>>
      PROVE  /\ count'[q] = count[q]
             /\ DOMAIN tree.subs[q] # {} => index'[q] = index[q]
             /\ running' # Frame(q)
  <2>3. running' # Frame(q)
    <3>1. Frame(q) \in FramesOfTree(tree)
      BY <1>1, FrameKinds
    <3>2. ASSUME NEW p \in NodesOf(tree), NEW i \in DOMAIN tree.subs[p], running' = ParentOf(tree, p, i)
          PROVE  running' # Frame(q)
      <4>1. p \in Combs(tree) => running' = <<p, i>> /\ \A x : <<p, i>> # Frame(x)
        BY <1>1, <3>2, EdgeIs
      <4>2. p \notin Combs(tree) => running' = Frame(p) /\ p # q
        BY <3>2 DEF ParentOf
      <4> QED
        BY <4>1, <4>2 DEF Frame
    <3>3. ASSUME NEW p \in Combs(tree), NEW i \in DOMAIN tree.subs[p], f = <<p, i>>, running' = Frame(p)
          PROVE  running' # Frame(q)
      BY <1>7, <3>3 DEF Frame
    <3> QED
      BY <1>1, <3>1, <3>2, <3>3, FinishGoes
  <2>1. CASE \E x \in NodesOf(tree) : f = Frame(x)
    <3>1. PICK x \in NodesOf(tree) : f = Frame(x)
      BY <2>1
    <3>2. count' = count
      BY <3>1 DEF Ends
    <3>3. \A y \in Combs(tree) : DOMAIN tree.subs[y] # {} => index'[y] = index[y]
      BY <3>1 DEF Ends
    <3> QED
      BY <2>3, <3>2, <3>3
  <2>2. CASE \E p \in Combs(tree) : \E i \in DOMAIN tree.subs[p] : f = <<p, i>>
    <3>1. PICK p \in Combs(tree) : \E i \in DOMAIN tree.subs[p] : f = <<p, i>>
      BY <2>2
    <3>2. p # q
      BY <1>7, <3>1
    <3>3. \A x \in Combs(tree) \ {p} : count'[x] = count[x] /\ index'[x] = index[x]
      <4>1. PICK i \in DOMAIN tree.subs[p] : f = <<p, i>>
        BY <3>1
      <4> QED
        BY <4>1 DEF Ends
    <3> QED
      BY <2>3, <3>2, <3>3
  <2> QED
    BY <1>1, <2>1, <2>2, <2>3, FrameKinds
<1>8. \A m \in NodesOf(tree) : outcome'[Frame(m)] = IF f = Frame(m) THEN r ELSE outcome[Frame(m)]
  BY <1>1, FrameKinds DEF FinishIs
<1> QED
  BY <1>1, <1>2, <1>3, <1>4, <1>5, <1>6, <1>7, <1>8

LEMMA FinishCounts ==
  ASSUME Inv, Main, Firsts, NEW f, NEW r, NEW freed, FinishIs(f, r, freed), Ends(f, r)
  PROVE  CountsValues(tree, state', outcome', count', running')
<1>1. tree \in Trees /\ running = f /\ running # Nobody /\ state[f] \in Alive
  BY InvFacts DEF FinishIs, Alive
<1>2. SUFFICES ASSUME NEW q \in Combs(tree), tree.kind[q] = "all", state'[Frame(q)] = "suspended"
               PROVE  /\ count'[q] <= Cardinality(Counted(tree, state', outcome', q))
                      /\ running' = Frame(q) => count'[q] = Len(tree.subs[q])
  BY DEF CountsValues
<1> DEFINE C == Counted(tree, state, outcome, q)
           D == Counted(tree, state', outcome', q)
<1>3. state[Frame(q)] = "suspended" /\ Frame(q) \notin freed /\ f # Frame(q) /\ q \in NodesOf(tree)
  BY <1>2, FinishAt
<1>4. count[q] <= Cardinality(C) /\ count[q] \in Nat
  BY <1>2, <1>3, InvFacts DEF Firsts, CountsValues
<1>5. \A i \in DOMAIN tree.subs[q] : /\ <<q, i>> \in FramesOfTree(tree) /\ <<q, i>> \notin freed
                                     /\ tree.subs[q][i] \in NodesOf(tree)
  <2>1. \A i \in DOMAIN tree.subs[q] : tree.subs[q][i] \in NodesOf(tree)
    BY FinishAt
  <2> QED
    BY <1>3, <2>1, FinishKeeps
<1>6. ASSUME NEW i \in C PROVE i \in D /\ f # <<q, i>>
  <2>1. i \in DOMAIN tree.subs[q] /\ state[<<q, i>>] = "done" /\ outcome[Frame(tree.subs[q][i])] # "thrown"
    BY DEF Counted
  <2>2. state[Frame(tree.subs[q][i])] = "done"
    BY <2>1 DEF Main, FramesWait, ArgumentsEnd
  <2>3. f # <<q, i>> /\ f # Frame(tree.subs[q][i])
    BY <1>1, <2>1, <2>2 DEF Alive
  <2>4. state'[<<q, i>>] = "done"
    BY <1>5, <2>1, <2>3 DEF FinishIs
  <2>5. outcome'[Frame(tree.subs[q][i])] = outcome[Frame(tree.subs[q][i])]
    BY <1>5, <2>1, <2>3, FinishAt
  <2> QED
    BY <2>1, <2>3, <2>4, <2>5 DEF Counted
<1>7. C \subseteq D
  BY <1>6
<1>8. count[q] <= Cardinality(D)
  BY <1>4, <1>7, CountGrows
<1>9. CASE \A i \in DOMAIN tree.subs[q] : f # <<q, i>>
  BY <1>8, <1>9, FinishAt
<1>10. ASSUME NEW i \in DOMAIN tree.subs[q], f = <<q, i>>
       PROVE  /\ count'[q] <= Cardinality(D)
              /\ running' = Frame(q) => count'[q] = Len(tree.subs[q])
  <2>1. /\ r = "thrown" <=> outcome[Frame(tree.subs[q][i])] = "thrown"
        /\ r = "thrown" => count'[q] = count[q]
        /\ r # "thrown" => count'[q] = count[q] + 1
        /\ running' = Frame(q) <=> r # "thrown" /\ count[q] + 1 = Len(tree.subs[q])
    <3>1. r = "thrown" <=> outcome[Frame(tree.subs[q][i])] = "thrown"
      BY <1>10 DEF Ends
    <3>2. tree.kind[q] = "all" =>
            /\ r = "thrown" => count'[q] = count[q]
            /\ r # "thrown" => count'[q] = count[q] + 1
            /\ running' = Frame(q) <=> r # "thrown" /\ count[q] + 1 = Len(tree.subs[q])
      BY <1>10 DEF Ends
    <3> QED
      BY <1>2, <3>1, <3>2
  <2>2. CASE r = "thrown"
    BY <1>8, <2>1, <2>2
  <2>3. CASE r # "thrown"
    <3>1. i \notin C
      BY <1>6, <1>10
    <3>2. i \in D
      <4>1. state'[<<q, i>>] = "done"
        BY <1>5, <1>10 DEF FinishIs
      <4>2. outcome'[Frame(tree.subs[q][i])] = outcome[Frame(tree.subs[q][i])]
        <5>1. <<q, i>> # Frame(tree.subs[q][i])
          BY FinishAt
        <5> QED
          BY <1>5, <1>10, <5>1, FinishAt
      <4> QED
        BY <2>1, <2>3, <4>1, <4>2 DEF Counted
    <3>3. IsFiniteSet(C) /\ IsFiniteSet(D) /\ Cardinality(C) \in Nat /\ Cardinality(D) \in Nat
      BY <1>1, CountedFinite
    <3> HIDE DEF C, D
    <3>4. Cardinality(C \cup {i}) = Cardinality(C) + 1
      BY <3>1, <3>3, FS_AddElement
    <3>5. Cardinality(C \cup {i}) <= Cardinality(D)
      BY <1>7, <3>2, <3>3, FS_Subset
    <3>6. count'[q] = count[q] + 1
      BY <2>1, <2>3
    <3>7. count'[q] <= Cardinality(D)
      BY <1>4, <3>3, <3>4, <3>5, <3>6
    <3> QED
      BY <2>1, <3>6, <3>7
  <2> QED
    BY <2>2, <2>3
<1> QED
  BY <1>9, <1>10

LEMMA FinishFirsts ==
  ASSUME Inv, Main, Firsts, NEW f, NEW r, NEW freed, FinishIs(f, r, freed), Ends(f, r)
  PROVE  Firsts'
<1>1. /\ tree \in Trees /\ tree' = tree /\ f \in FramesOfTree(tree) \ {Frame(Root)} /\ running = f
      /\ Root \in NodesOf(tree) /\ running # Nobody
  BY InvFacts DEF FinishIs
<1>2. FirstComesUp(tree, state', outcome', index', running')
  <2>1. SUFFICES ASSUME NEW q \in Combs(tree), NEW i \in DOMAIN tree.subs[q], tree.kind[q] = "any",
                        state'[Frame(q)] = "suspended", outcome'[Frame(tree.subs[q][i])] # "none"
                 PROVE  \/ running' = <<q, i>>
                        \/ /\ running' = Frame(q)
                           /\ index'[q] = i \/ outcome'[Frame(tree.subs[q][i])] = "thrown"
    BY DEF FirstComesUp
  <2> DEFINE m == tree.subs[q][i]
  <2>2. state[Frame(q)] = "suspended" /\ f # Frame(q) /\ m \in NodesOf(tree)
    BY <2>1, FinishAt
  <2>3. CASE f = Frame(m)
    BY <2>3, FinishAt
  <2>4. CASE f # Frame(m)
    <3>1. outcome'[Frame(m)] = outcome[Frame(m)]
      BY <2>2, <2>4, FinishAt
    <3>2. f = <<q, i>>
      BY <1>1, <2>1, <2>2, <3>1 DEF Firsts, FirstComesUp
    <3>3. running' = Frame(q)
      BY <2>1, <3>2 DEF FinishIs
    <3>4. r = "thrown" => outcome[Frame(m)] = "thrown"
      BY <3>2 DEF Ends
    <3>5. r # "thrown" => index'[q] = i
      BY <2>1, <3>2 DEF Ends
    <3> QED
      BY <3>1, <3>3, <3>4, <3>5
  <2> QED
    BY <2>3, <2>4
<1>3. ASSUME NEW q \in Combs(tree), NEW i \in DOMAIN tree.subs[q], tree.kind[q] = "any",
             state'[Frame(q)] \in {"suspended", "done"}, f = Frame(tree.subs[q][i]),
             NEW j \in DOMAIN tree.subs[q], outcome'[Frame(tree.subs[q][j])] # "none"
      PROVE  j = i
  <2>1. SUFFICES ASSUME j # i PROVE FALSE
    OBVIOUS
  <2>2. Frame(tree.subs[q][j]) # f /\ f # Frame(q) /\ <<q, j>> # f /\ tree.subs[q][j] \in NodesOf(tree)
    BY <1>3, <2>1, FinishAt
  <2>3. outcome[Frame(tree.subs[q][j])] # "none"
    BY <1>3, <2>2, FinishAt
  <2>4. state[Frame(q)] = "suspended"
    <3>1. DOMAIN tree.subs[q] # {}
      BY <1>3
    <3>2. tree.kind[q] = "any" /\ state[Frame(q)] = "done" => f # Frame(tree.subs[q][i])
      BY FinishAt
    <3>3. state'[Frame(q)] = "suspended" => state[Frame(q)] = "suspended"
      BY FinishAt
    <3>4. state'[Frame(q)] = "done" => state[Frame(q)] = "done" \/ f = Frame(q)
      BY <3>1, FinishAt
    <3> QED
      BY <1>3, <2>2, <3>2, <3>3, <3>4
  <2> QED
    BY <1>1, <1>3, <2>2, <2>3, <2>4 DEF Firsts, FirstComesUp
<1>4. OneEnds(tree, state', outcome')
  <2>1. SUFFICES ASSUME NEW q \in Combs(tree), NEW i \in DOMAIN tree.subs[q], NEW j \in DOMAIN tree.subs[q],
                        tree.kind[q] = "any", state'[Frame(q)] \in {"suspended", "done"},
                        outcome'[Frame(tree.subs[q][i])] # "none", outcome'[Frame(tree.subs[q][j])] # "none"
                 PROVE  i = j
    BY DEF OneEnds
  <2>2. CASE f = Frame(tree.subs[q][i]) \/ f = Frame(tree.subs[q][j])
    BY <1>3, <2>1, <2>2
  <2>3. CASE f # Frame(tree.subs[q][i]) /\ f # Frame(tree.subs[q][j])
    <3>1. outcome[Frame(tree.subs[q][i])] # "none" /\ outcome[Frame(tree.subs[q][j])] # "none"
      <4>1. tree.subs[q][i] \in NodesOf(tree) /\ tree.subs[q][j] \in NodesOf(tree)
        BY FinishAt
      <4> QED
        BY <2>1, <2>3, <4>1, FinishAt
    <3>2. state[Frame(q)] \in {"suspended", "done"}
      <4>1. DOMAIN tree.subs[q] # {}
        OBVIOUS
      <4> QED
        BY <2>1, <4>1, FinishAt
    <3> QED
      BY <2>1, <3>1, <3>2 DEF Firsts, OneEnds
  <2> QED
    BY <2>2, <2>3
<1>5. FirstKept(tree, state', outcome', index')
  <2>1. SUFFICES ASSUME NEW q \in Combs(tree), tree.kind[q] = "any", state'[Frame(q)] = "done",
                        DOMAIN tree.subs[q] # {}
                 PROVE  \E i \in DOMAIN tree.subs[q] :
                          /\ outcome'[Frame(tree.subs[q][i])] # "none"
                          /\ index'[q] = i \/ outcome'[Frame(tree.subs[q][i])] = "thrown"
    BY DEF FirstKept
  <2>2. CASE f = Frame(q) /\ state[Frame(q)] = "suspended"
    <3>1. PICK i \in DOMAIN tree.subs[q] : state[<<q, i>>] = "done"
      BY <1>1, <2>1, <2>2 DEF Main, ControlGoes, ResumedBecause
    <3> DEFINE m == tree.subs[q][i]
    <3>2. m \in NodesOf(tree) /\ Frame(m) # Frame(q) /\ <<q, i>> # f
      BY <2>2, FinishAt
    <3>3. state[Frame(m)] = "done" /\ Frame(m) \in FramesOfTree(tree)
      BY <1>1, <3>1, <3>2, FrameKinds DEF Main, FramesWait, ArgumentsEnd
    <3>4. outcome[Frame(m)] # "none"
      BY <3>3 DEF Main, FramesWait, OutcomesKept
    <3>5. index[q] = i \/ outcome[Frame(m)] = "thrown"
      BY <1>1, <2>1, <2>2, <3>2, <3>4 DEF Firsts, FirstComesUp
    <3>6. \A j \in DOMAIN tree.subs[q] : f # <<q, j>>
      BY <2>2, FinishAt
    <3>7. index'[q] = index[q]
      BY <2>1, <3>6, FinishAt
    <3>8. outcome'[Frame(m)] = outcome[Frame(m)]
      BY <2>2, <3>2, FinishAt
    <3> QED
      BY <3>4, <3>5, <3>7, <3>8
  <2>3. CASE state[Frame(q)] = "done"
    <3>1. PICK i \in DOMAIN tree.subs[q] :
            /\ outcome[Frame(tree.subs[q][i])] # "none"
            /\ index[q] = i \/ outcome[Frame(tree.subs[q][i])] = "thrown"
      BY <2>1, <2>3 DEF Firsts, FirstKept
    <3>2. \A j \in DOMAIN tree.subs[q] : f # Frame(tree.subs[q][j]) /\ f # <<q, j>>
      BY <2>1, <2>3, FinishAt
    <3>3. index'[q] = index[q]
      BY <2>1, <3>2, FinishAt
    <3>4. outcome'[Frame(tree.subs[q][i])] = outcome[Frame(tree.subs[q][i])]
      <4>1. tree.subs[q][i] \in NodesOf(tree)
        BY FinishAt
      <4> QED
        BY <3>2, <4>1, FinishAt
    <3> QED
      BY <3>1, <3>3, <3>4
  <2> QED
    BY <2>1, <2>2, <2>3, FinishAt
<1>6. CountsValues(tree, state', outcome', count', running')
  BY FinishCounts
<1>7. LeavesThrow(tree, outcome')
  <2>1. SUFFICES ASSUME NEW m \in NodesOf(tree), tree.kind[m] \in Leaves, outcome'[Frame(m)] = "thrown"
                 PROVE  tree.kind[m] = "fail"
    BY DEF LeavesThrow
  <2>2. Frame(m) \in FramesOfTree(tree) /\ m \notin BodiesOf(tree)
    BY <1>1, <2>1, FrameKinds, KindsApart
  <2>3. outcome'[Frame(m)] = IF Frame(m) = f THEN r ELSE outcome[Frame(m)]
    BY <2>2 DEF FinishIs
  <2>4. CASE Frame(m) = f
    <3>1. r = "thrown"
      BY <2>1, <2>3, <2>4
    <3> QED
      BY <2>2, <2>4, <3>1 DEF Ends
  <2>5. CASE Frame(m) # f
    BY <2>1, <2>3, <2>5 DEF Firsts, LeavesThrow
  <2> QED
    BY <2>4, <2>5
<1>8. outcome'[Frame(Root)] = "none"
  <2>1. Frame(Root) \in FramesOfTree(tree)
    BY <1>1, FrameKinds
  <2> QED
    BY <1>1, <2>1 DEF FinishIs, Firsts
<1> QED
  BY <1>1, <1>2, <1>4, <1>5, <1>6, <1>7, <1>8 DEF Firsts

(* The steps in which no coroutine ends and none is made. *)
LEMMA RestFirsts ==
  ASSUME Inv, Main, Firsts, tree' = tree,
         \A m \in NodesOf(tree) : outcome'[Frame(m)] = outcome[Frame(m)],
         \A q \in Combs(tree) :
           /\ state[Frame(q)] = "suspended" =>
                /\ running # Frame(q)
                /\ \A i \in DOMAIN tree.subs[q] :
                     running = <<q, i>> => outcome[Frame(tree.subs[q][i])] = "none"
           /\ state'[Frame(q)] = "suspended" =>
                /\ running' # Frame(q)
                /\ \/ /\ state[Frame(q)] = "suspended" /\ count'[q] = count[q]
                      /\ \A i \in DOMAIN tree.subs[q] :
                           state[<<q, i>>] = "done" => state'[<<q, i>>] = "done"
                   \/ /\ count'[q] = 0
                      /\ \A i \in DOMAIN tree.subs[q] : outcome[Frame(tree.subs[q][i])] = "none"
           /\ state'[Frame(q)] = "done" => state[Frame(q)] = "done" /\ index'[q] = index[q]
  PROVE  Firsts'
<1>1. tree \in Trees /\ Root \in NodesOf(tree)
  BY InvFacts
<1>2. \A q \in Combs(tree) : \A i \in DOMAIN tree.subs[q] :
        /\ q \in NodesOf(tree) /\ tree.subs[q][i] \in NodesOf(tree)
        /\ outcome'[Frame(tree.subs[q][i])] = outcome[Frame(tree.subs[q][i])]
  <2>1. \A q \in Combs(tree) : q \in NodesOf(tree)
    BY DEF Combs
  <2> QED
    BY <1>1, <2>1, EdgeIs
<1>3. ASSUME NEW q \in Combs(tree), NEW i \in DOMAIN tree.subs[q], tree.kind[q] = "any",
             state'[Frame(q)] = "suspended"
      PROVE  outcome[Frame(tree.subs[q][i])] = "none"
  <2>1. CASE state[Frame(q)] = "suspended"
    BY <1>3, <2>1 DEF Firsts, FirstComesUp
  <2>2. CASE state[Frame(q)] # "suspended"
    BY <1>3, <2>2
  <2> QED
    BY <2>1, <2>2
<1>4. FirstComesUp(tree, state', outcome', index', running')
  BY <1>2, <1>3 DEF FirstComesUp
<1>5. OneEnds(tree, state', outcome')
  <2>1. SUFFICES ASSUME NEW q \in Combs(tree), NEW i \in DOMAIN tree.subs[q], NEW j \in DOMAIN tree.subs[q],
                        tree.kind[q] = "any", state'[Frame(q)] \in {"suspended", "done"},
                        outcome'[Frame(tree.subs[q][i])] # "none", outcome'[Frame(tree.subs[q][j])] # "none"
                 PROVE  i = j
    BY DEF OneEnds
  <2>2. state[Frame(q)] = "done"
    BY <1>2, <1>3, <2>1
  <2> QED
    BY <1>2, <2>1, <2>2 DEF Firsts, OneEnds
<1>6. FirstKept(tree, state', outcome', index')
  <2>1. SUFFICES ASSUME NEW q \in Combs(tree), tree.kind[q] = "any", state'[Frame(q)] = "done",
                        DOMAIN tree.subs[q] # {}
                 PROVE  \E i \in DOMAIN tree.subs[q] :
                          /\ outcome'[Frame(tree.subs[q][i])] # "none"
                          /\ index'[q] = i \/ outcome'[Frame(tree.subs[q][i])] = "thrown"
    BY DEF FirstKept
  <2>2. state[Frame(q)] = "done" /\ index'[q] = index[q]
    BY <2>1
  <2>3. \E i \in DOMAIN tree.subs[q] :
          /\ outcome[Frame(tree.subs[q][i])] # "none"
          /\ index[q] = i \/ outcome[Frame(tree.subs[q][i])] = "thrown"
    BY <2>1, <2>2 DEF Firsts, FirstKept
  <2> QED
    BY <1>2, <2>2, <2>3
<1>7. CountsValues(tree, state', outcome', count', running')
  <2>1. SUFFICES ASSUME NEW q \in Combs(tree), tree.kind[q] = "all", state'[Frame(q)] = "suspended"
                 PROVE  count'[q] <= Cardinality(Counted(tree, state', outcome', q))
    BY DEF CountsValues
  <2>2. CASE count'[q] = 0
    <3>1. Cardinality(Counted(tree, state', outcome', q)) \in Nat
      BY <1>1, CountedFinite
    <3> QED
      BY <2>2, <3>1
  <2>3. CASE /\ state[Frame(q)] = "suspended" /\ count'[q] = count[q]
             /\ \A i \in DOMAIN tree.subs[q] : state[<<q, i>>] = "done" => state'[<<q, i>>] = "done"
    <3>1. Counted(tree, state, outcome, q) \subseteq Counted(tree, state', outcome', q)
      BY <1>2, <2>3 DEF Counted
    <3>2. count[q] <= Cardinality(Counted(tree, state, outcome, q))
      BY <2>1, <2>3 DEF Firsts, CountsValues
    <3>3. count[q] <= Cardinality(Counted(tree, state', outcome', q))
      BY <3>1, <3>2, CountGrows
    <3> QED
      BY <2>3, <3>3
  <2> QED
    BY <2>1, <2>2, <2>3
<1>8. LeavesThrow(tree, outcome')
  BY DEF Firsts, LeavesThrow
<1>9. outcome'[Frame(Root)] = "none"
  BY <1>1 DEF Firsts
<1> QED
  BY <1>4, <1>5, <1>6, <1>7, <1>8, <1>9 DEF Firsts

LEMMA SuspendLeafFirsts ==
  ASSUME Inv, Main, Firsts, NEW n \in NodesOf(tree), SuspendLeaf(n)
  PROVE  Firsts'
<1>1. /\ tree \in Trees /\ n \notin Combs(tree) /\ running = Frame(n) /\ running' = Nobody
      /\ \A m \in NodesOf(tree) : state'[Frame(m)] = IF m = n THEN "suspended" ELSE state[Frame(m)]
      /\ \A q \in Combs(tree) : \A i \in DOMAIN tree.subs[q] :
           <<q, i>> # Frame(n) /\ state'[<<q, i>>] = state[<<q, i>>]
      /\ tree' = tree /\ outcome' = outcome /\ count' = count
  BY SuspendLeafFacts
<1>2. index' = index
  BY DEF SuspendLeaf
<1>3. \A q \in Combs(tree) : /\ q \in NodesOf(tree) /\ q # n /\ Frame(q) # Frame(n) /\ Frame(q) # Nobody
                             /\ state'[Frame(q)] = state[Frame(q)]
  <2>1. \A q \in Combs(tree) : q \in NodesOf(tree) /\ q # n
    BY <1>1 DEF Combs
  <2>2. \A q \in Combs(tree) : Frame(q) # Frame(n) /\ Frame(q) # Nobody
    BY <1>1, <2>1, FrameKinds
  <2> QED
    BY <1>1, <2>1, <2>2
<1> QED
  BY <1>1, <1>2, <1>3, RestFirsts

LEMMA EventFirsts ==
  ASSUME Inv, Main, Firsts, NEW n \in NodesOf(tree), Event(n)
  PROVE  Firsts'
<1>1. /\ tree \in Trees /\ tree.kind[n] \in Leaves /\ running = Nobody /\ running' = Frame(n)
      /\ tree' = tree /\ state' = state /\ outcome' = outcome /\ count' = count
  BY EventFacts
<1>2. index' = index
  BY DEF Event
<1>3. \A q \in Combs(tree) : /\ q \in NodesOf(tree) /\ Frame(q) # Frame(n) /\ Frame(q) # Nobody
                             /\ \A i \in DOMAIN tree.subs[q] : <<q, i>> # Nobody
  <2>1. \A q \in Combs(tree) : q \in NodesOf(tree) /\ q # n
    BY <1>1, KindsApart
  <2>2. \A q \in Combs(tree) : \A i \in DOMAIN tree.subs[q] : <<q, i>> # Nobody
    BY <1>1, FrameKinds
  <2>3. \A q \in Combs(tree) : Frame(q) # Frame(n) /\ Frame(q) # Nobody
    BY <1>1, <2>1, FrameKinds
  <2> QED
    BY <2>1, <2>2, <2>3
<1> QED
  BY <1>1, <1>2, <1>3, RestFirsts

LEMMA ResumeNextFirsts ==
  ASSUME Inv, Main, Firsts, NEW n \in NodesOf(tree), ResumeNext(n)
  PROVE  Firsts'
<1>1. /\ tree \in Trees /\ n \in Combs(tree) /\ running = Nobody
      /\ tree' = tree /\ state' = state /\ outcome' = outcome /\ count' = count
  BY ResumeNextFacts
<1>2. PICK i \in DOMAIN tree.subs[n] : running' = <<n, i>>
  BY ResumeNextFacts
<1>3. index' = index
  BY DEF ResumeNext
<1>4. \A q \in Combs(tree) : /\ q \in NodesOf(tree) /\ Frame(q) # Nobody /\ running' # Frame(q)
                             /\ \A j \in DOMAIN tree.subs[q] : <<q, j>> # Nobody
  <2>1. \A q \in Combs(tree) : q \in NodesOf(tree)
    BY DEF Combs
  <2>2. \A q \in Combs(tree) : \A j \in DOMAIN tree.subs[q] : <<q, j>> # Nobody
    BY <1>1, FrameKinds
  <2>3. \A q \in Combs(tree) : Frame(q) # Nobody
    BY <1>1, <2>1, FrameKinds
  <2>4. \A x : <<n, i>> # Frame(x)
    BY <1>1, NotAFrame
  <2> QED
    BY <1>2, <2>1, <2>2, <2>3, <2>4
<1> QED
  BY <1>1, <1>3, <1>4, RestFirsts

LEMMA StartHelperFirsts ==
  ASSUME Inv, Main, Firsts, NEW n \in Combs(tree), NEW i \in DOMAIN tree.subs[n], StartHelper(n, i)
  PROVE  Firsts'
<1>1. /\ tree \in Trees /\ running = <<n, i>> /\ state[<<n, i>>] = "fresh"
      /\ running' = Frame(tree.subs[n][i]) /\ state[Frame(tree.subs[n][i])] = "fresh"
      /\ \A m \in NodesOf(tree) : state'[Frame(m)] = state[Frame(m)] /\ <<n, i>> # Frame(m)
      /\ state'[<<n, i>>] = "suspended"
      /\ \A q \in Combs(tree) : \A j \in DOMAIN tree.subs[q] :
           <<q, j>> = <<n, i>> \/ state'[<<q, j>>] = state[<<q, j>>]
      /\ tree' = tree /\ outcome' = outcome /\ count' = count
  BY StartHelperFacts
<1>2. index' = index
  BY DEF StartHelper
<1>3. outcome[Frame(tree.subs[n][i])] = "none"
  <2>1. n \in NodesOf(tree)
    BY DEF Combs
  <2>2. tree.subs[n][i] # Root /\ Frame(tree.subs[n][i]) \in FramesOfTree(tree)
    BY <1>1, <2>1, EdgeIs
  <2>3. Frame(tree.subs[n][i]) # Frame(Root)
    BY <2>2 DEF Frame
  <2> QED
    BY <1>1, <2>2, <2>3 DEF Main, FramesWait, OutcomesKept
<1>4. ASSUME NEW q \in Combs(tree)
      PROVE  /\ running # Frame(q) /\ state'[Frame(q)] = state[Frame(q)]
             /\ state'[Frame(q)] = "suspended" => running' # Frame(q)
             /\ \A j \in DOMAIN tree.subs[q] :
                  /\ running = <<q, j>> => outcome[Frame(tree.subs[q][j])] = "none"
                  /\ state[<<q, j>>] = "done" => state'[<<q, j>>] = "done"
  <2>1. q \in NodesOf(tree)
    BY DEF Combs
  <2>2. running # Frame(q) /\ state'[Frame(q)] = state[Frame(q)]
    BY <1>1, <2>1
  <2>3. state'[Frame(q)] = "suspended" => running' # Frame(q)
    BY <1>1, <2>2
  <2>4. ASSUME NEW j \in DOMAIN tree.subs[q], running = <<q, j>> PROVE q = n /\ j = i
    BY <1>1, <2>4
  <2>5. \A j \in DOMAIN tree.subs[q] : running = <<q, j>> => outcome[Frame(tree.subs[q][j])] = "none"
    BY <1>3, <2>4
  <2>6. \A j \in DOMAIN tree.subs[q] : state[<<q, j>>] = "done" => state'[<<q, j>>] = "done"
    BY <1>1
  <2> QED
    BY <2>2, <2>3, <2>5, <2>6
<1> QED
  BY <1>1, <1>2, <1>4, RestFirsts

LEMMA StartCombinatorFirsts ==
  ASSUME Inv, Main, Firsts, NEW n \in NodesOf(tree), StartCombinator(n)
  PROVE  Firsts'
<1>1. /\ tree \in Trees /\ n \in Combs(tree) /\ running = Frame(n) /\ state[Frame(n)] = "fresh"
      /\ running' = <<n, 1>> /\ 1 \in DOMAIN tree.subs[n] /\ tree' = tree
  BY StartCombinatorFacts
<1>2. /\ \A m \in NodesOf(tree) : state'[Frame(m)] = IF m = n THEN "suspended" ELSE state[Frame(m)]
      /\ \A q \in Combs(tree) : \A j \in DOMAIN tree.subs[q] :
           state'[<<q, j>>] = IF q = n THEN "fresh" ELSE state[<<q, j>>]
      /\ \A m \in NodesOf(tree) : outcome'[Frame(m)] = outcome[Frame(m)]
      /\ \A m \in NodesOf(tree) : count'[m] = IF m = n THEN 0 ELSE count[m]
  BY StartCombinatorFacts
<1>3. index' = [index EXCEPT ![n] = 0] /\ index \in [NodesOf(tree) -> Nat]
  BY InvFacts DEF StartCombinator
<1>4. ASSUME NEW q \in Combs(tree)
      PROVE  /\ state[Frame(q)] = "suspended" =>
                  running # Frame(q) /\ \A i \in DOMAIN tree.subs[q] : running # <<q, i>>
             /\ running' # Frame(q)
             /\ q # n => /\ state'[Frame(q)] = state[Frame(q)] /\ count'[q] = count[q] /\ index'[q] = index[q]
                         /\ \A i \in DOMAIN tree.subs[q] : state'[<<q, i>>] = state[<<q, i>>]
  <2>1. \A i \in DOMAIN tree.subs[q] : <<q, i>> # Frame(n)
    BY <1>1, NotAFrame
  <2>2. <<n, 1>> # Frame(q)
    BY <1>1, NotAFrame
  <2>3. q \in NodesOf(tree)
    BY DEF Combs
  <2> QED
    BY <1>1, <1>2, <1>3, <2>1, <2>2, <2>3
<1>5. /\ state'[Frame(n)] = "suspended" /\ count'[n] = 0
      /\ \A i \in DOMAIN tree.subs[n] : outcome[Frame(tree.subs[n][i])] = "none"
  <2>1. \A i \in DOMAIN tree.subs[n] :
          tree.subs[n][i] \in NodesOf(tree) /\ n \in tree.above[tree.subs[n][i]]
    BY <1>1, EdgeIs
  <2>2. state[Frame(n)] \in Unborn
    BY <1>1 DEF Unborn
  <2>3. \A i \in DOMAIN tree.subs[n] : outcome[Frame(tree.subs[n][i])] = "none"
    BY <2>1, <2>2 DEF Main, FramesWait, NothingBelow
  <2> QED
    BY <1>2, <2>3
<1> QED
  BY <1>1, <1>2, <1>4, <1>5, RestFirsts

LEMMA FirstsNext ==
  ASSUME Inv, Main, Firsts, Step
  PROVE  EndRun \/ Terminate \/ Firsts'
<1>1. CASE UNCHANGED vars
  BY <1>1 DEF vars, Firsts
<1>2. ASSUME NEW n \in NodesOf(tree), Awaiting(n) PROVE Firsts'
  BY <1>2, AwaitMain, AwaitFirsts DEF Awaiting
<1>3. ASSUME NEW f, Ending(f) PROVE Firsts'
  BY <1>3, FinishFirsts DEF Ending
<1> QED
  BY <1>1, <1>2, <1>3, SuspendLeafFirsts, EventFirsts, StartCombinatorFirsts, ResumeNextFirsts,
     StartHelperFirsts DEF Step

LEMMA InitFirsts ==
  ASSUME Init
  PROVE  Firsts
<1>1. /\ tree \in Trees /\ Root \in NodesOf(tree)
      /\ \A n \in NodesOf(tree) : state[Frame(n)] \in {"none", "fresh"} /\ outcome[Frame(n)] = "none"
  <2>1. tree \in Trees /\ Inv
    BY InitInv DEF Init
  <2>2. \A f \in FramesOfTree(tree) : state[f] \in {"none", "fresh"} /\ outcome[f] = "none"
    BY DEF Init
  <2> QED
    BY <2>1, <2>2, FrameKinds, InvFacts
<1>2. \A q \in Combs(tree) : state[Frame(q)] \notin {"suspended", "done"}
  BY <1>1 DEF Combs
<1> QED
  BY <1>1, <1>2 DEF Firsts, FirstComesUp, OneEnds, FirstKept, CountsValues, LeavesThrow

LEMMA FirstsStay ==
  ASSUME Inv, AllReturn(tree, state, prev), Over \/ (Main /\ Firsts), [Next]_vars
  PROVE  Over' \/ (Main' /\ Firsts')
<1>1. CASE Over
  BY <1>1, OverEnds DEF vars, Over
<1>2. CASE Main /\ Firsts
  BY <1>2, StepIs, MainNext, FirstsNext, RunEnds
<1> QED
  BY <1>1, <1>2

-----------------------------------------------------------------------------
(* Structured concurrency. The phases of the nodes, and how they change    *)
(* when frames are destroyed.                                              *)
PhaseIn(st, o, m) ==
  IF o[Frame(m)] # "none" THEN o[Frame(m)]
  ELSE IF st[Frame(m)] = "none" THEN "idle"
  ELSE IF st[Frame(m)] = "freed" THEN "dropped" ELSE "open"

LEMMA PhaseIs ==
  ASSUME NEW m
  PROVE  PhaseOf(m) = PhaseIn(state, outcome, m) /\ PhaseOf(m)' = PhaseIn(state', outcome', m)
BY DEF PhaseOf, PhaseIn, Frame

LEMMA PhaseKinds ==
  ASSUME Inv, NEW m \in NodesOf(tree)
  PROVE  /\ outcome[Frame(m)] # "none" =>
              PhaseOf(m) = outcome[Frame(m)] /\ PhaseOf(m) \in {"value", "thrown", "timeout"}
         /\ outcome[Frame(m)] = "none" => PhaseOf(m) \in {"idle", "dropped", "open"}
         /\ outcome[Frame(m)] = "none" /\ state[Frame(m)] \in {"fresh", "suspended"} => PhaseOf(m) = "open"
<1>1. outcome[Frame(m)] \in {"none", "value", "thrown", "timeout"}
  BY InvFacts, FrameKinds
<1> QED
  BY <1>1, PhaseIs DEF PhaseIn

(* What is destroyed while it is open is dropped. *)
LEMMA PhaseChange ==
  ASSUME Inv, NEW m \in NodesOf(tree), NEW freed,
         state'[Frame(m)] = IF Frame(m) \in freed /\ state[Frame(m)] # "none" THEN "freed"
                            ELSE state[Frame(m)],
         outcome'[Frame(m)] = outcome[Frame(m)]
  PROVE  PhaseOf(m)' = IF Frame(m) \in freed /\ PhaseOf(m) = "open" THEN "dropped" ELSE PhaseOf(m)
<1>1. outcome[Frame(m)] \in {"none", "value", "thrown", "timeout"}
  BY InvFacts, FrameKinds
<1> QED
  BY <1>1, PhaseIs DEF PhaseIn

LEMMA AliveOpen ==
  ASSUME Inv, Main, Firsts, NEW n \in NodesOf(tree), state[Frame(n)] \in {"fresh", "suspended"}
  PROVE  outcome[Frame(n)] = "none" /\ PhaseOf(n) = "open"
<1>1. tree \in Trees /\ Frame(n) \in FramesOfTree(tree)
  BY InvFacts, FrameKinds
<1>2. outcome[Frame(n)] = "none"
  BY <1>1 DEF Main, FramesWait, OutcomesKept, Firsts
<1> QED
  BY <1>2, PhaseKinds

(* What a node that ends leaves behind. *)
LEMMA StructuredIs ==
  ASSUME NEW n, NEW k
  PROVE  Structured!Temporaries(n, k) = Temporaries(n, k) /\ Structured!Made(n, k) = Made(n, k)
BY DEF Structured!Temporaries, Structured!Made, Temporaries, Made

LEMMA LeftBody ==
  ASSUME Inv, NEW n \in BodiesOf(tree)
  PROVE  Structured!Left(n) = [m \in NodesOf(tree) |->
           IF at[n] # 0 /\ Frame(m) \in StatementFrames(n) /\ PhaseOf(m) = "open"
           THEN "dropped" ELSE PhaseOf(m)]
<1> DEFINE k == IF tree.kind[n] = "io" THEN 1 ELSE at[n]
           T == Temporaries(n, k)
<1>1. tree \in Trees /\ n \in NodesOf(tree) /\ tree.kind[n] \notin Combinators /\ at \in [NodesOf(tree) -> Nat]
  BY InvFacts, KindsApart DEF Combs
<1>2. Stmt(n) = k
  BY DEF Stmt, Kind
<1>3. \A m \in NodesOf(tree) : Frame(m) \in StatementFrames(n) <=> m \in UNION {tree.inside[x] : x \in T}
  <2>1. \A x \in T : x \in NodesOf(tree)
    BY DEF Temporaries, NodesOf
  <2>2. \A x \in T : \A m \in NodesOf(tree) : Frame(m) \in FramesIn(x) <=> m \in tree.inside[x]
    BY <1>1, <2>1, FramesInIs
  <2>3. StatementFrames(n) = UNION {FramesIn(x) : x \in T}
    BY <1>2 DEF StatementFrames
  <2> QED
    BY <2>2, <2>3
<1>4. [x \in NodesOf(tree) |-> IF tree.kind[x] \in Combinators THEN 0 ELSE at[x]][n] = at[n]
  BY <1>1
<1> DEFINE S == IF at[n] = 0 THEN {} ELSE UNION {tree.inside[x] : x \in T}
<1>5. Structured!Left(n) = [m \in NodesOf(tree) |-> IF m \in S /\ PhaseOf(m) = "open" THEN "dropped" ELSE PhaseOf(m)]
  BY <1>4, StructuredIs DEF Structured!Left, Structured!Open, Structured!Kind, NodesOf, Kind
<1> QED
  BY <1>3, <1>5

(* A node that is no task has no statement to leave. *)
LEMMA LeftOther ==
  ASSUME Inv, NEW n \in NodesOf(tree) \ BodiesOf(tree)
  PROVE  Structured!Left(n) = [m \in NodesOf(tree) |-> PhaseOf(m)]
<1>1. n \in NodesOf(tree) /\ (n \in Combs(tree) \/ tree.kind[n] \in Leaves) /\ tree \in Trees
  BY InvFacts, KindsApart
<1>2. [x \in NodesOf(tree) |-> IF tree.kind[x] \in Combinators THEN 0 ELSE at[x]][n] = 0
  <2>1. CASE n \in Combs(tree)
    BY <1>1, <2>1 DEF Combs
  <2>2. CASE tree.kind[n] \in Leaves
    <3>1. Len(tree.subs[n]) = 0 /\ tree.kind[n] # "io"
      BY <1>1, <2>2, TreeNodes DEF Leaves
    <3>2. at[n] \in Nat /\ at[n] <= 0
      BY <1>1, <3>1 DEF Inv, TypeInv, Bounded
    <3> QED
      BY <1>1, <3>2
  <2> QED
    BY <1>1, <2>1, <2>2
<1>3. \A m \in NodesOf(tree) : [x \in NodesOf(tree) |-> PhaseOf(x)][m] = PhaseOf(m)
  OBVIOUS
<1> QED
  BY <1>2, <1>3 DEF Structured!Left, Structured!Open, NodesOf, Kind

(* A node ends. *)
LEMMA EndAsIs ==
  ASSUME Inv, NEW n \in NodesOf(tree), NEW r, NEW left,
         Structured!Left(n) = [m \in NodesOf(tree) |-> left[m]],
         PhaseOf(n) = "open", tree' = tree, at' = at,
         \A m \in NodesOf(tree) : PhaseOf(m)' = IF m = n THEN r ELSE left[m]
  PROVE  Structured!EndAs(n, r)
<1>1. [m \in NodesOf(tree) |-> PhaseOf(m)][n] = "open"
  OBVIOUS
<1>2. [m \in NodesOf(tree') |-> PhaseOf(m)'] = [[m \in NodesOf(tree) |-> left[m]] EXCEPT ![n] = r]
  OBVIOUS
<1> QED
  BY <1>1, <1>2 DEF Structured!EndAs, Structured!Open, NodesOf, Kind

LEMMA EndPhase ==
  ASSUME Inv, NEW n \in NodesOf(tree), NEW r \in {"value", "thrown", "timeout"}, NEW freed, NEW next,
         FinishTo(Frame(n), r, freed, next)
  PROVE  \A m \in NodesOf(tree) :
           PhaseOf(m)' = IF m = n THEN r
                         ELSE IF Frame(m) \in freed /\ PhaseOf(m) = "open" THEN "dropped" ELSE PhaseOf(m)
<1>1. /\ tree \in Trees
      /\ \A g \in FramesOfTree(tree) :
              /\ state'[g] = IF g = Frame(n) THEN "done"
                             ELSE IF g \in freed /\ state[g] # "none" THEN "freed" ELSE state[g]
              /\ outcome'[g] = IF g = Frame(n) THEN r ELSE outcome[g]
  BY InvFacts, FinishFacts, FrameKinds
<1>2. SUFFICES ASSUME NEW m \in NodesOf(tree)
               PROVE  PhaseOf(m)' = IF m = n THEN r
                         ELSE IF Frame(m) \in freed /\ PhaseOf(m) = "open" THEN "dropped" ELSE PhaseOf(m)
  OBVIOUS
<1>3. Frame(m) \in FramesOfTree(tree) /\ (Frame(m) = Frame(n) <=> m = n)
  BY <1>1, FrameKinds
<1>4. CASE m = n
  BY <1>1, <1>3, <1>4, PhaseIs DEF PhaseIn
<1>5. CASE m # n
  BY <1>1, <1>3, <1>5, PhaseChange
<1> QED
  BY <1>4, <1>5

LEMMA BodyEndsAs ==
  ASSUME Inv, Main, Firsts, NEW n \in BodiesOf(tree), state[Frame(n)] = "suspended", at[n] # 0,
         NEW r \in {"value", "thrown", "timeout"}, Return(n, r)
  PROVE  Structured!EndAs(n, r)
<1> DEFINE left == [m \in NodesOf(tree) |->
           IF at[n] # 0 /\ Frame(m) \in StatementFrames(n) /\ PhaseOf(m) = "open"
           THEN "dropped" ELSE PhaseOf(m)]
<1>1. n \in NodesOf(tree) /\ FinishTo(Frame(n), r, StatementFrames(n), prev[Frame(n)]) /\ tree' = tree /\ at' = at
  BY DEF Return, Finish, BodiesOf
<1>2. PhaseOf(n) = "open"
  BY <1>1, AliveOpen
<1>3. \A m \in NodesOf(tree) :
           PhaseOf(m)' = IF m = n THEN r
                         ELSE IF Frame(m) \in StatementFrames(n) /\ PhaseOf(m) = "open" THEN "dropped" ELSE PhaseOf(m)
  BY <1>1, EndPhase
<1>4. Structured!Left(n) = left
  BY LeftBody
<1>5. left = [m \in NodesOf(tree) |-> left[m]]
  OBVIOUS
<1>6. \A m \in NodesOf(tree) : PhaseOf(m)' = IF m = n THEN r ELSE left[m]
  BY <1>3
<1> HIDE DEF left
<1> QED
  BY <1>1, <1>2, <1>4, <1>5, <1>6, EndAsIs

LEMMA NodeEndsAs ==
  ASSUME Inv, Main, Firsts, NEW n \in NodesOf(tree) \ BodiesOf(tree),
         state[Frame(n)] \in {"fresh", "suspended"},
         NEW r \in {"value", "thrown", "timeout"}, NEW freed, Finish(Frame(n), r, freed),
         \A m : Frame(m) \notin freed, tree' = tree, at' = at
  PROVE  Structured!EndAs(n, r)
<1> DEFINE left == [m \in NodesOf(tree) |-> PhaseOf(m)]
<1>1. n \in NodesOf(tree) /\ FinishTo(Frame(n), r, freed, prev[Frame(n)])
  BY DEF Finish
<1>2. PhaseOf(n) = "open"
  BY <1>1, AliveOpen
<1>3. \A m \in NodesOf(tree) : PhaseOf(m)' = IF m = n THEN r ELSE PhaseOf(m)
  BY <1>1, EndPhase
<1>4. Structured!Left(n) = left
  BY LeftOther
<1>5. left = [m \in NodesOf(tree) |-> left[m]]
  OBVIOUS
<1>6. \A m \in NodesOf(tree) : PhaseOf(m)' = IF m = n THEN r ELSE left[m]
  BY <1>3
<1> HIDE DEF left
<1> QED
  BY <1>1, <1>2, <1>4, <1>5, <1>6, EndAsIs

(* How a task begins a statement. *)
LEMMA AwaitPhase ==
  ASSUME Inv, Main, Firsts, NEW n \in BodiesOf(tree), state[Frame(n)] \in {"fresh", "suspended"},
         NEW k \in Nat, NEW i \in Nat, i \in DOMAIN tree.subs[n],
         tree.kind[n] = "io" => i = 1, tree.kind[n] # "io" => i = k,
         NEW freed, Await(n, k, freed)
  PROVE  /\ tree.stmt[tree.subs[n][i]] = i /\ n \notin Made(n, i)
         /\ \A m \in NodesOf(tree) :
              PhaseOf(m)' = IF m \in Made(n, i) THEN "open"
                            ELSE IF Frame(m) \in freed /\ m # n /\ PhaseOf(m) = "open" THEN "dropped"
                            ELSE PhaseOf(m)
<1>1. tree \in Trees /\ n \in NodesOf(tree) /\ n \notin Combs(tree)
  BY InvFacts, KindsApart
<1>2. tree.stmt[tree.subs[n][i]] = i
  BY <1>1, EdgeIs
<1>3. i \in Nat \ {0}
  BY <1>1, TreeNodes
<1>4. n \notin Made(n, i) /\ Made(n, i) \subseteq NodesOf(tree)
  BY <1>1, <1>3, MadeFacts, TreeAbove
<1> DEFINE M == Made(n, i)
           F == {Frame(m) : m \in M}
<1>5. tree.stmt[Subs(n)[IF Kind(n) = "io" THEN 1 ELSE k]] = i
  BY <1>2 DEF Subs, Kind
<1>6. /\ state' = [g \in Frames |->
                     IF g = Frame(n) THEN "suspended"
                     ELSE IF g \in F THEN "fresh"
                     ELSE IF g \in freed /\ state[g] # "none" THEN "freed" ELSE state[g]]
      /\ outcome' = [f \in Frames |-> IF f \in F THEN "none" ELSE outcome[f]]
  BY <1>5 DEF Await, Become
<1>7. \A m \in NodesOf(tree) : Frame(m) \in Frames /\ (Frame(m) \in F <=> m \in M)
  <2>1. ASSUME NEW m \in NodesOf(tree) PROVE Frame(m) \in Frames
    BY <1>1, FrameKinds DEF Frames
  <2>2. ASSUME NEW m \in NodesOf(tree) PROVE Frame(m) \in F <=> m \in M
    BY DEF Frame
  <2> QED
    BY <2>1, <2>2
<1> HIDE DEF M, F
<1>8. ASSUME NEW m \in NodesOf(tree)
      PROVE  PhaseOf(m)' = IF m \in M THEN "open"
                            ELSE IF Frame(m) \in freed /\ m # n /\ PhaseOf(m) = "open" THEN "dropped"
                            ELSE PhaseOf(m)
  <2>1. Frame(m) = Frame(n) <=> m = n
    BY DEF Frame
  <2>2. CASE m \in M
    <3>1. m # n
      BY <1>4, <2>2 DEF M
    <3>2. state'[Frame(m)] = "fresh" /\ outcome'[Frame(m)] = "none"
      BY <1>6, <1>7, <2>1, <2>2, <3>1
    <3> QED
      BY <2>2, <3>2, PhaseIs DEF PhaseIn
  <2>3. CASE m = n
    <3>1. n \notin M
      BY <1>4 DEF M
    <3>2. state'[Frame(n)] = "suspended" /\ outcome'[Frame(n)] = outcome[Frame(n)]
      BY <1>1, <1>6, <1>7, <3>1
    <3>3. outcome[Frame(n)] = "none" /\ PhaseOf(n) = "open"
      BY <1>1, AliveOpen
    <3>4. PhaseOf(n)' = "open"
      BY <3>2, <3>3, PhaseIs DEF PhaseIn
    <3> QED
      BY <2>3, <3>1, <3>3, <3>4
  <2>4. CASE m \notin M /\ m # n
    <3>1. /\ state'[Frame(m)] = IF Frame(m) \in freed /\ state[Frame(m)] # "none" THEN "freed"
                            ELSE state[Frame(m)]
          /\ outcome'[Frame(m)] = outcome[Frame(m)]
      BY <1>6, <1>7, <2>1, <2>4
    <3>2. PhaseOf(m)' = IF Frame(m) \in freed /\ PhaseOf(m) = "open" THEN "dropped" ELSE PhaseOf(m)
      BY <3>1, PhaseChange
    <3> QED
      BY <2>4, <3>2
  <2> QED
    BY <2>2, <2>3, <2>4
<1> QED
  BY <1>2, <1>4, <1>8 DEF M

(* Of the arguments of a combinator, those that have ended; a wait for a   *)
(* file that the timer has ended.                                          *)
EndedOf(q) == {i \in DOMAIN tree.subs[q] : PhaseOf(tree.subs[q][i]) \in {"value", "thrown", "timeout"}}
TimerFirst(n) ==
  tree.kind[n] = "io" /\ tree.kind[tree.subs[n][1]] = "any" /\ EndedOf(tree.subs[n][1]) = {2}

LEMMA StructuredEnds ==
  ASSUME tree \in Trees, NEW n \in NodesOf(tree)
  PROVE  /\ Structured!Ended(n) <=> PhaseOf(n) \in {"value", "thrown", "timeout"}
         /\ Structured!Over(n) = EndedOf(n)
         /\ Structured!TimedOut(n) <=> TimerFirst(n)
<1>1. \A m \in NodesOf(tree) : [x \in NodesOf(tree) |-> PhaseOf(x)][m] = PhaseOf(m)
  OBVIOUS
<1>2. \A q \in NodesOf(tree) : \A i \in DOMAIN tree.subs[q] : tree.subs[q][i] \in NodesOf(tree)
  BY EdgeIs
<1>3. \A q \in NodesOf(tree) : Structured!Over(q) = EndedOf(q)
  BY <1>1, <1>2 DEF Structured!Over, Structured!Ended, Structured!Endings, Structured!Subs, EndedOf, NodesOf
<1>4. Structured!Ended(n) <=> PhaseOf(n) \in {"value", "thrown", "timeout"}
  BY <1>1 DEF Structured!Ended, Structured!Endings, NodesOf
<1>5. Structured!TimedOut(n) <=> TimerFirst(n)
  <2>1. SUFFICES ASSUME tree.kind[n] = "io" PROVE Structured!TimedOut(n) <=> TimerFirst(n)
    BY DEF Structured!TimedOut, Structured!Kind, TimerFirst
  <2>2. tree.subs[n][1] \in NodesOf(tree)
    <3>1. 1 \in DOMAIN tree.subs[n]
      BY <2>1, TreeNodes
    <3> QED
      BY <1>2, <3>1
  <2>3. Structured!Over(tree.subs[n][1]) = EndedOf(tree.subs[n][1])
    BY <1>3, <2>2
  <2> QED
    BY <2>3 DEF Structured!TimedOut, Structured!Kind, Structured!Subs, TimerFirst
<1> QED
  BY <1>3, <1>4, <1>5

LEMMA StepMaps ==
  ASSUME Inv, Main, Firsts, NEW n \in BodiesOf(tree), state[Frame(n)] \in {"fresh", "suspended"},
         tree.kind[n] = "io" => at[n] < MaxTries, tree.kind[n] # "io" => at[n] < Len(tree.subs[n]),
         NEW k \in Nat, k = at[n] + 1,
         NEW i \in Nat, tree.kind[n] = "io" => i = 1, tree.kind[n] # "io" => i = k,
         NEW S, at[n] = 0 => S = {}, at[n] # 0 => S = StatementFrames(n), Await(n, k, S),
         at[n] # 0 => PhaseOf(Awaited(n)) \in {"value", "timeout"} /\ ~TimerFirst(n)
  PROVE  Structured!Step(n)
<1> DEFINE left == [m \in NodesOf(tree) |->
                     IF at[n] # 0 /\ Frame(m) \in StatementFrames(n) /\ PhaseOf(m) = "open"
                     THEN "dropped" ELSE PhaseOf(m)]
<1>1. /\ tree \in Trees /\ n \in NodesOf(tree) /\ n \notin Combs(tree) /\ at[n] \in Nat
      /\ tree.kind[n] \in {"run", "task", "io"}
  BY InvFacts, KindsApart DEF BodiesOf, Bodies
<1>4. i \in DOMAIN tree.subs[n]
  BY <1>1, TreeNodes
<1>7. at[n] # 0 => Frame(n) \notin StatementFrames(n)
  <2>1. at[n] # 0 => Current(tree, at, n) # 0
    BY DEF Current
  <2> QED
    BY <2>1, SweptStatement DEF Swept
<1>8. PhaseOf(n) = "open"
  BY <1>1, AliveOpen
<1>9. tree' = tree /\ at' = [at EXCEPT ![n] = k] /\ at \in [NodesOf(tree) -> Nat]
  BY InvFacts DEF Await
<1>10. /\ tree.stmt[tree.subs[n][i]] = i /\ n \notin Made(n, i)
       /\ \A m \in NodesOf(tree) :
              PhaseOf(m)' = IF m \in Made(n, i) THEN "open"
                            ELSE IF Frame(m) \in S /\ m # n /\ PhaseOf(m) = "open" THEN "dropped"
                            ELSE PhaseOf(m)
  <2>1. (tree.kind[n] = "io" => i = 1) /\ (tree.kind[n] # "io" => i = k)
    OBVIOUS
  <2> QED
    BY <1>4, <2>1, AwaitPhase
<1>11. \A m \in NodesOf(tree) : PhaseOf(m)' = IF m \in Made(n, i) THEN "open" ELSE left[m]
  BY <1>7, <1>10
<1>12. Structured!Left(n) = left
  BY LeftBody
<1> HIDE DEF left
<1>13. Structured!Statement(n, k) = tree.subs[n][i] /\ tree.stmt[Structured!Statement(n, k)] = i
  BY <1>10 DEF Structured!Statement, Structured!Subs, Structured!Kind
<1>14. Structured!Statement(n, at[n]) = Awaited(n)
  BY DEF Structured!Statement, Structured!Subs, Structured!Kind, Awaited, Stmt, Subs, Kind
<1>15. [x \in NodesOf(tree) |-> IF Kind(x) \in Combinators THEN 0 ELSE at[x]][n] = at[n]
  BY <1>1 DEF Kind, Combs
<1>16. [x \in NodesOf(tree) |-> PhaseOf(x)][n] = "open"
  BY <1>1, <1>8
<1>17. at[n] # 0 => Awaited(n) \in NodesOf(tree)
  <2>1. at[n] # 0 => Stmt(n) \in DOMAIN tree.subs[n]
    <3>1. at[n] # 0 => Stmt(n) \in 1 .. Len(tree.subs[n])
      <4>1. Len(tree.subs[n]) \in Nat /\ (tree.kind[n] = "io" => Len(tree.subs[n]) = 1)
        BY <1>1, TreeNodes
      <4>2. tree.kind[n] # "io" => at[n] < Len(tree.subs[n])
        OBVIOUS
      <4>3. Stmt(n) = IF tree.kind[n] = "io" THEN 1 ELSE at[n]
        BY DEF Stmt, Kind
      <4>4. CASE tree.kind[n] = "io"
        BY <4>1, <4>3, <4>4
      <4>5. CASE tree.kind[n] # "io"
        BY <1>1, <4>1, <4>2, <4>3, <4>5
      <4> QED
        BY <4>4, <4>5
    <3> QED
      BY <1>1, <3>1, TreeNodes
  <2> QED
    BY <1>1, <2>1, TreeSubs DEF Awaited, Subs
<1>18. Structured!Begin(n, k)
  <2>1. [x \in NodesOf(tree') |-> IF Kind(x)' \in Combinators THEN 0 ELSE at'[x]]
          = [[x \in NodesOf(tree) |-> IF Kind(x) \in Combinators THEN 0 ELSE at[x]] EXCEPT ![n] = k]
    BY <1>1, <1>9 DEF Kind, Combs
  <2>2. [x \in NodesOf(tree') |-> PhaseOf(x)']
          = [m \in NodesOf(tree) |-> IF m \in Made(n, i) THEN "open" ELSE left[m]]
    BY <1>9, <1>11
  <2>3. Structured!Made(n, tree.stmt[Structured!Statement(n, k)]) = Made(n, i)
    BY <1>13, StructuredIs
  <2> QED
    BY <1>9, <1>12, <2>1, <2>2, <2>3 DEF Structured!Begin, NodesOf, Kind
<1>19. at[n] > 0 => Structured!Ended(Structured!Statement(n, at[n]))
                    /\ [x \in NodesOf(tree) |-> PhaseOf(x)][Structured!Statement(n, at[n])] # "thrown"
                    /\ ~Structured!TimedOut(n)
  <2>1. SUFFICES ASSUME at[n] > 0
                 PROVE  /\ Structured!Ended(Awaited(n)) /\ ~Structured!TimedOut(n)
                        /\ [x \in NodesOf(tree) |-> PhaseOf(x)][Awaited(n)] # "thrown"
    BY <1>14
  <2>2. PhaseOf(Awaited(n)) \in {"value", "timeout"} /\ Awaited(n) \in NodesOf(tree) /\ ~TimerFirst(n)
    BY <1>1, <1>17, <2>1
  <2>3. Structured!Ended(Awaited(n)) <=> PhaseOf(Awaited(n)) \in {"value", "thrown", "timeout"}
    BY <1>1, <2>2, StructuredEnds
  <2>4. Structured!TimedOut(n) <=> TimerFirst(n)
    BY <1>1, StructuredEnds
  <2> QED
    BY <2>2, <2>3, <2>4
<1> QED
  <2>1. Structured!Kind(n) = tree.kind[n] /\ Structured!Subs(n) = tree.subs[n]
    BY DEF Structured!Kind, Structured!Subs
  <2>2. Structured!Open(n)
    BY <1>16 DEF Structured!Open, NodesOf
  <2>3. /\ tree.kind[n] \in {"run", "task", "io"}
        /\ at[n] < IF tree.kind[n] = "io" THEN MaxTries ELSE Len(tree.subs[n])
    BY <1>1
  <2> DEFINE mat == [x \in DOMAIN tree.kind |-> IF Kind(x) \in Combinators THEN 0 ELSE at[x]]
             ph == [x \in DOMAIN tree.kind |-> PhaseOf(x)]
  <2>5. mat[n] = at[n] /\ mat[n] + 1 = k
    BY <1>15 DEF NodesOf
  <2>4. Structured!Begin(n, mat[n] + 1)
    BY <1>9, <1>18, <2>5 DEF Structured!Begin
  <2>6. mat[n] > 0 => Structured!Ended(Structured!Statement(n, mat[n]))
                    /\ ph[Structured!Statement(n, mat[n])] # "thrown" /\ ~Structured!TimedOut(n)
    BY <1>19, <2>5 DEF NodesOf
  <2>7. /\ Structured!Kind(n) \in {"run", "task", "io"}
        /\ mat[n] < IF Structured!Kind(n) = "io" THEN MaxTries ELSE Len(Structured!Subs(n))
    BY <2>1, <2>3, <2>5
  <2> QED
    BY <2>2, <2>4, <2>6, <2>7 DEF Structured!Step, Structured!Begin

(* The timer of a wait has ended first if when_any says so. *)
LEMMA TimerIs ==
  ASSUME Inv, Main, Firsts, NEW n \in BodiesOf(tree), tree.kind[n] = "io", Resumed(Frame(n))
  PROVE  TimerFirst(n) <=> TimedOut(n)
<1> DEFINE e == tree.subs[n][1]
<1>1. /\ tree \in Trees /\ n \in NodesOf(tree) /\ index \in [NodesOf(tree) -> Nat]
      /\ \A x \in NodesOf(tree) : index[x] <= Len(tree.subs[x])
  BY InvFacts DEF BodiesOf, Inv, TypeInv, Bounded
<1>2. 1 \in DOMAIN tree.subs[n] /\ Awaited(n) = e
  <2>1. Len(tree.subs[n]) = 1 /\ DOMAIN tree.subs[n] = 1 .. Len(tree.subs[n])
    BY <1>1, TreeNodes
  <2> QED
    BY <2>1 DEF Awaited, Stmt, Subs, Kind
<1>3. e \in NodesOf(tree) /\ state[Frame(e)] = "done"
  <2>1. Current(tree, at, n) = 1
    BY DEF Current
  <2> QED
    BY <1>1, <1>2, <2>1, BodyAwaits, EdgeIs
<1>4. TimedOut(n) <=> index[e] = 2
  BY <1>2 DEF TimedOut
<1>5. TimerFirst(n) <=> tree.kind[e] = "any" /\ EndedOf(e) = {2}
  BY DEF TimerFirst
<1>6. CASE tree.kind[e] = "any"
  <2>1. n \in TimedWaits(tree)
    BY <1>1, <1>6 DEF TimedWaits, WaitOf
  <2>2. /\ e \in Combs(tree) \ {Root} /\ DOMAIN tree.subs[e] = {1, 2} /\ tree.owner[e] = n
        /\ \A x \in NodesOf(tree) \ {Root} :
             tree.owner[x] = n => x = e \/ tree.kind[x] \in {"event", "timer"}
    <3>1. LET w == WaitOf(tree, n) IN
          /\ w \in Combs(tree) \ {Root} /\ DOMAIN tree.subs[w] = {1, 2} /\ tree.owner[w] = n
          /\ \A x \in NodesOf(tree) \ {Root} :
               tree.owner[x] = n => x = w \/ tree.kind[x] \in {"event", "timer"}
      BY <1>1, <2>1, TimedWait
    <3> QED
      BY <3>1 DEF WaitOf
  <2> HIDE DEF e
  <2>3. ASSUME NEW i \in DOMAIN tree.subs[e]
        PROVE  /\ tree.subs[e][i] \in NodesOf(tree)
               /\ outcome[Frame(tree.subs[e][i])] # "thrown"
               /\ PhaseOf(tree.subs[e][i]) \in {"value", "thrown", "timeout"} <=>
                    outcome[Frame(tree.subs[e][i])] # "none"
    <3>1. /\ tree.subs[e][i] \in NodesOf(tree) \ {Root} /\ tree.subs[e][i] # e
          /\ tree.owner[tree.subs[e][i]] = n
      <4>1. e \in NodesOf(tree) /\ tree.kind[e] \in Combinators
        BY <2>2 DEF Combs
      <4>2. tree.owner[tree.subs[e][i]] = tree.owner[e]
        BY <1>1, <4>1, TreeSubs
      <4>3. tree.subs[e][i] \in NodesOf(tree) \ {Root} /\ tree.subs[e][i] # e
        BY <1>1, <4>1, EdgeIs
      <4> QED
        BY <2>2, <4>2, <4>3
    <3>2. tree.kind[tree.subs[e][i]] \in {"event", "timer"}
      BY <2>2, <3>1
    <3>3. outcome[Frame(tree.subs[e][i])] # "thrown"
      BY <3>1, <3>2 DEF Firsts, LeavesThrow, Leaves
    <3> QED
      BY <3>1, <3>3, PhaseKinds
  <2>4. \E i \in DOMAIN tree.subs[e] :
          outcome[Frame(tree.subs[e][i])] # "none" /\ (index[e] = i \/ outcome[Frame(tree.subs[e][i])] = "thrown")
    BY <1>3, <1>6, <2>2 DEF Firsts, FirstKept
  <2>5. PICK i \in DOMAIN tree.subs[e] : outcome[Frame(tree.subs[e][i])] # "none" /\ index[e] = i
    BY <2>3, <2>4
  <2>6. \A j \in DOMAIN tree.subs[e] : outcome[Frame(tree.subs[e][j])] # "none" => j = i
    BY <1>3, <1>6, <2>2, <2>5 DEF Firsts, OneEnds
  <2>7. EndedOf(e) = {i}
    BY <2>3, <2>5, <2>6 DEF EndedOf
  <2> QED
    BY <1>4, <1>5, <1>6, <2>2, <2>5, <2>7
<1>7. CASE tree.kind[e] # "any"
  <2>1. tree.kind[e] = "event"
    <3>1. IsWait(tree, n)
      BY <1>1, TreesAssumption DEF IsTree, NodesOf
    <3> QED
      BY <1>7, <3>1 DEF IsWait
  <2>2. Len(tree.subs[e]) = 0
    <3>1. tree.subs[e] = <<>>
      BY <1>1, <1>3, <2>1, TreeNodes DEF Leaves
    <3> QED
      BY <3>1
  <2>3. index[e] \in Nat /\ index[e] <= 0
    BY <1>1, <1>3, <2>2
  <2> QED
    BY <1>4, <1>5, <1>7, <2>3
<1> QED
  BY <1>6, <1>7

(* What a task that goes on has awaited. *)
LEMMA AwaitedEnded ==
  ASSUME Inv, Main, NEW n \in BodiesOf(tree), Resumed(Frame(n))
  PROVE  /\ Awaited(n) \in NodesOf(tree) /\ at[n] # 0
         /\ PhaseOf(Awaited(n)) = outcome[Frame(Awaited(n))]
         /\ PhaseOf(Awaited(n)) \in {"value", "thrown", "timeout"}
<1> DEFINE k == Current(tree, at, n)
<1>1. tree \in Trees /\ n \in NodesOf(tree)
  BY InvFacts DEF BodiesOf
<1>2. k \in DOMAIN tree.subs[n] /\ Awaited(n) = tree.subs[n][k] /\ outcome[Frame(tree.subs[n][k])] # "none"
  BY BodyAwaits
<1>3. Awaited(n) \in NodesOf(tree) /\ outcome[Frame(Awaited(n))] # "none"
  BY <1>1, <1>2, EdgeIs
<1>4. at[n] # 0
  BY DEF Resumed, Main, FramesWait, StatementsEnded
<1> QED
  BY <1>3, <1>4, PhaseKinds

LEMMA AwaitMaps ==
  ASSUME Inv, Main, Firsts, NEW n \in NodesOf(tree), StartTask(n) \/ NextStatement(n) \/ Retry(n)
  PROVE  Structured!Step(n)
<1>1. /\ tree \in Trees /\ n \in BodiesOf(tree) /\ at \in [NodesOf(tree) -> Nat]
      /\ tree.kind[n] \in {"task", "io", "run"}
  BY InvFacts DEF StartTask, NextStatement, Retry, Waited, BodiesOf, Bodies, Kind
<1>2. Len(tree.subs[n]) \in Nat \ {0}
  <2>1. tree.subs[n] \in Seq(NodesOf(tree)) /\ Len(tree.subs[n]) \in Nat
    BY <1>1, TreeNodes
  <2>2. tree.kind[n] \in {"run", "io"} => Len(tree.subs[n]) = 1
    BY <1>1, TreeNodes
  <2>3. tree.kind[n] = "task" => tree.subs[n] # <<>>
    BY <1>1, TreeNodes
  <2>4. tree.subs[n] # <<>> => Len(tree.subs[n]) # 0
    BY <2>1
  <2>5. CASE tree.kind[n] = "task"
    BY <2>1, <2>3, <2>4, <2>5
  <2>6. CASE tree.kind[n] \in {"run", "io"}
    <3>1. Len(tree.subs[n]) = 1
      BY <2>2, <2>6
    <3>2. Len(tree.subs[n]) # 0
      BY <3>1
    <3> QED
      BY <2>1, <3>2
  <2> QED
    BY <1>1, <2>5, <2>6
<1>3. MaxTries \in Nat \ {0}
  BY TreesAssumption
<1>4. CASE StartTask(n)
  <2>1. state[Frame(n)] = "fresh" /\ Await(n, 1, {})
    BY <1>4 DEF StartTask, Entered
  <2>2. at[n] = 0
    BY <1>1, <2>1 DEF Inv, MakingInv, MadeInTurn, BodiesOf, Unborn
  <2>3. 1 = at[n] + 1
    BY <2>2
  <2>4. tree.kind[n] = "io" => at[n] < MaxTries
    BY <1>3, <2>2
  <2>5. tree.kind[n] # "io" => at[n] < Len(tree.subs[n])
    BY <1>2, <2>2
  <2> QED
    BY <1>1, <2>1, <2>2, <2>3, <2>4, <2>5, StepMaps
<1>5. CASE NextStatement(n)
  <2>1. /\ state[Frame(n)] = "suspended" /\ Resumed(Frame(n)) /\ tree.kind[n] = "task"
        /\ Await(n, at[n] + 1, StatementFrames(n)) /\ at[n] < Len(tree.subs[n])
        /\ outcome[Frame(Awaited(n))] # "thrown"
    BY <1>5 DEF NextStatement, Resumed, Kind, Subs
  <2>2. at[n] # 0 /\ PhaseOf(Awaited(n)) \in {"value", "timeout"}
    BY <1>1, <2>1, AwaitedEnded
  <2>3. ~TimerFirst(n)
    BY <2>1 DEF TimerFirst
  <2>4. at[n] + 1 \in Nat
    BY <1>1 DEF BodiesOf
  <2> QED
    BY <1>1, <2>1, <2>2, <2>3, <2>4, StepMaps
<1>6. CASE Retry(n)
  <2>1. /\ state[Frame(n)] = "suspended" /\ Resumed(Frame(n)) /\ tree.kind[n] = "io"
        /\ Await(n, at[n] + 1, StatementFrames(n)) /\ at[n] < MaxTries
        /\ outcome[Frame(Awaited(n))] # "thrown" /\ ~TimedOut(n)
    BY <1>6 DEF Retry, Waited, Resumed, Kind
  <2>2. at[n] # 0 /\ PhaseOf(Awaited(n)) \in {"value", "timeout"}
    BY <1>1, <2>1, AwaitedEnded
  <2>3. ~TimerFirst(n)
    BY <1>1, <2>1, TimerIs
  <2>4. at[n] + 1 \in Nat
    BY <1>1 DEF BodiesOf
  <2> QED
    BY <1>1, <2>1, <2>2, <2>3, <2>4, StepMaps
<1> QED
  BY <1>4, <1>5, <1>6

(* How a task ends. *)
LEMMA EndTaskMaps ==
  ASSUME Inv, Main, Firsts, NEW n \in BodiesOf(tree), Resumed(Frame(n)),
         NEW r \in {"value", "thrown", "timeout"},
         PhaseOf(Awaited(n)) = "thrown" => r = "thrown",
         PhaseOf(Awaited(n)) # "thrown" =>
           \/ TimerFirst(n) /\ r = "timeout"
           \/ /\ ~TimerFirst(n) /\ r = "value"
              /\ tree.kind[n] = "io" \/ at[n] = Len(tree.subs[n]),
         IF n = Root /\ r = "thrown" THEN Structured!Abort ELSE Structured!EndAs(n, r)
  PROVE  Structured!EndTask(n)
<1> DEFINE mat == [x \in DOMAIN tree.kind |-> IF Kind(x) \in Combinators THEN 0 ELSE at[x]]
           ph == [x \in DOMAIN tree.kind |-> PhaseOf(x)]
           e == Structured!Statement(n, mat[n])
<1>1. /\ tree \in Trees /\ n \in NodesOf(tree) /\ n \notin Combs(tree) /\ at[n] \in Nat
      /\ tree.kind[n] \in {"run", "task", "io"}
  BY InvFacts, KindsApart DEF BodiesOf, Bodies
<1>2. /\ Awaited(n) \in NodesOf(tree) /\ at[n] # 0
      /\ PhaseOf(Awaited(n)) \in {"value", "thrown", "timeout"}
  BY AwaitedEnded
<1>3. mat[n] = at[n]
  BY <1>1 DEF Kind, Combs, NodesOf
<1>4. mat[n] > 0
  BY <1>1, <1>2, <1>3
<1>5. e = Awaited(n)
  BY <1>3 DEF Structured!Statement, Structured!Subs, Structured!Kind, Awaited, Stmt, Subs, Kind
<1>6. ph[e] = PhaseOf(Awaited(n))
  BY <1>2, <1>5 DEF NodesOf
<1>7. Structured!Ended(e)
  BY <1>2, <1>6 DEF Structured!Ended, Structured!Endings
<1>8. Structured!TimedOut(n) <=> TimerFirst(n)
  BY <1>1, StructuredEnds
<1>9. /\ Structured!Kind(n) \in {"run", "task", "io"}
      /\ tree.kind[n] = "io" \/ at[n] = Len(tree.subs[n])
           => Structured!Kind(n) = "io" \/ mat[n] = Len(Structured!Subs(n))
  BY <1>1, <1>3 DEF Structured!Kind, Structured!Subs
<1> HIDE DEF mat, ph, e
<1>10. \/ ph[e] = "thrown" /\ IF n = Root THEN Structured!Abort ELSE Structured!EndAs(n, "thrown")
       \/ ph[e] # "thrown" /\ Structured!TimedOut(n) /\ Structured!EndAs(n, "timeout")
       \/ /\ ph[e] # "thrown" /\ ~Structured!TimedOut(n)
          /\ Structured!Kind(n) = "io" \/ mat[n] = Len(Structured!Subs(n))
          /\ Structured!EndAs(n, "value")
  <2>1. CASE PhaseOf(Awaited(n)) = "thrown"
    BY <1>6, <2>1 DEF Structured!EndAs, Structured!Abort
  <2>2. CASE PhaseOf(Awaited(n)) # "thrown" /\ TimerFirst(n)
    BY <1>6, <1>8, <2>2 DEF Structured!EndAs, Structured!Abort
  <2>3. CASE PhaseOf(Awaited(n)) # "thrown" /\ ~TimerFirst(n)
    BY <1>6, <1>8, <1>9, <2>3 DEF Structured!EndAs, Structured!Abort
  <2> QED
    BY <2>1, <2>2, <2>3
<1> QED
  BY <1>4, <1>7, <1>9, <1>10 DEF Structured!EndTask, Structured!EndAs, Structured!Abort, mat, ph, e

LEMMA ReturnMaps ==
  ASSUME Inv, Main, Firsts, NEW n \in NodesOf(tree), ReturnTask(n) \/ Propagate(n) \/ ReturnIo(n)
  PROVE  Structured!EndTask(n)
<1>1. /\ tree \in Trees /\ n \in BodiesOf(tree) /\ tree.kind[n] \in {"task", "io"} /\ n # Root
      /\ Resumed(Frame(n)) /\ state[Frame(n)] = "suspended"
  <2>1. /\ tree.kind[n] \in {"task", "io"} /\ Resumed(Frame(n))
    BY DEF ReturnTask, Propagate, ReturnIo, Waited, Kind, Bodies
  <2>2. tree \in Trees /\ n # Root
    BY <2>1, InvFacts, TreeNodes
  <2> QED
    BY <2>1, <2>2 DEF BodiesOf, Bodies, Resumed
<1>2. at[n] # 0 /\ PhaseOf(Awaited(n)) = outcome[Frame(Awaited(n))]
  BY <1>1, AwaitedEnded
<1>3. CASE ReturnTask(n)
  <2>1. /\ tree.kind[n] = "task" /\ PhaseOf(Awaited(n)) # "thrown" /\ at[n] = Len(tree.subs[n])
        /\ Return(n, "value")
    BY <1>2, <1>3 DEF ReturnTask, Kind, Subs
  <2>2. ~TimerFirst(n)
    BY <2>1 DEF TimerFirst
  <2>3. Structured!EndAs(n, "value")
    BY <1>1, <1>2, <2>1, BodyEndsAs
  <2> QED
    BY <1>1, <2>1, <2>2, <2>3, EndTaskMaps
<1>4. CASE Propagate(n)
  <2>1. PhaseOf(Awaited(n)) = "thrown" /\ Return(n, "thrown")
    BY <1>2, <1>4 DEF Propagate
  <2>3. Structured!EndAs(n, "thrown")
    BY <1>1, <1>2, <2>1, BodyEndsAs
  <2> QED
    BY <1>1, <2>1, <2>3, EndTaskMaps
<1>5. CASE ReturnIo(n)
  <2>1. /\ tree.kind[n] = "io" /\ PhaseOf(Awaited(n)) # "thrown"
        /\ Return(n, IF TimedOut(n) THEN "timeout" ELSE "value")
    BY <1>2, <1>5 DEF ReturnIo, Waited, Kind
  <2>2. TimerFirst(n) <=> TimedOut(n)
    BY <1>1, <2>1, TimerIs
  <2>3. CASE TimedOut(n)
    <3>1. Return(n, "timeout")
      BY <2>1, <2>3
    <3>2. Structured!EndAs(n, "timeout")
      BY <1>1, <1>2, <3>1, BodyEndsAs
    <3> QED
      BY <1>1, <2>1, <2>2, <2>3, <3>2, EndTaskMaps
  <2>4. CASE ~TimedOut(n)
    <3>1. Return(n, "value")
      BY <2>1, <2>4
    <3>2. Structured!EndAs(n, "value")
      BY <1>1, <1>2, <3>1, BodyEndsAs
    <3> QED
      BY <1>1, <2>1, <2>2, <2>4, <3>2, EndTaskMaps
  <2> QED
    BY <2>3, <2>4
<1> QED
  BY <1>3, <1>4, <1>5

(* How a leaf ends. *)
LEMMA LeafMaps ==
  ASSUME Inv, Main, Firsts, NEW n \in NodesOf(tree), EndLeaf(n)
  PROVE  Structured!EndLeaf(n)
<1> DEFINE r == IF tree.kind[n] = "fail" THEN "thrown" ELSE "value"
<1>1. /\ tree.kind[n] \in Leaves /\ Finish(Frame(n), r, {})
      /\ state[Frame(n)] \in {"fresh", "suspended"} /\ tree' = tree /\ at' = at
  BY DEF EndLeaf, Kind, Entered, Resumed
<1>2. n \in NodesOf(tree) \ BodiesOf(tree) /\ r \in {"value", "thrown", "timeout"}
  BY <1>1, InvFacts, KindsApart
<1> HIDE DEF r
<1>3. \A m : Frame(m) \notin {}
  OBVIOUS
<1>4. Structured!EndAs(n, r)
  BY <1>1, <1>2, <1>3, NodeEndsAs
<1> QED
  BY <1>1, <1>4 DEF Structured!EndLeaf, Structured!EndAs, Structured!Kind, Leaves, r

(* How when_any and when_all end. *)
LEMMA AnyMaps ==
  ASSUME Inv, Main, Firsts, NEW n \in Combs(tree), tree.kind[n] = "any",
         ReturnEmpty(n) \/ EndCombinator(n)
  PROVE  Structured!EndAny(n)
<1>1. tree \in Trees /\ n \in NodesOf(tree) \ BodiesOf(tree) /\ n \in NodesOf(tree)
  BY InvFacts, KindsApart
<1>2. tree' = tree /\ at' = at /\ state[Frame(n)] \in {"fresh", "suspended"}
  BY DEF ReturnEmpty, EndCombinator, Entered, Resumed
<1>3. \E freed : Finish(Frame(n), "value", freed) /\ \A m : Frame(m) \notin freed
  <2>1. \A m : Frame(m) \notin Helpers(n)
    BY <1>1, NotAFrame DEF Helpers, Subs
  <2> QED
    BY <2>1 DEF ReturnEmpty, EndCombinator
<1>4. Structured!EndAs(n, "value")
  <2>1. PICK freed : Finish(Frame(n), "value", freed) /\ \A m : Frame(m) \notin freed
    BY <1>3
  <2> QED
    BY <1>1, <1>2, <2>1, NodeEndsAs
<1>5. ASSUME tree.subs[n] # <<>> PROVE \E i \in DOMAIN tree.subs[n] : EndedOf(n) = {i}
  <2>1. Resumed(Frame(n)) /\ state[Frame(n)] = "suspended" /\ running = Frame(n) /\ running # Nobody
    <3>1. Resumed(Frame(n))
      BY <1>5 DEF ReturnEmpty, EndCombinator, Subs
    <3>2. Frame(n) # Nobody
      BY <1>1, FrameKinds
    <3> QED
      BY <3>1, <3>2 DEF Resumed
  <2>2. PICK i \in DOMAIN tree.subs[n] : state[<<n, i>>] = "done"
    BY <2>1 DEF Main, ControlGoes, ResumedBecause
  <2>3. state[Frame(tree.subs[n][i])] = "done"
    BY <2>2 DEF Main, FramesWait, ArgumentsEnd
  <2>4. \A j \in DOMAIN tree.subs[n] :
          /\ tree.subs[n][j] \in NodesOf(tree) /\ Frame(tree.subs[n][j]) \in FramesOfTree(tree)
          /\ PhaseOf(tree.subs[n][j]) \in {"value", "thrown", "timeout"}
               <=> outcome[Frame(tree.subs[n][j])] # "none"
    <3>1. \A j \in DOMAIN tree.subs[n] :
            tree.subs[n][j] \in NodesOf(tree) /\ Frame(tree.subs[n][j]) \in FramesOfTree(tree)
      BY <1>1, EdgeIs
    <3> QED
      BY <3>1, PhaseKinds
  <2>5. outcome[Frame(tree.subs[n][i])] # "none"
    BY <2>2, <2>3, <2>4 DEF Main, FramesWait, OutcomesKept
  <2>6. \A j \in DOMAIN tree.subs[n] : outcome[Frame(tree.subs[n][j])] # "none" => j = i
    BY <2>1, <2>2, <2>5 DEF Firsts, OneEnds
  <2>7. EndedOf(n) = {i}
    BY <2>2, <2>4, <2>5, <2>6 DEF EndedOf
  <2> QED
    BY <2>7
<1>6. Structured!Over(n) = EndedOf(n)
  BY <1>1, StructuredEnds
<1>7. Structured!Subs(n) # <<>> => \E i \in DOMAIN Structured!Subs(n) : Structured!Over(n) = {i}
  BY <1>5, <1>6 DEF Structured!Subs
<1> QED
  BY <1>4, <1>7 DEF Structured!EndAny, Structured!Kind, Structured!EndAs

LEMMA AllMaps ==
  ASSUME Inv, Main, Firsts, NEW n \in Combs(tree), tree.kind[n] = "all", EndCombinator(n)
  PROVE  Structured!EndAll(n)
<1>1. tree \in Trees /\ n \in NodesOf(tree) \ BodiesOf(tree) /\ n \in NodesOf(tree)
  BY InvFacts, KindsApart
<1>2. /\ tree' = tree /\ at' = at /\ state[Frame(n)] = "suspended" /\ running = Frame(n)
      /\ Finish(Frame(n), "value", Helpers(n))
  BY DEF EndCombinator, Resumed
<1>3. \A m : Frame(m) \notin Helpers(n)
  BY <1>1, NotAFrame DEF Helpers, Subs
<1>4. Structured!EndAs(n, "value")
  BY <1>1, <1>2, <1>3, NodeEndsAs
<1> DEFINE C == Counted(tree, state, outcome, n)
<1>5. C = DOMAIN tree.subs[n]
  <2>1. count[n] <= Cardinality(C) /\ count[n] = Len(tree.subs[n])
    BY <1>2 DEF Firsts, CountsValues
  <2>2. /\ C \subseteq 1 .. Len(tree.subs[n]) /\ IsFiniteSet(C) /\ Cardinality(C) \in Nat
        /\ Cardinality(C) = Len(tree.subs[n]) => C = DOMAIN tree.subs[n]
    BY <1>1, CountedFinite
  <2> HIDE DEF C
  <2>3. Len(tree.subs[n]) \in Nat
    BY <1>1, TreeNodes
  <2> DEFINE L == Len(tree.subs[n])
  <2> HIDE DEF L
  <2>4. L \in Nat /\ C \subseteq 1 .. L
    BY <2>2, <2>3 DEF L
  <2>5. IsFiniteSet(1 .. L) /\ Cardinality(1 .. L) = L
    <3>1. Cardinality(1 .. L) = IF 1 > L THEN 0 ELSE L - 1 + 1
      BY <2>4, FS_Interval
    <3>2. IsFiniteSet(1 .. L)
      BY <2>4, FS_Interval
    <3> QED
      BY <2>4, <3>1, <3>2
  <2>6. Cardinality(C) <= L
    BY <2>4, <2>5, FS_Subset
  <2>7. L <= Cardinality(C)
    BY <2>1 DEF L
  <2>8. Cardinality(C) = Len(tree.subs[n])
    BY <2>2, <2>4, <2>6, <2>7 DEF L
  <2> QED
    BY <2>2, <2>8
<1>6. ASSUME NEW i \in DOMAIN tree.subs[n]
      PROVE  /\ tree.subs[n][i] \in NodesOf(tree)
             /\ PhaseOf(tree.subs[n][i]) \in {"value", "timeout"}
  <2>1. state[<<n, i>>] = "done" /\ outcome[Frame(tree.subs[n][i])] # "thrown"
    BY <1>5 DEF Counted
  <2>2. state[Frame(tree.subs[n][i])] = "done"
    BY <2>1 DEF Main, FramesWait, ArgumentsEnd
  <2>3. tree.subs[n][i] \in NodesOf(tree) /\ Frame(tree.subs[n][i]) \in FramesOfTree(tree)
    BY <1>1, EdgeIs
  <2>4. outcome[Frame(tree.subs[n][i])] # "none"
    BY <2>2, <2>3 DEF Main, FramesWait, OutcomesKept
  <2> QED
    BY <2>1, <2>3, <2>4, PhaseKinds
<1>7. Structured!Over(n) = DOMAIN tree.subs[n]
  <2>1. EndedOf(n) = DOMAIN tree.subs[n]
    BY <1>6 DEF EndedOf
  <2> QED
    BY <1>1, <2>1, StructuredEnds
<1>8. /\ Structured!Over(n) = DOMAIN Structured!Subs(n)
      /\ \A i \in Structured!Over(n) :
           [x \in DOMAIN tree.kind |-> PhaseOf(x)][Structured!Subs(n)[i]] # "thrown"
  BY <1>6, <1>7 DEF Structured!Subs, NodesOf
<1> QED
  BY <1>4, <1>8 DEF Structured!EndAll, Structured!Kind, Structured!EndAs

(* What is swept leaves but parameters of the task. *)
LEMMA SweptLeft ==
  ASSUME NEW f, NEW freed, Swept(f, freed), NEW q \in Combs(tree), NEW i \in DOMAIN tree.subs[q],
         Frame(q) \in freed, Frame(tree.subs[q][i]) \notin freed
  PROVE  tree.stmt[tree.subs[q][i]] = 0 /\ tree.owner[q] = f[1]
<1> DEFINE w == tree.subs[q][i]
<1>1. /\ <<q, i>> \in freed <=> Frame(q) \in freed \/ f = Frame(q)
      /\ Frame(w) \in freed => Frame(q) \in freed
      /\ Frame(q) \in freed /\ Frame(w) \notin freed =>
           /\ tree.stmt[w] = 0 /\ f = Frame(f[1]) /\ f[1] \in BodiesOf(tree)
           /\ tree.owner[q] = f[1] /\ tree.stmt[q] = Current(tree, at, f[1])
  BY Zenon DEF Swept
<1> QED
  BY <1>1

(* run_task() ends: with the program, or with an exception. *)
LEMMA AllOfRoot ==
  ASSUME Inv, Main, at[Root] # 0, NEW m \in NodesOf(tree) \ {Root}
  PROVE  Frame(m) \in StatementFrames(Root)
<1> DEFINE S == StatementFrames(Root)
           U == {x \in NodesOf(tree) : x = Root \/ Frame(x) \in S}
<1>1. tree \in Trees /\ Root \in BodiesOf(tree) /\ Root \in NodesOf(tree)
  BY InvFacts, KindsApart
<1>2. tree.kind[Root] = "run" /\ Len(tree.subs[Root]) = 1 /\ tree.stmt[Root] = 0
  <2>1. tree.kind[Root] = "run"
    BY <1>1, TreeNodes
  <2>2. Len(tree.subs[Root]) = 1
    BY <1>1, <2>1, TreeNodes
  <2>3. tree.stmt[Root] = 0
    BY <1>1, TreesAssumption DEF IsTree
  <2> QED
    BY <2>1, <2>2, <2>3
<1>3. at[Root] \in Nat /\ at[Root] <= 1
  <2>1. at \in [NodesOf(tree) -> Nat]
    BY InvFacts
  <2>2. at[Root] <= IF tree.kind[Root] = "io" THEN MaxTries ELSE Len(tree.subs[Root])
    BY <1>1 DEF Inv, TypeInv, Bounded
  <2> QED
    BY <1>1, <1>2, <2>1, <2>2
<1>4. Current(tree, at, Root) = 1
  BY <1>2, <1>3 DEF Current
<1>5. Swept(Frame(Root), S) /\ Clears(Root, S)
  BY <1>1, <1>4, SweptStatement
<1> HIDE DEF S
<1>6. ASSUME NEW q \in U, NEW i \in DOMAIN tree.subs[q]
      PROVE  tree.subs[q][i] \in U
  <2>1. q \in NodesOf(tree) /\ tree.subs[q][i] \in NodesOf(tree) \ {Root}
    BY <1>1, EdgeIs
  <2>2. CASE q = Root
    <3>1. q \notin Combs(tree)
      BY <1>1, <2>2, KindsApart
    <3>2. tree.owner[tree.subs[q][i]] = Root /\ tree.stmt[tree.subs[q][i]] = i
      BY <1>1, <2>1, <2>2, <3>1, EdgeIs
    <3>3. i = 1
      BY <1>1, <1>2, <2>2, TreeNodes
    <3> QED
      BY <1>4, <1>5, <2>1, <3>2, <3>3 DEF Clears
  <2>3. CASE q # Root /\ q \in BodiesOf(tree)
    <3>1. Frame(q) \in S
      BY <2>3
    <3>2. Frame(tree.subs[q][i]) \in S
      BY <1>5, <2>3, <3>1 DEF Swept
    <3> QED
      BY <2>1, <3>2
  <2>4. CASE q # Root /\ q \in Combs(tree)
    <3>1. Frame(q) \in S
      BY <2>4
    <3>2. SUFFICES ASSUME Frame(tree.subs[q][i]) \notin S PROVE FALSE
      BY <2>1
    <3>3. tree.stmt[tree.subs[q][i]] = 0 /\ tree.owner[q] = Root
      <4>1. Frame(Root)[1] = Root
        BY DEF Frame
      <4>2. q \in Combs(tree) /\ Swept(Frame(Root), S)
        BY <1>5, <2>4
      <4>3. tree.stmt[tree.subs[q][i]] = 0 /\ tree.owner[q] = Frame(Root)[1]
        BY <3>1, <3>2, <4>2, SweptLeft
      <4> QED
        BY <4>1, <4>3
    <3>4. tree.owner[tree.subs[q][i]] = tree.owner[q]
      BY <1>1, <2>1, <2>4, TreeSubs DEF Combs
    <3> QED
      BY <1>1, <1>2, <2>1, <3>3, <3>4, TreeNodes
  <2>5. tree.kind[q] \notin Leaves
    BY <1>1, <2>1, KindsApart
  <2> QED
    BY <1>1, <2>1, <2>2, <2>3, <2>4, <2>5, KindsApart
<1>7. Root \in U /\ \A q \in NodesOf(tree) : \A i \in DOMAIN tree.subs[q] : q \in U => tree.subs[q][i] \in U
  BY <1>1, <1>6
<1> HIDE DEF U
<1>8. NodesOf(tree) \subseteq U
  BY <1>1, <1>7, TreeInduction
<1> QED
  BY <1>8 DEF U, S

LEMMA RunMaps ==
  ASSUME Inv, Main, Firsts, EndRun \/ Terminate
  PROVE  Structured!EndTask(Root)
<1>1. /\ tree \in Trees /\ Root \in BodiesOf(tree) /\ Root \in NodesOf(tree) /\ tree.kind[Root] = "run"
      /\ Len(tree.subs[Root]) = 1 /\ outcome[Frame(Root)] = "none"
  <2>1. tree \in Trees /\ Root \in BodiesOf(tree) /\ Root \in NodesOf(tree)
    BY InvFacts, KindsApart
  <2>2. tree.kind[Root] = "run"
    BY <2>1, TreeNodes
  <2>3. Len(tree.subs[Root]) = 1
    BY <2>1, <2>2, TreeNodes
  <2> QED
    BY <2>1, <2>2, <2>3 DEF Firsts
<1>2. Resumed(Frame(Root)) /\ state[Frame(Root)] = "suspended"
  BY DEF EndRun, Terminate, Resumed
<1>3. PhaseOf(Root) = "open"
  BY <1>1, <1>2, AliveOpen
<1>4. at[Root] # 0 /\ PhaseOf(Awaited(Root)) = outcome[Frame(Awaited(Root))]
  BY <1>1, <1>2, AwaitedEnded
<1>5. at[Root] = Len(tree.subs[Root]) /\ Awaited(Root) = Subs(Root)[1]
  <2>1. at \in [NodesOf(tree) -> Nat]
    BY InvFacts
  <2>2. at[Root] <= IF tree.kind[Root] = "io" THEN MaxTries ELSE Len(tree.subs[Root])
    BY <1>1 DEF Inv, TypeInv, Bounded
  <2>3. at[Root] \in Nat /\ at[Root] <= 1
    BY <1>1, <2>1, <2>2
  <2>4. at[Root] = 1
    BY <1>4, <2>3
  <2> QED
    BY <1>1, <2>4 DEF Awaited, Stmt, Kind
<1>6. ~TimerFirst(Root)
  BY <1>1 DEF TimerFirst
<1>7. tree' = tree /\ at' = at
  BY DEF EndRun, Terminate
<1>8. CASE EndRun
  <2>1. PhaseOf(Awaited(Root)) # "thrown"
    BY <1>4, <1>5, <1>8 DEF EndRun
  <2>2. /\ state' = [g \in Frames |->
                 IF g = Frame(Root) THEN "freed"
                 ELSE IF g \in {} THEN "fresh"
                 ELSE IF g \in WrapperAndTask /\ state[g] # "none" THEN "freed" ELSE state[g]]
        /\ outcome' = [outcome EXCEPT ![Frame(Root)] = "value"]
    BY <1>8 DEF EndRun, Become
  <2>3. \A m \in NodesOf(tree) : Frame(m) \in Frames /\ (Frame(m) = Frame(Root) <=> m = Root)
    <3>1. \A m \in NodesOf(tree) : Frame(m) \in Frames
      BY <1>1, FrameKinds DEF Frames
    <3> QED
      BY <3>1 DEF Frame
  <2>4. outcome \in [Frames -> {"none", "value", "thrown", "timeout"}]
    BY InvFacts DEF Frames
  <2> DEFINE left == [m \in NodesOf(tree) |->
           IF at[Root] # 0 /\ Frame(m) \in StatementFrames(Root) /\ PhaseOf(m) = "open"
           THEN "dropped" ELSE PhaseOf(m)]
  <2>5. ASSUME NEW m \in NodesOf(tree) PROVE PhaseOf(m)' = IF m = Root THEN "value" ELSE left[m]
    <3>1. CASE m = Root
      <4>1. outcome'[Frame(Root)] = "value"
        BY <1>1, <2>2, <2>3, <2>4
      <4> QED
        BY <3>1, <4>1, PhaseIs DEF PhaseIn
    <3>2. CASE m # Root
      <4>1. Frame(m) \in StatementFrames(Root)
        BY <1>4, <3>2, AllOfRoot
      <4>2. Frame(m) \in WrapperAndTask
        <5>1. m \in tree.inside[Root]
          BY <1>1, <3>2, RootAbove, TreeAbove
        <5> QED
          BY <1>1, <5>1, FramesInIs DEF WrapperAndTask
      <4>3. /\ state'[Frame(m)] = IF Frame(m) \in WrapperAndTask /\ state[Frame(m)] # "none" THEN "freed"
                            ELSE state[Frame(m)]
            /\ outcome'[Frame(m)] = outcome[Frame(m)]
        BY <2>2, <2>3, <2>4, <3>2
      <4>4. PhaseOf(m)' = IF Frame(m) \in WrapperAndTask /\ PhaseOf(m) = "open" THEN "dropped" ELSE PhaseOf(m)
        BY <4>3, PhaseChange
      <4> QED
        BY <1>4, <3>2, <4>1, <4>2, <4>4
    <3> QED
      BY <3>1, <3>2
  <2>6. Structured!Left(Root) = left
    BY <1>1, LeftBody
  <2>7. left = [m \in NodesOf(tree) |-> left[m]]
    OBVIOUS
  <2> HIDE DEF left
  <2>8. Structured!EndAs(Root, "value")
    BY <1>1, <1>3, <1>7, <2>5, <2>6, <2>7, EndAsIs
  <2> QED
    BY <1>1, <1>2, <1>5, <1>6, <2>1, <2>8, EndTaskMaps
<1>9. CASE Terminate
  <2>1. PhaseOf(Awaited(Root)) = "thrown"
    BY <1>4, <1>5, <1>9 DEF Terminate
  <2>2. state' = state /\ outcome' = [outcome EXCEPT ![Frame(Root)] = "thrown"]
    BY <1>9 DEF Terminate
  <2>3. /\ outcome \in [FramesOfTree(tree) -> {"none", "value", "thrown", "timeout"}]
        /\ \A m \in NodesOf(tree) : Frame(m) \in FramesOfTree(tree) /\ (Frame(m) = Frame(Root) <=> m = Root)
    BY <1>1, InvFacts, FrameKinds
  <2>4. ASSUME NEW m \in NodesOf(tree) PROVE PhaseOf(m)' = IF m = Root THEN "thrown" ELSE PhaseOf(m)
    <3>1. outcome'[Frame(m)] = IF m = Root THEN "thrown" ELSE outcome[Frame(m)]
      BY <1>1, <2>2, <2>3
    <3> QED
      BY <2>2, <3>1, PhaseIs DEF PhaseIn
  <2>5. [x \in NodesOf(tree') |-> PhaseOf(x)'] = [[x \in NodesOf(tree) |-> PhaseOf(x)] EXCEPT ![Root] = "thrown"]
    BY <1>7, <2>4
  <2>6. [x \in NodesOf(tree) |-> PhaseOf(x)][Root] = "open"
    BY <1>1, <1>3
  <2>7. Structured!Abort
    BY <1>7, <2>5, <2>6 DEF Structured!Abort, Structured!Open, NodesOf, Kind
  <2> QED
    BY <1>1, <1>2, <1>6, <2>1, <2>7, EndTaskMaps
<1> QED
  BY <1>8, <1>9

(* The rest is hidden. *)
LEMMA Hidden ==
  ASSUME Inv, tree' = tree,
         \A m \in NodesOf(tree) :
           /\ state'[Frame(m)] = state[Frame(m)]
              \/ (state[Frame(m)] = "fresh" /\ state'[Frame(m)] = "suspended")
           /\ outcome'[Frame(m)] = outcome[Frame(m)]
           /\ m \notin Combs(tree) => at'[m] = at[m]
  PROVE  UNCHANGED Structured!vars
<1>1. \A m \in NodesOf(tree) : PhaseOf(m)' = PhaseOf(m)
  BY PhaseIs DEF PhaseIn
<1>2. [x \in NodesOf(tree') |-> PhaseOf(x)'] = [x \in NodesOf(tree) |-> PhaseOf(x)]
  BY <1>1
<1>3. [x \in NodesOf(tree') |-> IF Kind(x)' \in Combinators THEN 0 ELSE at'[x]]
        = [x \in NodesOf(tree) |-> IF Kind(x) \in Combinators THEN 0 ELSE at[x]]
  BY DEF Kind, Combs
<1> QED
  BY <1>2, <1>3 DEF Structured!vars, NodesOf

LEMMA StartsHidden ==
  ASSUME Inv, Main, NEW n \in NodesOf(tree), StartCombinator(n)
  PROVE  UNCHANGED Structured!vars
<1>1. /\ tree' = tree /\ n \in Combs(tree) /\ state[Frame(n)] = "fresh"
      /\ \A m \in NodesOf(tree) : /\ state'[Frame(m)] = IF m = n THEN "suspended" ELSE state[Frame(m)]
                                  /\ outcome'[Frame(m)] = outcome[Frame(m)]
                                  /\ m # n => at'[m] = at[m]
  BY StartCombinatorFacts
<1>2. \A m \in NodesOf(tree) :
           /\ state'[Frame(m)] = state[Frame(m)]
              \/ (state[Frame(m)] = "fresh" /\ state'[Frame(m)] = "suspended")
           /\ outcome'[Frame(m)] = outcome[Frame(m)]
           /\ m \notin Combs(tree) => at'[m] = at[m]
  BY <1>1
<1> QED
  BY <1>1, <1>2, Hidden

LEMMA LoopHidden ==
  ASSUME Inv, Main, NEW n \in NodesOf(tree), ResumeNext(n)
  PROVE  UNCHANGED Structured!vars
<1>1. /\ tree' = tree /\ state' = state /\ outcome' = outcome /\ n \in Combs(tree)
      /\ \A m \in NodesOf(tree) : m # n => at'[m] = at[m]
  BY ResumeNextFacts
<1>2. \A m \in NodesOf(tree) :
           /\ state'[Frame(m)] = state[Frame(m)]
              \/ (state[Frame(m)] = "fresh" /\ state'[Frame(m)] = "suspended")
           /\ outcome'[Frame(m)] = outcome[Frame(m)]
           /\ m \notin Combs(tree) => at'[m] = at[m]
  BY <1>1
<1> QED
  BY <1>1, <1>2, Hidden

LEMMA LeafHidden ==
  ASSUME Inv, NEW n \in NodesOf(tree), SuspendLeaf(n) \/ Event(n)
  PROVE  UNCHANGED Structured!vars
<1>1. tree' = tree /\ outcome' = outcome /\ at' = at
  BY DEF SuspendLeaf, Event
<1>2. \A m \in NodesOf(tree) :
           state'[Frame(m)] = state[Frame(m)]
           \/ (state[Frame(m)] = "fresh" /\ state'[Frame(m)] = "suspended")
  <2>1. CASE SuspendLeaf(n)
    <3>1. state' = [state EXCEPT ![Frame(n)] = "suspended"] /\ state[Frame(n)] = "fresh"
      BY <2>1 DEF SuspendLeaf, Entered
    <3>2. state \in [FramesOfTree(tree) -> States] /\ \A m \in NodesOf(tree) : Frame(m) \in FramesOfTree(tree)
      BY InvFacts, FrameKinds
    <3> QED
      BY <3>1, <3>2
  <2>2. CASE Event(n)
    BY <2>2 DEF Event
  <2> QED
    BY <2>1, <2>2
<1>3. \A m \in NodesOf(tree) :
           /\ state'[Frame(m)] = state[Frame(m)]
              \/ (state[Frame(m)] = "fresh" /\ state'[Frame(m)] = "suspended")
           /\ outcome'[Frame(m)] = outcome[Frame(m)]
           /\ m \notin Combs(tree) => at'[m] = at[m]
  BY <1>1, <1>2
<1> QED
  BY <1>1, <1>3, Hidden

LEMMA HelperHidden ==
  ASSUME Inv, Main, NEW n \in NodesOf(tree), NEW i \in DOMAIN tree.subs[n], Helper(n, i)
  PROVE  UNCHANGED Structured!vars
<1>1. tree \in Trees /\ n \in Combs(tree)
  BY InvFacts, HelperRuns
<1>2. /\ <<n, i>> \in FramesOfTree(tree)
      /\ \A m \in NodesOf(tree) : Frame(m) \in FramesOfTree(tree) /\ <<n, i>> # Frame(m)
  BY <1>1, NotAFrame, FrameKinds
<1>3. tree' = tree /\ at' = at
  BY DEF Helper, StartHelper, EndAnyHelper, EndAllHelper, FailHelper
<1>4. \A m \in NodesOf(tree) : state'[Frame(m)] = state[Frame(m)] /\ outcome'[Frame(m)] = outcome[Frame(m)]
  <2>1. ASSUME NEW r, NEW next, FinishTo(<<n, i>>, r, {}, next)
        PROVE  \A m \in NodesOf(tree) : /\ state'[Frame(m)] = state[Frame(m)]
                                        /\ outcome'[Frame(m)] = outcome[Frame(m)]
    <3>1. \A g \in FramesOfTree(tree) :
              /\ state'[g] = IF g = <<n, i>> THEN "done"
                             ELSE IF g \in {} /\ state[g] # "none" THEN "freed" ELSE state[g]
              /\ outcome'[g] = IF g = <<n, i>> THEN r ELSE outcome[g]
      BY <1>2, <2>1, FinishFacts
    <3> QED
      BY <1>2, <3>1
  <2>2. CASE StartHelper(n, i)
    <3>1. /\ \A m \in NodesOf(tree) : state'[Frame(m)] = state[Frame(m)]
          /\ outcome' = outcome
      BY <1>1, <2>2, StartHelperFacts
    <3> QED
      BY <3>1
  <2>3. CASE EndAnyHelper(n, i)
    <3>1. FinishTo(<<n, i>>, "value", {}, prev[<<n, i>>])
      BY <2>3 DEF EndAnyHelper, Finish
    <3> QED
      BY <2>1, <3>1
  <2>4. CASE EndAllHelper(n, i)
    <3>1. FinishTo(<<n, i>>, "value", {}, IF LastOfAll(n) THEN Frame(n) ELSE prev[<<n, i>>])
      BY <2>4 DEF EndAllHelper
    <3> QED
      BY <2>1, <3>1
  <2>5. CASE FailHelper(n, i)
    <3>1. FinishTo(<<n, i>>, "thrown", {}, prev[<<n, i>>])
      BY <2>5 DEF FailHelper, Finish
    <3> QED
      BY <2>1, <3>1
  <2> QED
    BY <2>2, <2>3, <2>4, <2>5 DEF Helper
<1>5. \A m \in NodesOf(tree) :
           /\ state'[Frame(m)] = state[Frame(m)]
              \/ (state[Frame(m)] = "fresh" /\ state'[Frame(m)] = "suspended")
           /\ outcome'[Frame(m)] = outcome[Frame(m)]
           /\ m \notin Combs(tree) => at'[m] = at[m]
  BY <1>3, <1>4
<1> QED
  BY <1>3, <1>5, Hidden

LEMMA SameHidden ==
  ASSUME UNCHANGED vars
  PROVE  UNCHANGED Structured!vars
<1>1. tree' = tree /\ state' = state /\ outcome' = outcome /\ at' = at
  BY DEF vars
<1>2. \A m \in NodesOf(tree) : PhaseOf(m)' = PhaseOf(m)
  BY <1>1, PhaseIs
<1>3. [x \in NodesOf(tree') |-> PhaseOf(x)'] = [x \in NodesOf(tree) |-> PhaseOf(x)]
  BY <1>1, <1>2
<1>4. [x \in NodesOf(tree') |-> IF Kind(x)' \in Combinators THEN 0 ELSE at'[x]]
        = [x \in NodesOf(tree) |-> IF Kind(x) \in Combinators THEN 0 ELSE at[x]]
  BY <1>1 DEF Kind
<1> QED
  BY <1>1, <1>3, <1>4 DEF Structured!vars, NodesOf

(* Every step is a step of structured concurrency, or hidden. *)
LEMMA NextMaps ==
  ASSUME Inv, Main, Firsts, [Next]_vars
  PROVE  [Structured!Next]_(Structured!vars)
<1>1. /\ tree \in Trees /\ Root \in NodesOf(tree) /\ Root \in DOMAIN tree.kind
      /\ outcome[Frame(Root)] = "none"
  BY InvFacts DEF Firsts, NodesOf
<1>2. ~Structured!Aborted
  <2>1. PhaseOf(Root) # "thrown"
    BY <1>1, PhaseKinds
  <2>2. [x \in DOMAIN tree.kind |-> PhaseOf(x)][Root] = PhaseOf(Root)
    BY <1>1
  <2> QED
    BY <2>1, <2>2 DEF Structured!Aborted
<1>3. ASSUME NEW n \in NodesOf(tree), Structured!Step(n) PROVE Structured!Next
  BY <1>2, <1>3 DEF NodesOf, Structured!Next, Structured!Progress
<1>4. ASSUME NEW n \in NodesOf(tree), Structured!EndTask(n) PROVE Structured!Next
  BY <1>2, <1>4 DEF NodesOf, Structured!Next, Structured!Progress
<1>5. ASSUME NEW n \in NodesOf(tree), Structured!EndAny(n) PROVE Structured!Next
  BY <1>2, <1>5 DEF NodesOf, Structured!Next, Structured!Progress
<1>6. ASSUME NEW n \in NodesOf(tree), Structured!EndAll(n) PROVE Structured!Next
  BY <1>2, <1>6 DEF NodesOf, Structured!Next, Structured!Progress
<1>7. ASSUME NEW n \in NodesOf(tree), Structured!EndLeaf(n) PROVE Structured!Next
  BY <1>2, <1>7 DEF NodesOf, Structured!Next
<1>8. CASE UNCHANGED vars
  BY <1>8, SameHidden
<1>9. CASE EndRun \/ Terminate
  BY <1>1, <1>4, <1>9, RunMaps
<1>10. ASSUME NEW n \in NodesOf(tree), Body(n) PROVE Structured!Next
  <2>1. CASE StartTask(n) \/ NextStatement(n) \/ Retry(n)
    BY <1>3, <2>1, AwaitMaps
  <2>2. CASE ReturnTask(n) \/ Propagate(n) \/ ReturnIo(n)
    BY <1>4, <2>2, ReturnMaps
  <2> QED
    BY <1>10, <2>1, <2>2 DEF Body
<1>11. ASSUME NEW n \in NodesOf(tree), Leaf(n) PROVE [Structured!Next]_(Structured!vars)
  <2>1. CASE SuspendLeaf(n)
    BY <2>1, LeafHidden
  <2>2. CASE EndLeaf(n)
    BY <1>7, <2>2, LeafMaps
  <2> QED
    BY <1>11, <2>1, <2>2 DEF Leaf
<1>12. ASSUME NEW n \in NodesOf(tree), ReturnEmpty(n) \/ EndCombinator(n) PROVE Structured!Next
  <2>1. n \in Combs(tree) /\ (ReturnEmpty(n) => tree.kind[n] = "any")
    BY <1>12 DEF ReturnEmpty, EndCombinator, Kind, Combs, Combinators
  <2>2. CASE tree.kind[n] = "any"
    BY <1>5, <1>12, <2>1, <2>2, AnyMaps
  <2>3. CASE tree.kind[n] # "any"
    <3>1. tree.kind[n] = "all" /\ EndCombinator(n)
      BY <1>1, <1>12, <2>1, <2>3, KindsApart
    <3> QED
      BY <1>6, <2>1, <3>1, AllMaps
  <2> QED
    BY <2>2, <2>3
<1>13. ASSUME NEW n \in NodesOf(tree), Combinator(n) PROVE [Structured!Next]_(Structured!vars)
  <2>1. CASE StartCombinator(n)
    BY <2>1, StartsHidden
  <2>2. CASE ResumeNext(n)
    BY <2>2, LoopHidden
  <2>3. CASE ReturnEmpty(n) \/ EndCombinator(n)
    BY <1>12, <2>3
  <2>4. ASSUME NEW i \in DOMAIN tree.subs[n], Helper(n, i) PROVE UNCHANGED Structured!vars
    BY <2>4, HelperHidden
  <2> QED
    BY <1>13, <2>1, <2>2, <2>3, <2>4 DEF Combinator, Subs
<1>14. ASSUME NEW n \in NodesOf(tree), Event(n) PROVE UNCHANGED Structured!vars
  BY <1>14, LeafHidden
<1> QED
  BY <1>8, <1>9, <1>10, <1>11, <1>13, <1>14 DEF Next, Run, NodesOf

LEMMA InitMaps ==
  ASSUME Init
  PROVE  Structured!Init
<1> DEFINE made == {Root} \cup Made(Root, 1)
<1>1. /\ tree \in Trees
      /\ state = [f \in FramesOfTree(tree) |-> IF f \in {Frame(n) : n \in made} THEN "fresh" ELSE "none"]
      /\ outcome = [f \in FramesOfTree(tree) |-> "none"]
      /\ at = [n \in NodesOf(tree) |-> 0]
  BY DEF Init, NodesOf
<1>2. made = {Root} \cup Structured!Made(Root, 1)
  BY StructuredIs
<1>3. \A m : Frame(m) \in {Frame(n) : n \in made} <=> m \in made
  BY DEF Frame
<1> HIDE DEF made
<1>4. ASSUME NEW m \in NodesOf(tree) PROVE PhaseOf(m) = IF m \in made THEN "open" ELSE "idle"
  <2>1. Frame(m) \in FramesOfTree(tree)
    BY <1>1, FrameKinds
  <2>2. outcome[Frame(m)] = "none" /\ state[Frame(m)] = IF m \in made THEN "fresh" ELSE "none"
    BY <1>1, <1>3, <2>1
  <2> QED
    BY <2>2, PhaseIs DEF PhaseIn
<1>5. [n \in NodesOf(tree) |-> PhaseOf(n)] = [n \in NodesOf(tree) |-> IF n \in made THEN "open" ELSE "idle"]
  BY <1>4
<1>6. [n \in NodesOf(tree) |-> IF Kind(n) \in Combinators THEN 0 ELSE at[n]] = [n \in NodesOf(tree) |-> 0]
  BY <1>1
<1> QED
  BY <1>1, <1>2, <1>5, <1>6 DEF Structured!Init, NodesOf

(* when_any, when_all and the tasks, with their frames, handles, helpers   *)
(* and counters, do what structured concurrency says (StructuredTasks): a  *)
(* statement of a task is over when its expression has ended, and what is  *)
(* open of it is destroyed then; when_any returns after one argument has   *)
(* ended and no other, and when_all after all of them; a file operation    *)
(* reports a timeout when the timer was first; and an exception comes up   *)
(* to the first task that awaits it, or to the end of run_task().          *)
THEOREM ImplementsTasks == Spec /\ SafeTree(tree) => Structured!Safety
<1>1. Init /\ SafeTree(tree) => Inv /\ AllReturn(tree, state, prev) /\ (Over \/ (Main /\ Firsts))
  BY InitInv, InitReturns, InitMain, InitFirsts
<1>2. Inv /\ AllReturn(tree, state, prev) /\ [Next]_vars => Inv' /\ AllReturn(tree, state, prev)'
  BY NextInv, ReturnsNext
<1>3. Inv /\ AllReturn(tree, state, prev) /\ (Over \/ (Main /\ Firsts)) /\ [Next]_vars
        => (Over \/ (Main /\ Firsts))'
  BY FirstsStay
<1>4. Inv /\ (Over \/ (Main /\ Firsts)) /\ [Next]_vars => [Structured!Next]_(Structured!vars)
  <2>1. SUFFICES ASSUME Inv, Over \/ (Main /\ Firsts), [Next]_vars
                 PROVE  [Structured!Next]_(Structured!vars)
    OBVIOUS
  <2>2. CASE Over
    BY <2>1, <2>2, OverEnds, SameHidden
  <2>3. CASE Main /\ Firsts
    BY <2>1, <2>3, NextMaps
  <2> QED
    BY <2>1, <2>2, <2>3
<1>5. Init => Structured!Init
  BY InitMaps
<1> QED
  BY <1>1, <1>2, <1>3, <1>4, <1>5, PTL DEF Spec, Structured!Safety
=============================================================================
