------------------------- MODULE Coroutines_proofs -------------------------
(***************************************************************************)
(* Coroutines: for every set of trees, every variable has its type; in     *)
(* particular the poller and the timers hold no handle of a frame that is  *)
(* destroyed or does not wait yet, no combinator resumes more helpers than *)
(* it has, and complete_count is at most their number. And the parent of a *)
(* when_all goes on when the last helper has ended.                        *)
(*                                                                         *)
(* What the invariant says is stated of trees and values and not of the    *)
(* variables, so that one lemma about a change of the frames serves all    *)
(* actions that make it.                                                   *)
(***************************************************************************)
EXTENDS Coroutines, FiniteSetTheorems, SequenceTheorems, TLAPS

NodesOf(t) == DOMAIN t.kind
Combs(t) == {n \in NodesOf(t) : t.kind[n] \in Combinators}
States == {"none", "fresh", "suspended", "done", "freed"}
Unborn == {"none", "fresh"}

(* The task that makes node m, and with which of its statements: its owner *)
(* or, for a parameter, who makes the owner.                               *)
Maker(t, m) == IF t.stmt[m] = 0 THEN t.owner[t.owner[m]] ELSE t.owner[m]
MakerStmt(t, m) == IF t.stmt[m] = 0 THEN t.stmt[t.owner[m]] ELSE t.stmt[m]

(* Nothing is made before its statement, which comes but once.             *)
MadeInTurn(t, st, a) ==
  /\ \A m \in NodesOf(t) \ {Root} :
       Maker(t, m) # Root /\ a[Maker(t, m)] < MakerStmt(t, m) => st[Frame(m)] = "none"
  /\ \A n \in NodesOf(t) :
       t.kind[n] \in Bodies \cup {"run"} /\ st[Frame(n)] \in Unborn => a[n] = 0

(* run_task() has made the wrapper and its task; it resumes the wrapper.   *)
RootFirst(t, st, a, run) ==
  a[Root] = 0 =>
    /\ run = Frame(Root) /\ st[Frame(Root)] = "fresh"
    /\ \A n \in NodesOf(t) : st[Frame(n)] \in Unborn

(* The helpers are made when the combinator starts.                        *)
HelpersAfter(t, st) ==
  \A n \in Combs(t) : \A i \in DOMAIN t.subs[n] :
    st[Frame(n)] \in Unborn => st[<<n, i>>] \in {"none", "freed"}

(* complete_count counts helpers that have ended.                          *)
Ended(t, st, n) == {i \in DOMAIN t.subs[n] : st[<<n, i>>] \in {"done", "freed"}}
CountsEnded(t, st, c) == \A n \in Combs(t) : c[n] <= Cardinality(Ended(t, st, n))

(* No leaf is a previous_handle_.                                          *)
NoLeafBefore(t, p) ==
  \A f \in FramesOfTree(t), n \in NodesOf(t) : t.kind[n] \in Leaves => p[f] # Frame(n)

(* A combinator is in the middle of its await_suspend() once, has started  *)
(* and has helpers to resume.                                              *)
LoopsOnce(t, st, a, lp) ==
  /\ \A i, j \in 1 .. Len(lp) : lp[i] = lp[j] => i = j
  /\ \A i \in 1 .. Len(lp) :
       st[Frame(lp[i])] \notin Unborn /\ a[lp[i]] < Len(t.subs[lp[i]])

(* The when_any of a file operation n, made again with each try. While     *)
(* its await_suspend() resumes the first helper, which suspends for the    *)
(* file, nothing else has control.                                         *)
WaitOf(t, n) == t.subs[n][1]
FileOf(t, n) == t.subs[t.subs[n][1]][1]
TimedWaits(t) == {n \in NodesOf(t) : t.kind[n] = "io" /\ t.kind[WaitOf(t, n)] = "any"}

FirstWaits(e, s, st, a, run, lp) ==
  LET made == st[Frame(e)] = "fresh"
      first == st[<<e, 1>>] = "fresh" /\ st[Frame(s)] = "fresh"
  IN  /\ made => st[Frame(s)] = "fresh"
      /\ run = Frame(s) => ~made
      /\ \A i \in 1 .. Len(lp) :
           lp[i] = e =>
             /\ i = Len(lp) /\ a[e] = 1
             /\ run \in {<<e, 1>>, Frame(s), Nobody}
             /\ run = <<e, 1>> => first
             /\ run = Frame(s) => st[Frame(s)] = "fresh"

WaitsInTurn(t, st, a, run, lp) ==
  \A n \in TimedWaits(t) : FirstWaits(WaitOf(t, n), FileOf(t, n), st, a, run, lp)

(* Types, and the bounds of the counters that the code's guards give.      *)
Typed(t, st, p, o, run, lp) ==
  /\ t \in Trees
  /\ st \in [FramesOfTree(t) -> States]
  /\ p \in [FramesOfTree(t) -> FramesOfTree(t) \cup {Nobody}]
  /\ o \in [FramesOfTree(t) -> {"none", "value", "thrown", "timeout"}]
  /\ run \in FramesOfTree(t) \cup {Nobody}
  /\ lp \in Seq(Combs(t))

Bounded(t, a, x, c) ==
  /\ a \in [NodesOf(t) -> Nat] /\ x \in [NodesOf(t) -> Nat] /\ c \in [NodesOf(t) -> Nat]
  /\ \A n \in NodesOf(t) :
       /\ a[n] <= IF t.kind[n] = "io" THEN MaxTries ELSE Len(t.subs[n])
       /\ x[n] <= Len(t.subs[n])
       /\ n \notin Combs(t) => c[n] = 0

ArmedWait(t, st, held) ==
  \A f \in held : \E n \in NodesOf(t) :
    f = Frame(n) /\ t.kind[n] \in Leaves /\ st[f] \in {"suspended", "done"}

TypeInv ==
  /\ Typed(tree, state, prev, outcome, running, loops)
  /\ Bounded(tree, at, index, count)
  /\ ArmedWait(tree, state, armed)
MakingInv ==
  /\ MadeInTurn(tree, state, at)
  /\ RootFirst(tree, state, at, running)
  /\ HelpersAfter(tree, state)
CombinatorInv ==
  /\ CountsEnded(tree, state, count)
  /\ NoLeafBefore(tree, prev)
  /\ LoopsOnce(tree, state, at, loops)
  /\ WaitsInTurn(tree, state, at, running, loops)

Inv == TypeInv /\ MakingInv /\ CombinatorInv
-----------------------------------------------------------------------------
(* What a tree is. *)
LEMMA TreeNodes ==
  ASSUME NEW t \in Trees, NEW n \in NodesOf(t)
  PROVE  /\ Root \in NodesOf(t)
         /\ t.kind[n] \in Leaves \cup Bodies \cup Combinators \cup {"run"}
         /\ t.kind[n] = "run" <=> n = Root
         /\ t.owner[n] \in NodesOf(t) /\ t.stmt[n] \in Nat
         /\ t.kind[t.owner[n]] \in Bodies \cup {"run"}
         /\ t.stmt[n] = 0 /\ n # Root => t.stmt[t.owner[n]] # 0
         /\ t.subs[n] \in Seq(NodesOf(t))
         /\ Len(t.subs[n]) \in Nat /\ DOMAIN t.subs[n] = 1 .. Len(t.subs[n])
         /\ t.kind[n] \in Leaves => t.subs[n] = <<>>
         /\ t.kind[n] \in {"run", "io"} => Len(t.subs[n]) = 1
         /\ t.kind[n] \in {"task", "all"} => t.subs[n] # <<>>
<1>1. IsTree(t)
  BY TreesAssumption
<1>2. /\ t.subs[n] \in Seq(NodesOf(t))
      /\ Root \in NodesOf(t)
      /\ t.kind \in [NodesOf(t) -> Leaves \cup Bodies \cup Combinators \cup {"run"}]
  BY <1>1 DEF IsTree, NodesOf
<1>3. Len(t.subs[n]) \in Nat /\ DOMAIN t.subs[n] = 1 .. Len(t.subs[n])
  BY <1>2, LenProperties
<1> QED
  BY <1>1, <1>2, <1>3 DEF IsTree, NodesOf

LEMMA TreeSubs ==
  ASSUME NEW t \in Trees, NEW n \in NodesOf(t), NEW i \in DOMAIN t.subs[n]
  PROVE  LET m == t.subs[n][i] IN
         /\ m \in NodesOf(t) \ {Root}
         /\ t.kind[n] \in Combinators
              => t.owner[m] = t.owner[n] /\ t.stmt[m] \in {0, t.stmt[n]}
         /\ t.kind[n] \notin Combinators => t.owner[m] = n /\ t.stmt[m] = i
<1>1. IsTree(t)
  BY TreesAssumption
<1>2. t.subs[n] \in Seq(NodesOf(t)) /\ DOMAIN t.subs[n] = 1 .. Len(t.subs[n])
  BY TreeNodes
<1>3. t.subs[n][i] \in NodesOf(t)
  BY <1>2, ElementOfSeq
<1>4. \A j \in DOMAIN t.subs[n] :
        /\ t.subs[n][j] # Root
        /\ t.kind[n] \in Combinators
             => t.owner[t.subs[n][j]] = t.owner[n] /\ t.stmt[t.subs[n][j]] \in {0, t.stmt[n]}
        /\ t.kind[n] \notin Combinators
             => t.owner[t.subs[n][j]] = n /\ t.stmt[t.subs[n][j]] = j
  BY <1>1, Zenon DEF IsTree, NodesOf
<1> QED
  BY <1>3, <1>4

LEMMA TreeAbove ==
  ASSUME NEW t \in Trees, NEW n \in NodesOf(t)
  PROVE  /\ t.above[Root] = {}
         /\ n \notin t.above[n] /\ t.above[n] \subseteq NodesOf(t)
         /\ \A x \in t.above[n] :
              /\ t.above[x] \subseteq t.above[n]
              /\ t.kind[x] \in Bodies \cup {"run"} => x = t.owner[n] \/ x \in t.above[t.owner[n]]
         /\ n # Root => t.owner[n] \in t.above[n]
         /\ n # Root => \E x \in NodesOf(t) : \E i \in DOMAIN t.subs[x] : t.subs[x][i] = n
         /\ t.inside[n] = {x \in NodesOf(t) :
                             x = n \/ (t.kind[n] \in Bodies \cup {"run"} /\ n \in t.above[x])}
<1>1. IsRooted(t)
  BY TreesAssumption DEF IsTree
<1>2. t.above[Root] = {}
  BY <1>1 DEF IsRooted
<1>3. /\ n # Root => t.owner[n] \in t.above[n] /\ \E x \in NodesOf(t) : \E i \in DOMAIN t.subs[x] : t.subs[x][i] = n
      /\ n \notin t.above[n] /\ t.above[n] \subseteq NodesOf(t)
      /\ \A x \in t.above[n] :
           /\ t.above[x] \subseteq t.above[n]
           /\ t.kind[x] \in Bodies \cup {"run"} => x = t.owner[n] \/ x \in t.above[t.owner[n]]
      /\ t.inside[n] = {x \in NodesOf(t) :
                          x = n \/ (t.kind[n] \in Bodies \cup {"run"} /\ n \in t.above[x])}
  BY <1>1, Zenon DEF IsRooted, NodesOf
<1> QED
  BY <1>2, <1>3

LEMMA TreeEdge ==
  ASSUME NEW t \in Trees, NEW n \in NodesOf(t), NEW i \in DOMAIN t.subs[n]
  PROVE  LET m == t.subs[n][i] IN
         /\ t.above[m] = t.above[n] \cup {n}
         /\ \A x \in NodesOf(t) : \A j \in DOMAIN t.subs[x] : t.subs[x][j] = m => x = n /\ j = i
<1>1. IsRooted(t)
  BY TreesAssumption DEF IsTree
<1> QED
  BY <1>1, ZenonT(30) DEF IsRooted, NodesOf

LEMMA TreeInside ==
  ASSUME NEW t \in Trees, NEW n \in NodesOf(t)
  PROVE  /\ n \in t.inside[n]
         /\ \A x \in NodesOf(t) \ {Root} :
              x \in t.inside[n] <=> x = n \/ t.owner[x] \in t.inside[n]
<1> DEFINE IsBody == t.kind[n] \in Bodies \cup {"run"}
<1>1. t.inside[n] = {x \in NodesOf(t) : x = n \/ (IsBody /\ n \in t.above[x])}
  BY TreeAbove
<1>2. ASSUME NEW x \in NodesOf(t) \ {Root}
      PROVE  x \in t.inside[n] <=> x = n \/ t.owner[x] \in t.inside[n]
  <2>1. /\ t.owner[x] \in NodesOf(t) /\ t.owner[x] \in t.above[x]
        /\ t.above[t.owner[x]] \subseteq t.above[x]
        /\ t.kind[t.owner[x]] \in Bodies \cup {"run"}
    BY TreeNodes, TreeAbove
  <2>2. n \in t.above[x] /\ IsBody => n = t.owner[x] \/ n \in t.above[t.owner[x]]
    BY TreeAbove
  <2> QED
    BY <1>1, <2>1, <2>2
<1> QED
  BY <1>1, <1>2

(* The when_any of a file operation. *)
LEMMA TimedWait ==
  ASSUME NEW t \in Trees, NEW n \in TimedWaits(t)
  PROVE  LET e == WaitOf(t, n)
             s == FileOf(t, n) IN
         /\ n \in NodesOf(t) /\ e \in Combs(t) \ {Root} /\ s \in NodesOf(t) \ {Root}
         /\ t.kind[n] = "io" /\ t.kind[e] = "any" /\ t.kind[s] = "event"
         /\ Len(t.subs[e]) = 2 /\ t.subs[e][1] = s /\ DOMAIN t.subs[e] = {1, 2}
         /\ t.owner[e] = n /\ t.owner[s] = n /\ t.stmt[e] = 1 /\ t.stmt[s] = 1
         /\ \A x \in NodesOf(t) \ {Root} :
              t.owner[x] = n => t.stmt[x] = 1 /\ (x = e \/ t.kind[x] \in {"event", "timer"})
         /\ \A x \in NodesOf(t), i \in Nat : i \in DOMAIN t.subs[x] /\ t.subs[x][i] = s => x = e
<1> DEFINE e == WaitOf(t, n)
           s == FileOf(t, n)
<1>1. n \in NodesOf(t) /\ t.kind[n] = "io" /\ t.kind[e] = "any" /\ s = t.subs[e][1]
  BY DEF TimedWaits, FileOf, WaitOf
<1>2. IsWait(t, n)
  BY <1>1, TreesAssumption DEF IsTree, NodesOf
<1>3. e = t.subs[n][1] /\ Len(t.subs[n]) = 1 /\ 1 \in DOMAIN t.subs[n]
  <2>1. Len(t.subs[n]) = 1 /\ DOMAIN t.subs[n] = 1 .. Len(t.subs[n])
    BY <1>1, TreeNodes
  <2> QED
    BY <2>1 DEF WaitOf
<1>4. e \in NodesOf(t) \ {Root} /\ t.owner[e] = n /\ t.stmt[e] = 1
  BY <1>1, <1>3, TreeSubs DEF Combinators
<1>5. /\ Len(t.subs[e]) = 2 /\ t.kind[s] = "event" /\ t.kind[t.subs[e][2]] = "timer"
      /\ \A m \in NodesOf(t) \ {Root} :
           t.owner[m] = n =>
             t.stmt[m] = 1 /\ (m = e \/ (\E i \in DOMAIN t.subs[e] : m = t.subs[e][i]))
  <2>1. \A m \in NodesOf(t) \ {Root} : t.owner[m] = n => n \in t.above[m]
    BY TreeAbove
  <2>2. /\ Len(t.subs[e]) = 2 /\ t.kind[s] = "event" /\ t.kind[t.subs[e][2]] = "timer"
        /\ \A m \in NodesOf(t) :
             n \in t.above[m] =>
               t.stmt[m] = 1 /\ (m = e \/ (\E i \in DOMAIN t.subs[e] : m = t.subs[e][i]))
    BY <1>1, <1>2, <1>3 DEF IsWait, NodesOf
  <2> QED
    BY <2>1, <2>2
<1>6. DOMAIN t.subs[e] = {1, 2}
  <2>1. DOMAIN t.subs[e] = 1 .. Len(t.subs[e])
    BY <1>4, TreeNodes
  <2> QED
    BY <1>5, <2>1
<1>7. s \in NodesOf(t) \ {Root} /\ t.owner[s] = n
  BY <1>1, <1>4, <1>6, TreeSubs DEF Combinators
<1>8. \A x \in NodesOf(t) \ {Root} :
        t.owner[x] = n => t.stmt[x] = 1 /\ (x = e \/ t.kind[x] \in {"event", "timer"})
  BY <1>1, <1>5, <1>6
<1>9. ASSUME NEW x \in NodesOf(t), NEW i \in Nat, i \in DOMAIN t.subs[x], t.subs[x][i] = s
      PROVE  x = e
  <2>1. CASE t.kind[x] \in Combinators
    <3>1. t.owner[x] = n
      BY <1>7, <1>9, <2>1, TreeSubs
    <3>2. x # Root
      BY <2>1, TreeNodes DEF Combinators
    <3> QED
      BY <1>8, <2>1, <3>1, <3>2 DEF Combinators
  <2>2. CASE t.kind[x] \notin Combinators
    <3>1. x = n /\ t.stmt[s] = i
      BY <1>7, <1>9, <2>2, TreeSubs
    <3>2. i = 1
      BY <1>7, <1>8, <3>1
    <3> QED
      BY <1>1, <1>3, <1>5, <1>9, <3>1, <3>2
  <2> QED
    BY <2>1, <2>2
<1>10. e \in Combs(t)
  BY <1>1, <1>4 DEF Combs, Combinators
<1> HIDE DEF e, s
<1>11. /\ n \in NodesOf(t) /\ e \in Combs(t) \ {Root} /\ s \in NodesOf(t) \ {Root}
       /\ t.kind[n] = "io" /\ t.kind[e] = "any" /\ t.kind[s] = "event"
       /\ Len(t.subs[e]) = 2 /\ t.subs[e][1] = s /\ DOMAIN t.subs[e] = {1, 2}
       /\ t.owner[e] = n /\ t.owner[s] = n /\ t.stmt[e] = 1 /\ t.stmt[s] = 1
  BY <1>1, <1>4, <1>5, <1>6, <1>7, <1>8, <1>10
<1> QED
  BY <1>8, <1>9, <1>11 DEF e, s

(* The frames. *)
LEMMA FrameKinds ==
  ASSUME NEW t \in Trees
  PROVE  /\ \A n \in NodesOf(t) : Frame(n) \in FramesOfTree(t)
         /\ \A n \in Combs(t) : \A i \in DOMAIN t.subs[n] : <<n, i>> \in FramesOfTree(t)
         /\ \A f \in FramesOfTree(t) :
              \/ \E n \in NodesOf(t) : f = Frame(n)
              \/ \E n \in Combs(t) : \E i \in DOMAIN t.subs[n] : f = <<n, i>>
         /\ Nobody \notin FramesOfTree(t)
         /\ \A n \in NodesOf(t), m \in NodesOf(t) : Frame(n) = Frame(m) => n = m
         /\ \A n \in NodesOf(t), m \in NodesOf(t) : \A i \in DOMAIN t.subs[n] : <<n, i>> # Frame(m)
<1>1. \A n \in NodesOf(t) : DOMAIN t.subs[n] \subseteq Nat \ {0}
  <2>1. SUFFICES ASSUME NEW n \in NodesOf(t) PROVE DOMAIN t.subs[n] \subseteq Nat \ {0}
    OBVIOUS
  <2>2. DOMAIN t.subs[n] = 1 .. Len(t.subs[n])
    BY TreeNodes
  <2> QED
    BY <2>2
<1>2. Nobody \notin NodesOf(t) \X Nat
  BY TreesAssumption DEF NodesOf
<1>3. FramesOfTree(t) \subseteq NodesOf(t) \X Nat
  BY <1>1 DEF FramesOfTree, NodesOf
<1>4. Nobody \notin FramesOfTree(t)
  BY <1>2, <1>3
<1>5. /\ \A n \in NodesOf(t) : Frame(n) \in FramesOfTree(t)
      /\ \A n \in Combs(t) : \A i \in DOMAIN t.subs[n] : <<n, i>> \in FramesOfTree(t)
  BY DEF FramesOfTree, NodesOf, Combs, Frame
<1>6. \A f \in FramesOfTree(t) :
        \/ \E n \in NodesOf(t) : f = Frame(n)
        \/ \E n \in Combs(t) : \E i \in DOMAIN t.subs[n] : f = <<n, i>>
  BY DEF FramesOfTree, NodesOf, Combs, Frame
<1>7. \A n \in NodesOf(t), m \in NodesOf(t) : Frame(n) = Frame(m) => n = m
  BY DEF Frame
<1>8. \A n \in NodesOf(t), m \in NodesOf(t) : \A i \in DOMAIN t.subs[n] : <<n, i>> # Frame(m)
  BY <1>1 DEF Frame
<1> QED
  BY <1>4, <1>5, <1>6, <1>7, <1>8

LEMMA MakerKind ==
  ASSUME NEW t \in Trees, NEW m \in NodesOf(t) \ {Root}
  PROVE  /\ Maker(t, m) \in NodesOf(t) /\ t.kind[Maker(t, m)] \in Bodies \cup {"run"}
         /\ MakerStmt(t, m) \in Nat \ {0}
<1>1. /\ t.owner[m] \in NodesOf(t) /\ t.stmt[m] \in Nat /\ t.kind[t.owner[m]] \in Bodies \cup {"run"}
      /\ t.stmt[m] = 0 => t.stmt[t.owner[m]] # 0
  BY TreeNodes
<1>2. /\ t.owner[t.owner[m]] \in NodesOf(t) /\ t.stmt[t.owner[m]] \in Nat
      /\ t.kind[t.owner[t.owner[m]]] \in Bodies \cup {"run"}
  BY <1>1, TreeNodes
<1> QED
  BY <1>1, <1>2 DEF Maker, MakerStmt

-----------------------------------------------------------------------------
(* How the states of the frames change: frame f comes to s, freed are      *)
(* destroyed, made are created.                                            *)
Change(t, st, f, s, freed, made) ==
  [g \in FramesOfTree(t) |->
     IF g = f THEN s
     ELSE IF g \in made THEN "fresh"
     ELSE IF g \in freed /\ st[g] # "none" THEN "freed" ELSE st[g]]

LEMMA ChangeIs ==
  ASSUME NEW t, NEW st \in [FramesOfTree(t) -> States],
         NEW f \in FramesOfTree(t), NEW s \in States, NEW freed, NEW made
  PROVE  LET st2 == Change(t, st, f, s, freed, made) IN
         /\ st2 \in [FramesOfTree(t) -> States]
         /\ st2[f] = s
         /\ \A g \in FramesOfTree(t) \ {f} :
              st2[g] = IF g \in made THEN "fresh"
                       ELSE IF g \in freed /\ st[g] # "none" THEN "freed" ELSE st[g]
BY DEF Change, States

(* No frame is made, and those that are there go on. *)
Later(t, st, st2) ==
  /\ st2 \in [FramesOfTree(t) -> States]
  /\ \A g \in FramesOfTree(t) :
       \/ st2[g] = st[g]
       \/ st[g] \in {"fresh", "suspended"} /\ st2[g] \in {"suspended", "done"}
       \/ st[g] # "none" /\ st2[g] = "freed"

LEMMA ChangeLater ==
  ASSUME NEW t, NEW st \in [FramesOfTree(t) -> States],
         NEW f \in FramesOfTree(t), NEW s \in {"suspended", "done", "freed"}, NEW freed,
         st[f] \in {"fresh", "suspended"}
  PROVE  Later(t, st, Change(t, st, f, s, freed, {}))
<1> DEFINE st2 == Change(t, st, f, s, freed, {})
<1>1. /\ st2 \in [FramesOfTree(t) -> States]
      /\ st2[f] = s
      /\ \A g \in FramesOfTree(t) \ {f} :
           st2[g] = IF g \in {} THEN "fresh"
                    ELSE IF g \in freed /\ st[g] # "none" THEN "freed" ELSE st[g]
  <2>1. s \in States
    BY DEF States
  <2> QED
    BY <2>1, ChangeIs
<1> HIDE DEF st2
<1> QED
  BY <1>1 DEF Later, st2

LEMMA LaterMaking ==
  ASSUME NEW t \in Trees, NEW st, NEW st2, Later(t, st, st2), NEW a, NEW a2,
         \A n \in NodesOf(t) : t.kind[n] \in Bodies \cup {"run"} => a2[n] = a[n],
         MadeInTurn(t, st, a), HelpersAfter(t, st)
  PROVE  MadeInTurn(t, st2, a2) /\ HelpersAfter(t, st2)
<1>1. \A g \in FramesOfTree(t) :
        /\ st2[g] \in Unborn => st2[g] = st[g]
        /\ st[g] = "none" => st2[g] = "none"
        /\ st[g] = "freed" => st2[g] = "freed"
  BY DEF Later, Unborn
<1>2. \A m \in NodesOf(t) \ {Root} :
        Maker(t, m) # Root /\ a2[Maker(t, m)] < MakerStmt(t, m) => st2[Frame(m)] = "none"
  BY <1>1, MakerKind, FrameKinds DEF MadeInTurn
<1>3. \A n \in NodesOf(t) :
        t.kind[n] \in Bodies \cup {"run"} /\ st2[Frame(n)] \in Unborn => a2[n] = 0
  BY <1>1, FrameKinds DEF MadeInTurn
<1>4. \A n \in Combs(t) : \A i \in DOMAIN t.subs[n] :
        st2[Frame(n)] \in Unborn => st2[<<n, i>>] \in {"none", "freed"}
  <2>1. SUFFICES ASSUME NEW n \in Combs(t), NEW i \in DOMAIN t.subs[n], st2[Frame(n)] \in Unborn
                 PROVE  st2[<<n, i>>] \in {"none", "freed"}
    OBVIOUS
  <2>2. n \in NodesOf(t) /\ Frame(n) \in FramesOfTree(t) /\ <<n, i>> \in FramesOfTree(t)
    BY FrameKinds DEF Combs
  <2>3. st[<<n, i>>] \in {"none", "freed"}
    BY <1>1, <2>1, <2>2 DEF HelpersAfter
  <2> QED
    BY <1>1, <2>2, <2>3
<1> QED
  BY <1>2, <1>3, <1>4 DEF MadeInTurn, HelpersAfter

LEMMA EndedFinite ==
  ASSUME NEW t \in Trees, NEW st, NEW n \in Combs(t)
  PROVE  /\ Ended(t, st, n) \subseteq 1 .. Len(t.subs[n]) /\ IsFiniteSet(Ended(t, st, n))
         /\ Cardinality(Ended(t, st, n)) \in Nat
         /\ Cardinality(Ended(t, st, n)) <= Len(t.subs[n])
<1> DEFINE L == Len(t.subs[n])
<1>1. L \in Nat /\ DOMAIN t.subs[n] = 1 .. L
  BY TreeNodes DEF Combs
<1>2. IsFiniteSet(1 .. L) /\ Cardinality(1 .. L) = L
  <2>1. Cardinality(1 .. L) = IF 1 > L THEN 0 ELSE L - 1 + 1
    BY <1>1, FS_Interval, SMTT(30)
  <2>2. IsFiniteSet(1 .. L)
    BY <1>1, FS_Interval
  <2> QED
    BY <1>1, <2>1, <2>2
<1>3. Ended(t, st, n) \subseteq 1 .. L
  BY <1>1 DEF Ended
<1>4. IsFiniteSet(Ended(t, st, n)) /\ Cardinality(Ended(t, st, n)) <= L
  BY <1>2, <1>3, FS_Subset
<1>5. Cardinality(Ended(t, st, n)) \in Nat
  BY <1>4, FS_CardinalityType
<1> QED
  BY <1>3, <1>4, <1>5

LEMMA KeptCounts ==
  ASSUME NEW t \in Trees, NEW st, NEW st2, NEW c, NEW c2,
         \A n \in Combs(t) : \A i \in DOMAIN t.subs[n] :
           st[<<n, i>>] \in {"done", "freed"} => st2[<<n, i>>] \in {"done", "freed"},
         \A n \in Combs(t) : c[n] \in Nat /\ c2[n] = c[n],
         CountsEnded(t, st, c)
  PROVE  CountsEnded(t, st2, c2)
<1>1. SUFFICES ASSUME NEW n \in Combs(t) PROVE c2[n] <= Cardinality(Ended(t, st2, n))
  BY DEF CountsEnded
<1>2. Ended(t, st, n) \subseteq Ended(t, st2, n)
  BY DEF Ended
<1>3. /\ IsFiniteSet(Ended(t, st2, n)) /\ Cardinality(Ended(t, st, n)) \in Nat
      /\ Cardinality(Ended(t, st2, n)) \in Nat
  BY EndedFinite
<1>4. Cardinality(Ended(t, st, n)) <= Cardinality(Ended(t, st2, n))
  BY <1>2, <1>3, FS_Subset
<1>5. c[n] <= Cardinality(Ended(t, st, n)) /\ c[n] \in Nat /\ c2[n] = c[n]
  BY DEF CountsEnded
<1> QED
  BY <1>3, <1>4, <1>5

LEMMA LaterCounts ==
  ASSUME NEW t \in Trees, NEW st, NEW st2, Later(t, st, st2), NEW c, NEW c2,
         \A n \in Combs(t) : c[n] \in Nat /\ c2[n] = c[n],
         CountsEnded(t, st, c)
  PROVE  CountsEnded(t, st2, c2)
<1>1. \A n \in Combs(t) : \A i \in DOMAIN t.subs[n] :
        st[<<n, i>>] \in {"done", "freed"} => st2[<<n, i>>] \in {"done", "freed"}
  BY FrameKinds DEF Later
<1> QED
  BY <1>1, KeptCounts

LEMMA LaterLoops ==
  ASSUME NEW t \in Trees, NEW st, NEW st2, Later(t, st, st2), NEW a, NEW lp \in Seq(Combs(t)),
         LoopsOnce(t, st, a, lp)
  PROVE  LoopsOnce(t, st2, a, lp)
<1>1. ASSUME NEW i \in 1 .. Len(lp) PROVE st2[Frame(lp[i])] \notin Unborn
  <2>1. lp[i] \in Combs(t)
    BY ElementOfSeq
  <2>2. Frame(lp[i]) \in FramesOfTree(t) /\ st[Frame(lp[i])] \notin Unborn
    BY <2>1, FrameKinds DEF Combs, LoopsOnce
  <2> QED
    BY <2>2 DEF Later, Unborn
<1> QED
  BY <1>1 DEF LoopsOnce

LEMMA ChangeArmed ==
  ASSUME NEW t \in Trees, NEW st \in [FramesOfTree(t) -> States],
         NEW f \in FramesOfTree(t), NEW s \in States, NEW freed, NEW made, NEW held,
         ArmedWait(t, st, held), (held \ freed) \cap made = {},
         s = "done" \/ (\A n \in NodesOf(t) : t.kind[n] \in Leaves => f # Frame(n))
  PROVE  ArmedWait(t, Change(t, st, f, s, freed, made), held \ freed)
<1> DEFINE st2 == Change(t, st, f, s, freed, made)
<1>1. /\ st2[f] = s
      /\ \A g \in FramesOfTree(t) \ {f} :
           st2[g] = IF g \in made THEN "fresh"
                    ELSE IF g \in freed /\ st[g] # "none" THEN "freed" ELSE st[g]
  BY ChangeIs
<1> HIDE DEF st2
<1>2. SUFFICES ASSUME NEW g \in held \ freed
               PROVE  \E n \in NodesOf(t) :
                        g = Frame(n) /\ t.kind[n] \in Leaves /\ st2[g] \in {"suspended", "done"}
  BY DEF ArmedWait, st2
<1>3. PICK n \in NodesOf(t) :
        g = Frame(n) /\ t.kind[n] \in Leaves /\ st[g] \in {"suspended", "done"}
  BY DEF ArmedWait
<1>4. g \in FramesOfTree(t)
  BY <1>3, FrameKinds
<1>5. st2[g] \in {"suspended", "done"}
  BY <1>1, <1>2, <1>3, <1>4
<1> QED
  BY <1>3, <1>5

(* With the file of a when_any its call is destroyed. *)
WaitsTogether(t, freed) ==
  \A n \in TimedWaits(t) : Frame(FileOf(t, n)) \in freed => Frame(WaitOf(t, n)) \in freed

LEMMA WaitsEnd ==
  ASSUME NEW t \in Trees, NEW st \in [FramesOfTree(t) -> States], NEW a, NEW a2,
         NEW f \in FramesOfTree(t), NEW x \in {"suspended", "done", "freed"}, NEW freed,
         WaitsTogether(t, freed), NEW run2, NEW lp,
         WaitsInTurn(t, st, a, f, lp),
         \/ st[f] = "suspended"
         \/ \A n \in TimedWaits(t) : f # Frame(FileOf(t, n)) /\ f # <<WaitOf(t, n), 1>>,
         \A n \in NodesOf(t) : t.kind[n] \in Leaves => run2 # Frame(n)
  PROVE  WaitsInTurn(t, Change(t, st, f, x, freed, {}), a2, run2, lp)
<1> DEFINE st2 == Change(t, st, f, x, freed, {})
<1>1. /\ st2[f] = x
      /\ \A g \in FramesOfTree(t) \ {f} :
           st2[g] = IF g \in freed /\ st[g] # "none" THEN "freed" ELSE st[g]
  <2>1. x \in States
    BY DEF States
  <2>2. \A g \in FramesOfTree(t) \ {f} :
           st2[g] = IF g \in {} THEN "fresh"
                    ELSE IF g \in freed /\ st[g] # "none" THEN "freed" ELSE st[g]
    BY <2>1, ChangeIs
  <2>3. st2[f] = x
    BY <2>1, ChangeIs
  <2> QED
    BY <2>2, <2>3
<1> HIDE DEF st2
<1>2. SUFFICES ASSUME NEW n \in TimedWaits(t)
               PROVE  FirstWaits(WaitOf(t, n), FileOf(t, n), st2, a2, run2, lp)
  BY DEF WaitsInTurn, st2
<1> DEFINE e == WaitOf(t, n)
           s == FileOf(t, n)
<1>3. /\ e \in NodesOf(t) /\ s \in NodesOf(t) /\ e \in Combs(t)
      /\ t.kind[s] = "event" /\ DOMAIN t.subs[e] = {1, 2}
  BY TimedWait DEF Combs
<1>4. FirstWaits(e, s, st, a, f, lp)
  BY DEF WaitsInTurn
<1>5. Frame(s) \in freed => Frame(e) \in freed
  BY DEF WaitsTogether
<1>6. st[f] = "suspended" \/ (f # Frame(s) /\ f # <<e, 1>>)
  OBVIOUS
<1> HIDE DEF e, s
<1>7. Frame(e) \in FramesOfTree(t) /\ Frame(s) \in FramesOfTree(t) /\ f # Nobody
  BY <1>3, FrameKinds
<1>8. st2[Frame(e)] = "fresh" => st2[Frame(s)] = "fresh"
  BY <1>1, <1>4, <1>5, <1>7 DEF FirstWaits
<1>9. run2 # Frame(s)
  BY <1>3 DEF Leaves
<1>10. ASSUME NEW i \in 1 .. Len(lp), lp[i] = e PROVE FALSE
  BY <1>4, <1>6, <1>7, <1>10 DEF FirstWaits
<1>11. FirstWaits(e, s, st2, a2, run2, lp)
  BY <1>8, <1>9, <1>10 DEF FirstWaits
<1> QED
  BY <1>11 DEF e, s

(* What is destroyed with a node. *)
LEMMA FramesInIs ==
  ASSUME tree \in Trees, NEW n \in NodesOf(tree)
  PROVE  /\ FramesIn(n) \subseteq FramesOfTree(tree)
         /\ \A m \in NodesOf(tree) : Frame(m) \in FramesIn(n) <=> m \in tree.inside[n]
         /\ \A m \in Combs(tree) : \A i \in DOMAIN tree.subs[m] :
              <<m, i>> \in FramesIn(n) <=> m \in tree.inside[n]
BY FrameKinds DEF FramesIn, Frames, Frame

LEMMA StatementWaits ==
  ASSUME tree \in Trees, NEW n \in NodesOf(tree)
  PROVE  WaitsTogether(tree, StatementFrames(n))
<1> SUFFICES ASSUME NEW w \in TimedWaits(tree), Frame(FileOf(tree, w)) \in StatementFrames(n)
             PROVE  Frame(WaitOf(tree, w)) \in StatementFrames(n)
  BY DEF WaitsTogether
<1> DEFINE e == WaitOf(tree, w)
           s == FileOf(tree, w)
           T == Temporaries(n, Stmt(n))
<1>1. /\ e \in NodesOf(tree) \ {Root} /\ s \in NodesOf(tree) \ {Root}
      /\ tree.owner[e] = w /\ tree.owner[s] = w /\ tree.stmt[e] = 1 /\ tree.stmt[s] = 1
  BY TimedWait DEF Combs
<1>2. T \subseteq NodesOf(tree) \ {Root}
  BY DEF Temporaries, NodesOf
<1>3. PICK m \in T : Frame(s) \in FramesIn(m)
  BY DEF StatementFrames
<1>4. m \in NodesOf(tree) \ {Root}
  BY <1>2
<1>5. CASE m = s
  <2>1. e \in T
    BY <1>1, <1>5 DEF Temporaries, NodesOf
  <2>2. e \in tree.inside[e]
    BY <1>1, TreeInside
  <2>3. Frame(e) \in FramesIn(e)
    BY <1>1, <2>2, FramesInIs
  <2> QED
    BY <2>1, <2>3 DEF StatementFrames
<1>6. CASE m # s
  <2>1. s \in tree.inside[m]
    BY <1>1, <1>3, <1>4, FramesInIs
  <2>2. w \in tree.inside[m]
    BY <1>1, <1>4, <1>6, <2>1, TreeInside
  <2>3. e \in tree.inside[m]
    BY <1>1, <1>4, <2>2, TreeInside
  <2>4. Frame(e) \in FramesIn(m)
    BY <1>1, <1>4, <2>3, FramesInIs
  <2> QED
    BY <2>4 DEF StatementFrames
<1> QED
  BY <1>5, <1>6

LEMMA WrapperWaits ==
  ASSUME tree \in Trees
  PROVE  WaitsTogether(tree, WrapperAndTask)
<1> SUFFICES ASSUME NEW w \in TimedWaits(tree), Frame(FileOf(tree, w)) \in FramesIn(Root)
             PROVE  Frame(WaitOf(tree, w)) \in FramesIn(Root)
  BY DEF WaitsTogether, WrapperAndTask
<1> DEFINE e == WaitOf(tree, w)
           s == FileOf(tree, w)
<1>1. /\ w \in NodesOf(tree) /\ e \in NodesOf(tree) \ {Root} /\ s \in NodesOf(tree) \ {Root}
      /\ tree.owner[e] = w /\ tree.owner[s] = w
  BY TimedWait DEF Combs
<1>2. Root \in NodesOf(tree)
  BY <1>1, TreeNodes
<1>3. s \in tree.inside[Root]
  BY <1>1, <1>2, FramesInIs
<1>4. w \in tree.inside[Root]
  BY <1>1, <1>2, <1>3, TreeInside
<1>5. e \in tree.inside[Root]
  BY <1>1, <1>2, <1>4, TreeInside
<1> QED
  BY <1>1, <1>2, <1>5, FramesInIs

LEMMA HelperWaits ==
  ASSUME tree \in Trees, NEW n \in NodesOf(tree)
  PROVE  WaitsTogether(tree, Helpers(n)) /\ WaitsTogether(tree, {})
<1>1. \A m \in NodesOf(tree) : Frame(m) \notin Helpers(n)
  BY FrameKinds DEF Helpers, Subs
<1>2. \A w \in TimedWaits(tree) : FileOf(tree, w) \in NodesOf(tree)
  BY TimedWait
<1> QED
  BY <1>1, <1>2 DEF WaitsTogether

-----------------------------------------------------------------------------
(* The invariant in parts, for the actions to use. *)
LEMMA InvFacts ==
  ASSUME Inv
  PROVE  /\ tree \in Trees
         /\ state \in [FramesOfTree(tree) -> States]
         /\ prev \in [FramesOfTree(tree) -> FramesOfTree(tree) \cup {Nobody}]
         /\ outcome \in [FramesOfTree(tree) -> {"none", "value", "thrown", "timeout"}]
         /\ running \in FramesOfTree(tree) \cup {Nobody}
         /\ loops \in Seq(Combs(tree))
         /\ at \in [NodesOf(tree) -> Nat]
         /\ index \in [NodesOf(tree) -> Nat]
         /\ count \in [NodesOf(tree) -> Nat]
         /\ Root \in NodesOf(tree) /\ Frame(Root) \in FramesOfTree(tree)
         /\ Nobody \notin FramesOfTree(tree)
<1>1. TypeInv
  BY DEF Inv
<1>2. tree \in Trees
  BY <1>1 DEF TypeInv, Typed
<1>3. Root \in NodesOf(tree)
  BY <1>2, TreesAssumption DEF IsTree, NodesOf
<1> QED
  BY <1>1, <1>2, <1>3, FrameKinds DEF TypeInv, Typed, Bounded

(* The wrapper of run_task() has not begun only while it is about to.      *)
LEMMA RootBegun ==
  ASSUME Inv, running # Frame(Root) \/ state[Frame(Root)] # "fresh"
  PROVE  at[Root] # 0
BY DEF Inv, MakingInv, RootFirst

(* A coroutine comes to an end or suspends without making a frame.         *)
LEMMA EndStep ==
  ASSUME Inv, NEW f \in FramesOfTree(tree), running = f,
         NEW s \in {"suspended", "done", "freed"}, NEW freed, WaitsTogether(tree, freed),
         tree' = tree, state' = Change(tree, state, f, s, freed, {}),
         armed' = armed \ freed, at' = at, loops' = loops,
         \/ state[f] = "suspended"
         \/ /\ state[f] = "fresh" /\ f # Frame(Root)
            /\ \A n \in TimedWaits(tree) : f # Frame(FileOf(tree, n)) /\ f # <<WaitOf(tree, n), 1>>,
         s = "done" \/ (\A n \in NodesOf(tree) : tree.kind[n] \in Leaves => f # Frame(n)),
         prev' \in [FramesOfTree(tree) -> FramesOfTree(tree) \cup {Nobody}],
         NoLeafBefore(tree, prev'),
         outcome' \in [FramesOfTree(tree) -> {"none", "value", "thrown", "timeout"}],
         running' \in FramesOfTree(tree) \cup {Nobody},
         \A n \in NodesOf(tree) : tree.kind[n] \in Leaves => running' # Frame(n),
         Bounded(tree, at, index', count'), CountsEnded(tree, state', count')
  PROVE  Inv'
<1>1. /\ tree \in Trees /\ state \in [FramesOfTree(tree) -> States]
      /\ loops \in Seq(Combs(tree)) /\ Frame(Root) \in FramesOfTree(tree)
  BY InvFacts
<1>2. Later(tree, state, state')
  BY <1>1, ChangeLater
<1>3. state' \in [FramesOfTree(tree) -> States]
  BY <1>2 DEF Later
<1>4. ArmedWait(tree, state', armed')
  <2>1. ArmedWait(tree, state, armed) /\ s \in States
    BY DEF Inv, TypeInv, States
  <2> QED
    BY <1>1, <2>1, ChangeArmed
<1>5. TypeInv'
  BY <1>1, <1>3, <1>4 DEF TypeInv, Typed
<1>6. MadeInTurn(tree, state', at') /\ HelpersAfter(tree, state')
  BY <1>1, <1>2, LaterMaking DEF Inv, MakingInv
<1>7. RootFirst(tree, state', at', running')
  BY RootBegun DEF RootFirst
<1>8. LoopsOnce(tree, state', at', loops')
  BY <1>1, <1>2, LaterLoops DEF Inv, CombinatorInv
<1>9. WaitsInTurn(tree, state', at', running', loops')
  BY <1>1, WaitsEnd DEF Inv, CombinatorInv
<1> QED
  BY <1>5, <1>6, <1>7, <1>8, <1>9 DEF Inv, MakingInv, CombinatorInv

(* Finish: control goes to the previous_handle_. *)
LEMMA FinishStep ==
  ASSUME Inv, NEW f \in FramesOfTree(tree),
         NEW r \in {"value", "thrown", "timeout"}, NEW freed, WaitsTogether(tree, freed),
         Finish(f, r, freed), UNCHANGED <<tree, prev, at, count, loops>>,
         running = f,
         \/ state[f] = "suspended"
         \/ /\ state[f] = "fresh" /\ f # Frame(Root)
            /\ \A n \in TimedWaits(tree) : f # Frame(FileOf(tree, n)) /\ f # <<WaitOf(tree, n), 1>>,
         index' \in [NodesOf(tree) -> Nat],
         \A n \in NodesOf(tree) : index'[n] <= Len(tree.subs[n])
  PROVE  Inv'
<1>1. /\ tree \in Trees /\ state \in [FramesOfTree(tree) -> States]
      /\ prev \in [FramesOfTree(tree) -> FramesOfTree(tree) \cup {Nobody}]
      /\ outcome \in [FramesOfTree(tree) -> {"none", "value", "thrown", "timeout"}]
  BY InvFacts
<1>2. /\ state' = Change(tree, state, f, "done", freed, {})
      /\ armed' = armed \ freed /\ outcome' = [outcome EXCEPT ![f] = r] /\ running' = prev[f]
  BY DEF Finish, FinishTo, Become, TakesHandlesBack, Change, Frames
<1>3. tree' = tree /\ prev' = prev /\ at' = at /\ count' = count /\ loops' = loops
  OBVIOUS
<1>4. NoLeafBefore(tree, prev)
  BY DEF Inv, CombinatorInv
<1>5. \A n \in NodesOf(tree) : tree.kind[n] \in Leaves => running' # Frame(n)
  BY <1>2, <1>4 DEF NoLeafBefore
<1>6. Bounded(tree, at, index', count)
  BY DEF Bounded, Inv, TypeInv
<1>7. CountsEnded(tree, state', count)
  <2>1. Later(tree, state, state')
    <3>1. state[f] \in {"fresh", "suspended"}
      OBVIOUS
    <3>2. Later(tree, state, Change(tree, state, f, "done", freed, {}))
      BY <1>1, <3>1, ChangeLater
    <3> QED
      BY <1>2, <3>2
  <2>2. \A n \in Combs(tree) : count[n] \in Nat
    BY InvFacts DEF Combs
  <2> QED
    BY <1>1, <2>1, <2>2, LaterCounts DEF Inv, CombinatorInv
<1>8. /\ outcome' \in [FramesOfTree(tree) -> {"none", "value", "thrown", "timeout"}]
      /\ running' \in FramesOfTree(tree) \cup {Nobody}
  BY <1>1, <1>2
<1> HIDE DEF Inv
<1> QED
  BY <1>1, <1>2, <1>3, <1>4, <1>5, <1>6, <1>7, <1>8, EndStep

-----------------------------------------------------------------------------
(* The actions that finish. *)
LEMMA ReturnStep ==
  ASSUME Inv, NEW n \in NodesOf(tree), NEW r \in {"value", "thrown", "timeout"},
         Resumed(Frame(n)), Return(n, r)
  PROVE  Inv'
<1>1. /\ tree \in Trees /\ index \in [NodesOf(tree) -> Nat]
      /\ \A m \in NodesOf(tree) : index[m] <= Len(tree.subs[m])
  BY InvFacts DEF Inv, TypeInv, Bounded
<1>2. Frame(n) \in FramesOfTree(tree) /\ WaitsTogether(tree, StatementFrames(n))
  BY <1>1, FrameKinds, StatementWaits
<1>3. /\ Finish(Frame(n), r, StatementFrames(n))
      /\ UNCHANGED <<tree, prev, at, count, loops>> /\ index' = index
      /\ running = Frame(n) /\ state[Frame(n)] = "suspended"
  BY DEF Return, Resumed
<1> QED
  BY ONLY Inv, <1>1, <1>2, <1>3, r \in {"value", "thrown", "timeout"}, FinishStep

(* The frames of a leaf, of a combinator and of its helpers are not those  *)
(* that FirstWaits speaks of, unless they are suspended.                   *)
LEMMA NotFirst ==
  ASSUME NEW t \in Trees, NEW n \in NodesOf(t),
         t.kind[n] = "now" \/ (t.kind[n] = "any" /\ t.subs[n] = <<>>)
  PROVE  /\ Frame(n) # Frame(Root)
         /\ \A w \in TimedWaits(t) : Frame(n) # Frame(FileOf(t, w)) /\ Frame(n) # <<WaitOf(t, w), 1>>
<1>1. Root \in NodesOf(t) /\ n # Root
  BY TreeNodes
<1>2. ASSUME NEW w \in TimedWaits(t)
      PROVE  Frame(n) # Frame(FileOf(t, w)) /\ Frame(n) # <<WaitOf(t, w), 1>>
  <2>1. /\ WaitOf(t, w) \in NodesOf(t) /\ FileOf(t, w) \in NodesOf(t)
        /\ t.kind[FileOf(t, w)] = "event" /\ 1 \in DOMAIN t.subs[WaitOf(t, w)]
    BY TimedWait DEF Combs
  <2>2. FileOf(t, w) # n
    BY <2>1
  <2> QED
    BY <2>1, <2>2, FrameKinds
<1> QED
  BY <1>1, <1>2, FrameKinds

LEMMA EndLeafStep ==
  ASSUME Inv, NEW n \in NodesOf(tree), EndLeaf(n)
  PROVE  Inv'
<1> DEFINE r == IF Kind(n) = "fail" THEN "thrown" ELSE "value"
<1>1. /\ tree \in Trees /\ index \in [NodesOf(tree) -> Nat]
      /\ \A m \in NodesOf(tree) : index[m] <= Len(tree.subs[m])
  BY InvFacts DEF Inv, TypeInv, Bounded
<1>2. Frame(n) \in FramesOfTree(tree) /\ WaitsTogether(tree, {})
  BY <1>1, FrameKinds, HelperWaits
<1>3. /\ Finish(Frame(n), r, {})
      /\ UNCHANGED <<tree, prev, at, count, loops>> /\ index' = index
      /\ running = Frame(n)
      /\ IF tree.kind[n] = "now" THEN state[Frame(n)] = "fresh" ELSE state[Frame(n)] = "suspended"
  BY DEF EndLeaf, Entered, Resumed, Kind
<1>4. r \in {"value", "thrown", "timeout"}
  OBVIOUS
<1> HIDE DEF r
<1>5. \/ state[Frame(n)] = "suspended"
      \/ /\ state[Frame(n)] = "fresh" /\ Frame(n) # Frame(Root)
         /\ \A w \in TimedWaits(tree) :
              Frame(n) # Frame(FileOf(tree, w)) /\ Frame(n) # <<WaitOf(tree, w), 1>>
  BY <1>1, <1>3, NotFirst
<1> QED
  BY ONLY Inv, <1>1, <1>2, <1>3, <1>4, <1>5, FinishStep

LEMMA ReturnEmptyStep ==
  ASSUME Inv, NEW n \in NodesOf(tree), ReturnEmpty(n)
  PROVE  Inv'
<1>1. /\ tree \in Trees /\ index \in [NodesOf(tree) -> Nat]
      /\ \A m \in NodesOf(tree) : index[m] <= Len(tree.subs[m])
  BY InvFacts DEF Inv, TypeInv, Bounded
<1>2. Frame(n) \in FramesOfTree(tree) /\ WaitsTogether(tree, {})
  BY <1>1, FrameKinds, HelperWaits
<1>3. /\ Finish(Frame(n), "value", {}) /\ tree.kind[n] = "any" /\ tree.subs[n] = <<>>
      /\ UNCHANGED <<tree, prev, at, count, loops>>
      /\ running = Frame(n) /\ state[Frame(n)] = "fresh" /\ index' = [index EXCEPT ![n] = 0]
  BY DEF ReturnEmpty, Entered, Kind, Subs
<1>4. /\ index' \in [NodesOf(tree) -> Nat]
      /\ \A m \in NodesOf(tree) : index'[m] <= Len(tree.subs[m])
  <2>1. Len(tree.subs[n]) \in Nat
    BY <1>1, TreeNodes
  <2> QED
    BY <1>1, <1>3, <2>1
<1>5. /\ Frame(n) # Frame(Root)
      /\ \A w \in TimedWaits(tree) :
           Frame(n) # Frame(FileOf(tree, w)) /\ Frame(n) # <<WaitOf(tree, w), 1>>
  BY <1>1, <1>3, NotFirst
<1>6. "value" \in {"value", "thrown", "timeout"}
  OBVIOUS
<1> QED
  BY ONLY Inv, <1>1, <1>2, <1>3, <1>4, <1>5, <1>6, FinishStep

LEMMA EndCombinatorStep ==
  ASSUME Inv, NEW n \in NodesOf(tree), EndCombinator(n)
  PROVE  Inv'
<1>1. /\ tree \in Trees /\ index \in [NodesOf(tree) -> Nat]
      /\ \A m \in NodesOf(tree) : index[m] <= Len(tree.subs[m])
  BY InvFacts DEF Inv, TypeInv, Bounded
<1>2. Frame(n) \in FramesOfTree(tree) /\ WaitsTogether(tree, Helpers(n))
  BY <1>1, FrameKinds, HelperWaits
<1>3. /\ Finish(Frame(n), "value", Helpers(n))
      /\ UNCHANGED <<tree, prev, at, count, loops>> /\ index' = index
      /\ running = Frame(n) /\ state[Frame(n)] = "suspended"
  BY DEF EndCombinator, Resumed
<1>4. "value" \in {"value", "thrown", "timeout"}
  OBVIOUS
<1> QED
  BY ONLY Inv, <1>1, <1>2, <1>3, <1>4, FinishStep

LEMMA FailHelperStep ==
  ASSUME Inv, NEW n \in Combs(tree), NEW i \in DOMAIN tree.subs[n], FailHelper(n, i)
  PROVE  Inv'
<1>1. /\ tree \in Trees /\ index \in [NodesOf(tree) -> Nat]
      /\ \A m \in NodesOf(tree) : index[m] <= Len(tree.subs[m])
  BY InvFacts DEF Inv, TypeInv, Bounded
<1>2. <<n, i>> \in FramesOfTree(tree) /\ WaitsTogether(tree, {})
  BY <1>1, FrameKinds, HelperWaits DEF Combs
<1>3. /\ Finish(<<n, i>>, "thrown", {})
      /\ UNCHANGED <<tree, prev, at, count, loops>> /\ index' = index
      /\ running = <<n, i>> /\ state[<<n, i>>] = "suspended"
  BY DEF FailHelper, Resumed
<1>4. "thrown" \in {"value", "thrown", "timeout"}
  OBVIOUS
<1> QED
  BY ONLY Inv, <1>1, <1>2, <1>3, <1>4, FinishStep

LEMMA EndAnyHelperStep ==
  ASSUME Inv, NEW n \in Combs(tree), NEW i \in DOMAIN tree.subs[n], EndAnyHelper(n, i)
  PROVE  Inv'
<1>1. /\ tree \in Trees /\ index \in [NodesOf(tree) -> Nat]
      /\ \A m \in NodesOf(tree) : index[m] <= Len(tree.subs[m])
  BY InvFacts DEF Inv, TypeInv, Bounded
<1>2. <<n, i>> \in FramesOfTree(tree) /\ WaitsTogether(tree, {})
  BY <1>1, FrameKinds, HelperWaits DEF Combs
<1>3. /\ Finish(<<n, i>>, "value", {})
      /\ UNCHANGED <<tree, prev, at, count, loops>> /\ index' = [index EXCEPT ![n] = i]
      /\ running = <<n, i>> /\ state[<<n, i>>] = "suspended"
  BY DEF EndAnyHelper, Resumed
<1>4. "value" \in {"value", "thrown", "timeout"}
  OBVIOUS
<1>5. /\ index' \in [NodesOf(tree) -> Nat]
      /\ \A m \in NodesOf(tree) : index'[m] <= Len(tree.subs[m])
  <2>1. /\ n \in NodesOf(tree) /\ Len(tree.subs[n]) \in Nat
        /\ DOMAIN tree.subs[n] = 1 .. Len(tree.subs[n])
    BY <1>1, TreeNodes DEF Combs
  <2>2. i \in Nat /\ i <= Len(tree.subs[n])
    BY <2>1
  <2> QED
    BY <1>1, <1>3, <2>1, <2>2
<1> QED
  BY ONLY Inv, <1>1, <1>2, <1>3, <1>4, <1>5, FinishStep

(* complete_count: the helper that ends was not counted before. *)
LEMMA CountStep ==
  ASSUME NEW t \in Trees, NEW st, NEW st2, Later(t, st, st2),
         NEW c \in [NodesOf(t) -> Nat], CountsEnded(t, st, c),
         NEW n \in Combs(t), NEW i \in DOMAIN t.subs[n],
         st[<<n, i>>] = "suspended", st2[<<n, i>>] = "done"
  PROVE  CountsEnded(t, st2, [c EXCEPT ![n] = @ + 1])
<1> DEFINE c2 == [c EXCEPT ![n] = @ + 1]
<1>1. SUFFICES ASSUME NEW m \in Combs(t) PROVE c2[m] <= Cardinality(Ended(t, st2, m))
  BY DEF CountsEnded
<1>2. Ended(t, st, m) \subseteq Ended(t, st2, m)
  BY FrameKinds DEF Ended, Later
<1>3. /\ IsFiniteSet(Ended(t, st2, m)) /\ Cardinality(Ended(t, st, m)) \in Nat
      /\ IsFiniteSet(Ended(t, st, m)) /\ Cardinality(Ended(t, st2, m)) \in Nat
  BY EndedFinite
<1>4. Cardinality(Ended(t, st, m)) <= Cardinality(Ended(t, st2, m))
  BY <1>2, <1>3, FS_Subset
<1>5. c[m] <= Cardinality(Ended(t, st, m)) /\ c[m] \in Nat
  BY DEF CountsEnded, Combs
<1>6. CASE m # n
  <2>1. c2[m] = c[m]
    BY <1>6 DEF Combs
  <2> QED
    BY <1>3, <1>4, <1>5, <2>1
<1>7. CASE m = n
  <2>1. c2[m] = c[m] + 1
    BY <1>7 DEF Combs
  <2>2. i \notin Ended(t, st, m)
    BY <1>7 DEF Ended
  <2>3. Ended(t, st, m) \cup {i} \subseteq Ended(t, st2, m)
    BY <1>2, <1>7 DEF Ended
  <2>4. Cardinality(Ended(t, st, m) \cup {i}) = Cardinality(Ended(t, st, m)) + 1
    BY <1>3, <2>2, FS_AddElement
  <2>5. Cardinality(Ended(t, st, m) \cup {i}) <= Cardinality(Ended(t, st2, m))
    BY <1>3, <2>3, FS_Subset
  <2> QED
    BY <1>3, <1>5, <2>1, <2>4, <2>5
<1> QED
  BY <1>6, <1>7

LEMMA EndAllHelperStep ==
  ASSUME Inv, NEW n \in Combs(tree), NEW i \in DOMAIN tree.subs[n], EndAllHelper(n, i)
  PROVE  Inv'
<1> DEFINE f == <<n, i>>
           next == IF LastOfAll(n) THEN Frame(n) ELSE prev[f]
<1>1. /\ tree \in Trees /\ state \in [FramesOfTree(tree) -> States]
      /\ prev \in [FramesOfTree(tree) -> FramesOfTree(tree) \cup {Nobody}]
      /\ outcome \in [FramesOfTree(tree) -> {"none", "value", "thrown", "timeout"}]
      /\ count \in [NodesOf(tree) -> Nat]
  BY InvFacts
<1>2. /\ n \in NodesOf(tree) /\ tree.kind[n] \in Combinators
      /\ f \in FramesOfTree(tree) /\ Frame(n) \in FramesOfTree(tree) /\ WaitsTogether(tree, {})
  BY <1>1, FrameKinds, HelperWaits DEF Combs
<1>3. /\ running = f /\ state[f] = "suspended" /\ running' = next
      /\ state' = Change(tree, state, f, "done", {}, {})
      /\ armed' = armed \ {} /\ outcome' = [outcome EXCEPT ![f] = "value"]
      /\ prev' = [prev EXCEPT ![f] = next] /\ count' = [count EXCEPT ![n] = @ + 1]
      /\ tree' = tree /\ at' = at /\ index' = index /\ loops' = loops
  BY DEF EndAllHelper, Resumed, FinishTo, Become, TakesHandlesBack, Change, Frames
<1>4. next \in FramesOfTree(tree) \cup {Nobody}
  BY <1>1, <1>2
<1>5. \A m \in NodesOf(tree) : tree.kind[m] \in Leaves => next # Frame(m)
  <2>1. \A m \in NodesOf(tree) : tree.kind[m] \in Leaves => Frame(n) # Frame(m)
    BY <1>1, <1>2, FrameKinds DEF Leaves, Combinators
  <2>2. \A m \in NodesOf(tree) : tree.kind[m] \in Leaves => prev[f] # Frame(m)
    BY <1>2 DEF Inv, CombinatorInv, NoLeafBefore
  <2> QED
    BY <2>1, <2>2
<1> HIDE DEF next
<1>6. NoLeafBefore(tree, prev')
  BY <1>1, <1>2, <1>3, <1>5 DEF NoLeafBefore, Inv, CombinatorInv
<1>7. Later(tree, state, state') /\ state'[f] = "done"
  <2>1. "done" \in {"suspended", "done", "freed"} /\ "done" \in States
        /\ state[f] \in {"fresh", "suspended"}
    BY <1>3 DEF States
  <2>2. Later(tree, state, Change(tree, state, f, "done", {}, {}))
    BY <1>1, <1>2, <2>1, ChangeLater
  <2>3. Change(tree, state, f, "done", {}, {})[f] = "done"
    BY <1>1, <1>2, <2>1, ChangeIs
  <2> QED
    BY <1>3, <2>2, <2>3
<1>8. CountsEnded(tree, state', count')
  <2>1. CountsEnded(tree, state, count)
    BY DEF Inv, CombinatorInv
  <2> QED
    BY <1>1, <1>3, <1>7, <2>1, CountStep
<1>9. Bounded(tree, at, index', count')
  BY <1>1, <1>2, <1>3 DEF Bounded, Inv, TypeInv
<1>10. /\ prev' \in [FramesOfTree(tree) -> FramesOfTree(tree) \cup {Nobody}]
       /\ outcome' \in [FramesOfTree(tree) -> {"none", "value", "thrown", "timeout"}]
       /\ running' \in FramesOfTree(tree) \cup {Nobody}
       /\ \A m \in NodesOf(tree) : tree.kind[m] \in Leaves => running' # Frame(m)
  BY <1>1, <1>2, <1>3, <1>4, <1>5
<1>11. "done" \in {"suspended", "done", "freed"} /\ "done" = "done"
  OBVIOUS
<1> HIDE DEF f
<1> QED
  BY ONLY Inv, <1>2, <1>3, <1>6, <1>8, <1>9, <1>10, <1>11, EndStep

LEMMA EndRunStep ==
  ASSUME Inv, EndRun
  PROVE  Inv'
<1> DEFINE f == Frame(Root)
<1>1. /\ tree \in Trees /\ state \in [FramesOfTree(tree) -> States] /\ f \in FramesOfTree(tree)
      /\ prev \in [FramesOfTree(tree) -> FramesOfTree(tree) \cup {Nobody}]
      /\ outcome \in [FramesOfTree(tree) -> {"none", "value", "thrown", "timeout"}]
      /\ count \in [NodesOf(tree) -> Nat] /\ Nobody \notin FramesOfTree(tree)
      /\ Root \in NodesOf(tree)
  BY InvFacts
<1>2. /\ running = f /\ state[f] = "suspended" /\ running' = Nobody
      /\ state' = Change(tree, state, f, "freed", WrapperAndTask, {})
      /\ armed' = armed \ WrapperAndTask /\ outcome' = [outcome EXCEPT ![f] = "value"]
      /\ tree' = tree /\ prev' = prev /\ at' = at /\ index' = index /\ count' = count
      /\ loops' = loops
  BY DEF EndRun, Resumed, Become, TakesHandlesBack, Change, Frames
<1>3. WaitsTogether(tree, WrapperAndTask)
  BY <1>1, WrapperWaits
<1>4. CountsEnded(tree, state', count')
  <2>1. "freed" \in {"suspended", "done", "freed"} /\ state[f] \in {"fresh", "suspended"}
    BY <1>2
  <2>2. Later(tree, state, Change(tree, state, f, "freed", WrapperAndTask, {}))
    BY <1>1, <2>1, ChangeLater
  <2>3. CountsEnded(tree, state, count) /\ \A n \in Combs(tree) : count[n] \in Nat
    BY <1>1 DEF Inv, CombinatorInv, Combs
  <2> QED
    BY <1>1, <1>2, <2>2, <2>3, LaterCounts
<1>5. \A m \in NodesOf(tree) : tree.kind[m] \in Leaves => Frame(m) # f /\ Frame(m) # Nobody
  <2>1. \A m \in NodesOf(tree) : Frame(m) # Nobody
    BY <1>1, FrameKinds
  <2>2. tree.kind[Root] = "run"
    BY <1>1, TreeNodes
  <2> QED
    BY <1>1, <2>1, <2>2, FrameKinds DEF Leaves
<1>6. NoLeafBefore(tree, prev') /\ Bounded(tree, at, index', count')
  BY <1>2 DEF Inv, CombinatorInv, TypeInv, Bounded
<1>7. /\ prev' \in [FramesOfTree(tree) -> FramesOfTree(tree) \cup {Nobody}]
      /\ outcome' \in [FramesOfTree(tree) -> {"none", "value", "thrown", "timeout"}]
      /\ running' \in FramesOfTree(tree) \cup {Nobody}
      /\ \A m \in NodesOf(tree) : tree.kind[m] \in Leaves => running' # Frame(m)
  BY <1>1, <1>2, <1>5
<1>8. "freed" \in {"suspended", "done", "freed"}
      /\ \A m \in NodesOf(tree) : tree.kind[m] \in Leaves => f # Frame(m)
  BY <1>5
<1> HIDE DEF f
<1> QED
  BY ONLY Inv, <1>1, <1>2, <1>3, <1>4, <1>6, <1>7, <1>8, EndStep

-----------------------------------------------------------------------------
(* The actions that suspend, and those of the event loop. *)
LEMMA SuspendChange ==
  ASSUME NEW f, state' = [state EXCEPT ![f] = "suspended"],
         state \in [Frames -> States]
  PROVE  state' = Change(tree, state, f, "suspended", {}, {})
BY DEF Change, Frames

LEMMA SuspendLeafStep ==
  ASSUME Inv, NEW n \in NodesOf(tree), SuspendLeaf(n)
  PROVE  Inv'
<1> DEFINE f == Frame(n)
<1>1. /\ tree \in Trees /\ state \in [FramesOfTree(tree) -> States]
      /\ count \in [NodesOf(tree) -> Nat] /\ Nobody \notin FramesOfTree(tree)
      /\ loops \in Seq(Combs(tree)) /\ running \in FramesOfTree(tree) \cup {Nobody}
  BY InvFacts
<1>2. f \in FramesOfTree(tree)
  BY <1>1, FrameKinds
<1>3. /\ tree.kind[n] \in Leaves /\ running = f /\ state[f] = "fresh" /\ running' = Nobody
      /\ armed' = armed \cup {f}
      /\ tree' = tree /\ prev' = prev /\ outcome' = outcome /\ at' = at /\ index' = index
      /\ count' = count /\ loops' = loops
  BY DEF SuspendLeaf, Entered, Kind
<1>4. state' = Change(tree, state, f, "suspended", {}, {})
  BY <1>1, SuspendChange DEF SuspendLeaf, Frames
<1>5. "suspended" \in {"suspended", "done", "freed"} /\ "suspended" \in States
      /\ state[f] \in {"fresh", "suspended"}
  BY <1>3 DEF States
<1>6. Later(tree, state, state')
  BY <1>1, <1>2, <1>4, <1>5, ChangeLater
<1>7. /\ state'[f] = "suspended"
      /\ \A g \in FramesOfTree(tree) \ {f} : state'[g] = state[g]
  BY <1>1, <1>2, <1>3 DEF SuspendLeaf
<1>8. ArmedWait(tree, state', armed')
  <2>1. SUFFICES ASSUME NEW g \in armed \cup {f}
                 PROVE  \E m \in NodesOf(tree) :
                          /\ g = Frame(m) /\ tree.kind[m] \in Leaves
                          /\ state'[g] \in {"suspended", "done"}
    BY <1>3 DEF ArmedWait
  <2>2. CASE g = f
    BY <1>3, <1>7, <2>2
  <2>3. CASE g # f
    <3>1. PICK m \in NodesOf(tree) :
            g = Frame(m) /\ tree.kind[m] \in Leaves /\ state[g] \in {"suspended", "done"}
      BY <2>1, <2>3 DEF Inv, TypeInv, ArmedWait
    <3>2. g \in FramesOfTree(tree)
      BY <1>1, <3>1, FrameKinds
    <3> QED
      BY <1>7, <2>3, <3>1, <3>2
  <2> QED
    BY <2>2, <2>3
<1>9. TypeInv'
  <2>1. state' \in [FramesOfTree(tree) -> States]
    BY <1>6 DEF Later
  <2> QED
    BY <1>3, <1>8, <2>1 DEF Inv, TypeInv, Typed, Bounded
<1>10. MakingInv'
  <2>1. MadeInTurn(tree, state', at) /\ HelpersAfter(tree, state')
    BY <1>1, <1>6, LaterMaking DEF Inv, MakingInv
  <2>2. f # Frame(Root)
    <3>1. n # Root /\ Root \in NodesOf(tree)
      BY <1>1, <1>3, TreeNodes DEF Leaves
    <3> QED
      BY <1>1, <3>1, FrameKinds
  <2>3. RootFirst(tree, state', at, running')
    BY <1>3, <2>2, RootBegun DEF RootFirst
  <2> QED
    BY <1>3, <2>1, <2>3 DEF MakingInv
<1>11. WaitsInTurn(tree, state', at, running', loops)
  <2>1. SUFFICES ASSUME NEW w \in TimedWaits(tree)
                 PROVE  FirstWaits(WaitOf(tree, w), FileOf(tree, w), state', at, running', loops)
    BY DEF WaitsInTurn
  <2> DEFINE e == WaitOf(tree, w)
             s == FileOf(tree, w)
  <2>2. /\ e \in NodesOf(tree) /\ s \in NodesOf(tree) /\ tree.kind[e] = "any"
        /\ 1 \in DOMAIN tree.subs[e]
    BY <1>1, TimedWait DEF Combs
  <2>3. FirstWaits(e, s, state, at, f, loops)
    BY <1>3 DEF Inv, CombinatorInv, WaitsInTurn
  <2> HIDE DEF e, s
  <2>4. e # n
    BY <1>3, <2>2 DEF Leaves
  <2>5. /\ Frame(e) \in FramesOfTree(tree) /\ Frame(s) \in FramesOfTree(tree)
        /\ Frame(e) # f /\ f # <<e, 1>> /\ f # Nobody
    BY <1>1, <1>2, <2>2, <2>4, FrameKinds
  <2>6. state'[Frame(e)] = "fresh" => state'[Frame(s)] = "fresh"
    BY <1>7, <2>3, <2>5 DEF FirstWaits
  <2>7. ASSUME NEW i \in 1 .. Len(loops), loops[i] = e
        PROVE  i = Len(loops) /\ at[e] = 1
    BY <2>3, <2>7 DEF FirstWaits
  <2>8. running' = Nobody /\ Nobody # <<e, 1>> /\ Nobody # Frame(s)
    <3>1. <<e, 1>> \in FramesOfTree(tree)
      BY <1>1, <2>2, FrameKinds DEF Combs, Combinators
    <3> QED
      BY <1>1, <1>3, <2>5, <3>1
  <2>9. FirstWaits(e, s, state', at, running', loops)
    BY <2>6, <2>7, <2>8 DEF FirstWaits
  <2> QED
    BY <2>9 DEF e, s
<1>12. CombinatorInv'
  <2>1. CountsEnded(tree, state', count)
    <3>1. CountsEnded(tree, state, count) /\ \A m \in Combs(tree) : count[m] \in Nat
      BY <1>1 DEF Inv, CombinatorInv, Combs
    <3> QED
      BY <1>1, <1>6, <3>1, LaterCounts
  <2>2. LoopsOnce(tree, state', at, loops)
    BY <1>1, <1>6, LaterLoops DEF Inv, CombinatorInv
  <2> QED
    BY <1>3, <1>11, <2>1, <2>2 DEF Inv, CombinatorInv
<1> QED
  BY <1>9, <1>10, <1>12 DEF Inv

LEMMA StartHelperStep ==
  ASSUME Inv, NEW n \in Combs(tree), NEW i \in DOMAIN tree.subs[n], StartHelper(n, i)
  PROVE  Inv'
<1> DEFINE f == <<n, i>>
           m == tree.subs[n][i]
<1>1. /\ tree \in Trees /\ state \in [FramesOfTree(tree) -> States]
      /\ prev \in [FramesOfTree(tree) -> FramesOfTree(tree) \cup {Nobody}]
      /\ count \in [NodesOf(tree) -> Nat] /\ Nobody \notin FramesOfTree(tree)
      /\ loops \in Seq(Combs(tree)) /\ Root \in NodesOf(tree)
  BY InvFacts
<1>2. /\ n \in NodesOf(tree) /\ f \in FramesOfTree(tree)
      /\ m \in NodesOf(tree) /\ Frame(m) \in FramesOfTree(tree)
      /\ \A x \in NodesOf(tree) : f # Frame(x)
  <2>1. n \in NodesOf(tree)
    BY DEF Combs
  <2>2. m \in NodesOf(tree)
    BY <1>1, <2>1, TreeSubs
  <2> QED
    BY <1>1, <2>1, <2>2, FrameKinds
<1>3. /\ running = f /\ state[f] = "fresh" /\ running' = Frame(m)
      /\ prev' = [prev EXCEPT ![Frame(m)] = f]
      /\ tree' = tree /\ armed' = armed /\ outcome' = outcome /\ at' = at /\ index' = index
      /\ count' = count /\ loops' = loops
  BY DEF StartHelper, Entered, Subs
<1>4. state' = Change(tree, state, f, "suspended", {}, {})
  BY <1>1, SuspendChange DEF StartHelper, Frames
<1>5. "suspended" \in {"suspended", "done", "freed"} /\ "suspended" \in States
      /\ state[f] \in {"fresh", "suspended"}
  BY <1>3 DEF States
<1>6. Later(tree, state, state')
  BY <1>1, <1>2, <1>4, <1>5, ChangeLater
<1>7. \A g \in FramesOfTree(tree) \ {f} : state'[g] = state[g]
  BY <1>1, <1>2 DEF StartHelper
<1>8. ArmedWait(tree, state', armed')
  <2>1. ArmedWait(tree, state, armed)
    BY DEF Inv, TypeInv
  <2> QED
    BY <1>1, <1>2, <1>3, <1>7, <2>1, FrameKinds, ZenonT(30) DEF ArmedWait
<1>9. TypeInv'
  <2>1. state' \in [FramesOfTree(tree) -> States]
    BY <1>6 DEF Later
  <2>2. prev' \in [FramesOfTree(tree) -> FramesOfTree(tree) \cup {Nobody}]
    BY <1>1, <1>2, <1>3
  <2> QED
    BY <1>2, <1>3, <1>8, <2>1, <2>2 DEF Inv, TypeInv, Typed, Bounded
<1>10. MakingInv'
  <2>1. MadeInTurn(tree, state', at) /\ HelpersAfter(tree, state')
    BY <1>1, <1>6, LaterMaking DEF Inv, MakingInv
  <2>2. RootFirst(tree, state', at, running')
    BY <1>1, <1>2, <1>3, RootBegun DEF RootFirst
  <2> QED
    BY <1>3, <2>1, <2>2 DEF MakingInv
<1>11. WaitsInTurn(tree, state', at, running', loops)
  <2>1. SUFFICES ASSUME NEW w \in TimedWaits(tree)
                 PROVE  FirstWaits(WaitOf(tree, w), FileOf(tree, w), state', at, running', loops)
    BY DEF WaitsInTurn
  <2> DEFINE e == WaitOf(tree, w)
             s == FileOf(tree, w)
  <2>2. /\ e \in NodesOf(tree) /\ s \in NodesOf(tree) /\ e \in Combs(tree)
        /\ 1 \in DOMAIN tree.subs[e] /\ tree.subs[e][1] = s
        /\ \A x \in NodesOf(tree), j \in Nat : j \in DOMAIN tree.subs[x] /\ tree.subs[x][j] = s => x = e
    BY <1>1, TimedWait DEF Combs
  <2>3. FirstWaits(e, s, state, at, f, loops)
    BY <1>3 DEF Inv, CombinatorInv, WaitsInTurn
  <2> HIDE DEF e, s
  <2>4. i \in Nat
    <3>1. DOMAIN tree.subs[n] = 1 .. Len(tree.subs[n])
      BY <1>1, <1>2, TreeNodes
    <3> QED
      BY <3>1
  <2>5. /\ Frame(e) \in FramesOfTree(tree) /\ Frame(s) \in FramesOfTree(tree)
        /\ Frame(e) # f /\ Frame(s) # f /\ f # Nobody /\ (Frame(m) = Frame(s) => m = s)
        /\ Frame(s) # <<e, 1>>
    BY <1>1, <1>2, <2>2, FrameKinds
  <2>6. state'[Frame(e)] = state[Frame(e)] /\ state'[Frame(s)] = state[Frame(s)]
    BY <1>7, <2>5
  <2>7. ASSUME running' = Frame(s) PROVE state'[Frame(e)] # "fresh"
    <3>1. m = s
      BY <1>3, <2>5, <2>7
    <3>2. n = e
      BY <1>2, <2>2, <2>4, <3>1
    <3>3. state[Frame(n)] \notin Unborn
      BY <1>3 DEF Inv, MakingInv, HelpersAfter
    <3> QED
      BY <2>6, <3>2, <3>3 DEF Unborn
  <2>8. ASSUME NEW j \in 1 .. Len(loops), loops[j] = e
        PROVE  /\ j = Len(loops) /\ at[e] = 1 /\ running' = Frame(s)
               /\ state'[Frame(s)] = "fresh"
    <3>1. f = <<e, 1>>
      BY <2>3, <2>5, <2>8 DEF FirstWaits
    <3>2. m = s
      BY <2>2, <3>1
    <3> QED
      BY <1>3, <2>3, <2>6, <2>8, <3>1, <3>2 DEF FirstWaits
  <2>9. FirstWaits(e, s, state', at, running', loops)
    BY <2>3, <2>5, <2>6, <2>7, <2>8 DEF FirstWaits
  <2> QED
    BY <2>9 DEF e, s
<1>12. CombinatorInv'
  <2>1. CountsEnded(tree, state', count)
    <3>1. CountsEnded(tree, state, count) /\ \A x \in Combs(tree) : count[x] \in Nat
      BY <1>1 DEF Inv, CombinatorInv, Combs
    <3> QED
      BY <1>1, <1>6, <3>1, LaterCounts
  <2>2. LoopsOnce(tree, state', at, loops)
    BY <1>1, <1>6, LaterLoops DEF Inv, CombinatorInv
  <2>3. NoLeafBefore(tree, prev')
    BY <1>1, <1>2, <1>3 DEF NoLeafBefore, Inv, CombinatorInv
  <2> QED
    BY <1>3, <1>11, <2>1, <2>2, <2>3 DEF CombinatorInv
<1> QED
  BY <1>9, <1>10, <1>12 DEF Inv

LEMMA EventStep ==
  ASSUME Inv, NEW n \in NodesOf(tree), Event(n)
  PROVE  Inv'
<1>1. /\ tree \in Trees /\ Nobody \notin FramesOfTree(tree) /\ Frame(Root) \in FramesOfTree(tree)
  BY InvFacts
<1>2. /\ running = Nobody /\ loops = <<>> /\ Frame(n) \in armed /\ armed' \subseteq armed
      /\ running' = Frame(n) /\ tree' = tree /\ state' = state /\ prev' = prev
      /\ outcome' = outcome /\ at' = at /\ index' = index /\ count' = count /\ loops' = loops
  BY DEF Event
<1>3. TypeInv'
  <2>1. Frame(n) \in FramesOfTree(tree)
    BY <1>1, FrameKinds
  <2> QED
    BY <1>2, <2>1 DEF Inv, TypeInv, Typed, Bounded, ArmedWait
<1>4. MakingInv'
  <2>1. RootFirst(tree, state, at, running')
    BY <1>1, <1>2, RootBegun DEF RootFirst
  <2> QED
    BY <1>2, <2>1 DEF Inv, MakingInv
<1>5. WaitsInTurn(tree, state, at, running', loops)
  <2>1. SUFFICES ASSUME NEW w \in TimedWaits(tree)
                 PROVE  FirstWaits(WaitOf(tree, w), FileOf(tree, w), state, at, running', loops)
    BY DEF WaitsInTurn
  <2>2. FirstWaits(WaitOf(tree, w), FileOf(tree, w), state, at, running, loops)
    BY DEF Inv, CombinatorInv, WaitsInTurn
  <2>3. state[Frame(n)] # "fresh"
    BY <1>2 DEF Inv, TypeInv, ArmedWait
  <2>4. 1 .. Len(loops) = {}
    BY <1>2
  <2> QED
    BY <1>2, <2>2, <2>3, <2>4 DEF FirstWaits
<1> QED
  BY <1>2, <1>3, <1>4, <1>5 DEF Inv, CombinatorInv

LEMMA TerminateStep ==
  ASSUME Inv, Terminate
  PROVE  Inv'
<1>1. /\ tree \in Trees /\ Nobody \notin FramesOfTree(tree) /\ Frame(Root) \in FramesOfTree(tree)
      /\ outcome \in [FramesOfTree(tree) -> {"none", "value", "thrown", "timeout"}]
  BY InvFacts
<1>2. /\ running = Frame(Root) /\ state[Frame(Root)] = "suspended" /\ running' = Nobody
      /\ outcome' = [outcome EXCEPT ![Frame(Root)] = "thrown"]
      /\ tree' = tree /\ state' = state /\ prev' = prev /\ armed' = armed
      /\ at' = at /\ index' = index /\ count' = count /\ loops' = loops
  BY DEF Terminate, Resumed
<1>3. TypeInv'
  <2>1. outcome' \in [FramesOfTree(tree) -> {"none", "value", "thrown", "timeout"}]
    BY <1>1, <1>2
  <2> QED
    BY <1>2, <2>1 DEF Inv, TypeInv, Typed, Bounded, ArmedWait
<1>4. MakingInv'
  <2>1. RootFirst(tree, state, at, running')
    BY <1>1, <1>2, RootBegun DEF RootFirst
  <2> QED
    BY <1>2, <2>1 DEF Inv, MakingInv
<1>5. WaitsInTurn(tree, state, at, running', loops)
  <2>1. SUFFICES ASSUME NEW w \in TimedWaits(tree)
                 PROVE  FirstWaits(WaitOf(tree, w), FileOf(tree, w), state, at, running', loops)
    BY DEF WaitsInTurn
  <2>2. FirstWaits(WaitOf(tree, w), FileOf(tree, w), state, at, running, loops)
    BY DEF Inv, CombinatorInv, WaitsInTurn
  <2>3. Nobody # Frame(FileOf(tree, w)) /\ Nobody # <<WaitOf(tree, w), 1>>
    BY <1>1, TimedWait, FrameKinds
  <2> QED
    BY <1>2, <2>2, <2>3 DEF FirstWaits
<1> QED
  BY <1>2, <1>3, <1>4, <1>5 DEF Inv, CombinatorInv

LEMMA ResumeNextStep ==
  ASSUME Inv, NEW n \in NodesOf(tree), ResumeNext(n)
  PROVE  Inv'
<1> DEFINE i == at[n] + 1
           L == Len(loops)
<1>1. /\ tree \in Trees /\ Nobody \notin FramesOfTree(tree) /\ Frame(Root) \in FramesOfTree(tree)
      /\ state \in [FramesOfTree(tree) -> States]
      /\ loops \in Seq(Combs(tree)) /\ at \in [NodesOf(tree) -> Nat]
  BY InvFacts
<1>2. /\ running = Nobody /\ loops # <<>> /\ loops[L] = n
      /\ at' = [at EXCEPT ![n] = i]
      /\ loops' = IF i = Len(tree.subs[n]) THEN SubSeq(loops, 1, L - 1) ELSE loops
      /\ running' = <<n, i>>
      /\ tree' = tree /\ state' = state /\ prev' = prev /\ armed' = armed
      /\ outcome' = outcome /\ index' = index /\ count' = count
  BY DEF ResumeNext, Subs
<1>3. L \in Nat \ {0} /\ \A j \in 1 .. L : loops[j] \in Combs(tree)
  <2>1. L \in Nat /\ L # 0
    BY <1>1, <1>2, LenProperties, EmptySeq
  <2> QED
    BY <1>1, <2>1, ElementOfSeq
<1>4. LoopsOnce(tree, state, at, loops)
  BY DEF Inv, CombinatorInv
<1>5. /\ n \in Combs(tree) /\ at[n] \in Nat /\ at[n] < Len(tree.subs[n])
      /\ Len(tree.subs[n]) \in Nat /\ DOMAIN tree.subs[n] = 1 .. Len(tree.subs[n])
  BY <1>1, <1>2, <1>3, <1>4, TreeNodes DEF LoopsOnce
<1>6. i \in DOMAIN tree.subs[n] /\ i \in Nat /\ i <= Len(tree.subs[n])
  BY <1>5
<1>7. /\ <<n, i>> \in FramesOfTree(tree) /\ tree.kind[n] \in Combinators
      /\ \A m \in NodesOf(tree) : <<n, i>> # Frame(m)
  BY <1>1, <1>5, <1>6, FrameKinds DEF Combs
<1>8. /\ loops' \in Seq(Combs(tree)) /\ Len(loops') <= L /\ Len(loops') \in Nat
      /\ i = Len(tree.subs[n]) => Len(loops') < L
      /\ \A j \in 1 .. Len(loops') : j \in 1 .. L /\ loops'[j] = loops[j]
  <2>1. CASE i = Len(tree.subs[n])
    <3>1. loops' = SubSeq(loops, 1, L - 1) /\ 1 \in Int /\ L - 1 \in 0 .. L
      BY <1>2, <1>3, <2>1
    <3>2. loops' \in Seq(Combs(tree))
      BY <1>1, <1>3, <3>1, SubSeqProperties
    <3>3. Len(loops') = L - 1
      <4>1. Len(SubSeq(loops, 1, L - 1)) = IF 1 <= L - 1 THEN L - 1 - 1 + 1 ELSE 0
        BY <1>1, <1>3, <3>1, SubSeqProperties
      <4> HIDE DEF L
      <4>2. (IF 1 <= L - 1 THEN L - 1 - 1 + 1 ELSE 0) = L - 1
        BY <1>3
      <4> QED
        BY <3>1, <4>1, <4>2
    <3>4. \A j \in 1 .. L - 1 : SubSeq(loops, 1, L - 1)[j] = loops[j]
      BY <1>1, <1>3, <3>1, SubSeqProperties
    <3> QED
      BY <1>3, <3>1, <3>2, <3>3, <3>4
  <2>2. CASE i # Len(tree.subs[n])
    BY <1>1, <1>2, <1>3, <2>2
  <2> QED
    BY <2>1, <2>2
<1> HIDE DEF i, L
<1>9. /\ at' \in [NodesOf(tree) -> Nat] /\ at'[n] = i
      /\ \A m \in NodesOf(tree) : m # n => at'[m] = at[m]
  BY <1>1, <1>2, <1>5, <1>6
<1>10. TypeInv'
  <2>1. Bounded(tree, at', index, count)
    <3>1. \A m \in NodesOf(tree) :
            at'[m] <= IF tree.kind[m] = "io" THEN MaxTries ELSE Len(tree.subs[m])
      BY <1>6, <1>7, <1>9 DEF Inv, TypeInv, Bounded, Combinators
    <3> QED
      BY <1>9, <3>1 DEF Inv, TypeInv, Bounded
  <2> QED
    BY <1>2, <1>7, <1>8, <2>1 DEF Inv, TypeInv, Typed
<1>11. MakingInv'
  <2>1. \A m \in NodesOf(tree) : tree.kind[m] \in Bodies \cup {"run"} => at'[m] = at[m]
    BY <1>7, <1>9 DEF Bodies, Combinators
  <2>2. Later(tree, state, state)
    BY <1>1 DEF Later
  <2>3. MadeInTurn(tree, state, at') /\ HelpersAfter(tree, state)
    BY <1>1, <2>1, <2>2, LaterMaking DEF Inv, MakingInv
  <2>4. RootFirst(tree, state, at', running')
    <3>1. at[Root] # 0
      BY <1>1, <1>2, RootBegun
    <3>2. at'[Root] = at[Root]
      BY <1>1, <2>1, TreeNodes DEF Bodies
    <3> QED
      BY <3>1, <3>2 DEF RootFirst
  <2> QED
    BY <1>2, <2>3, <2>4 DEF MakingInv
<1>12. LoopsOnce(tree, state, at', loops')
  <2>1. \A j, k \in 1 .. Len(loops') : loops'[j] = loops'[k] => j = k
    BY <1>4, <1>8 DEF LoopsOnce, L
  <2>2. ASSUME NEW j \in 1 .. Len(loops')
        PROVE  /\ state[Frame(loops'[j])] \notin Unborn
               /\ at'[loops'[j]] < Len(tree.subs[loops'[j]])
    <3>1. /\ state[Frame(loops[j])] \notin Unborn /\ at[loops[j]] < Len(tree.subs[loops[j]])
          /\ loops'[j] = loops[j] /\ j \in 1 .. L /\ loops[j] \in NodesOf(tree)
      BY <1>3, <1>4, <1>8 DEF LoopsOnce, L, Combs
    <3>2. CASE loops[j] # n
      BY <1>9, <3>1, <3>2
    <3>3. CASE loops[j] = n
      <4>1. j = L /\ L \in 1 .. L
        BY <1>2, <1>3, <1>4, <3>1, <3>3 DEF LoopsOnce, L
      <4>2. i # Len(tree.subs[n])
        BY <1>3, <1>8, <4>1
      <4> QED
        BY <1>5, <1>6, <1>9, <3>1, <3>3, <4>2
    <3> QED
      BY <3>2, <3>3
  <2> QED
    BY <2>1, <2>2 DEF LoopsOnce
<1>13. WaitsInTurn(tree, state, at', running', loops')
  <2>1. SUFFICES ASSUME NEW w \in TimedWaits(tree)
                 PROVE  FirstWaits(WaitOf(tree, w), FileOf(tree, w), state, at', running', loops')
    BY DEF WaitsInTurn
  <2> DEFINE e == WaitOf(tree, w)
             s == FileOf(tree, w)
  <2>2. FirstWaits(e, s, state, at, running, loops)
    BY DEF Inv, CombinatorInv, WaitsInTurn
  <2>3. s \in NodesOf(tree) /\ Len(tree.subs[e]) = 2
    BY <1>1, TimedWait
  <2> HIDE DEF e, s
  <2>4. ASSUME NEW j \in 1 .. Len(loops'), loops'[j] = e PROVE FALSE
    <3>1. j \in 1 .. L /\ loops[j] = e
      BY <1>8, <2>4
    <3>2. j = L /\ at[e] = 1
      BY <2>2, <3>1 DEF FirstWaits, L
    <3>3. e = n
      BY <1>2, <3>1, <3>2
    <3>4. i = Len(tree.subs[n])
      <4>1. at[n] = 1 /\ Len(tree.subs[n]) = 2
        BY <2>3, <3>2, <3>3
      <4> QED
        BY <4>1 DEF i
    <3> QED
      BY <1>3, <1>8, <3>2, <3>4
  <2>5. FirstWaits(e, s, state, at', running', loops')
    BY <1>2, <1>7, <2>2, <2>3, <2>4 DEF FirstWaits
  <2> QED
    BY <2>5 DEF e, s
<1> QED
  BY <1>2, <1>10, <1>11, <1>12, <1>13 DEF Inv, CombinatorInv

-----------------------------------------------------------------------------
(* The actions that make frames. *)
LEMMA StartCombinatorStep ==
  ASSUME Inv, NEW n \in NodesOf(tree), StartCombinator(n)
  PROVE  Inv'
<1> DEFINE f == Frame(n)
           L == Len(loops)
<1>1. /\ tree \in Trees /\ Nobody \notin FramesOfTree(tree) /\ Root \in NodesOf(tree)
      /\ state \in [FramesOfTree(tree) -> States]
      /\ prev \in [FramesOfTree(tree) -> FramesOfTree(tree) \cup {Nobody}]
      /\ outcome \in [FramesOfTree(tree) -> {"none", "value", "thrown", "timeout"}]
      /\ loops \in Seq(Combs(tree)) /\ at \in [NodesOf(tree) -> Nat]
      /\ index \in [NodesOf(tree) -> Nat] /\ count \in [NodesOf(tree) -> Nat]
  BY InvFacts
<1>2. /\ tree.kind[n] \in Combinators /\ tree.subs[n] # <<>>
      /\ running = f /\ state[f] = "fresh"
      /\ outcome' = [g \in FramesOfTree(tree) |-> IF g \in Helpers(n) THEN "none" ELSE outcome[g]]
      /\ prev' = [g \in FramesOfTree(tree) |-> IF g \in Helpers(n) THEN PreviousOfHelper(n) ELSE prev[g]]
      /\ at' = [at EXCEPT ![n] = 1] /\ index' = [index EXCEPT ![n] = 0]
      /\ count' = [count EXCEPT ![n] = 0] /\ running' = <<n, 1>>
      /\ loops' = IF 1 = Len(tree.subs[n]) THEN loops ELSE Append(loops, n)
      /\ tree' = tree
  BY DEF StartCombinator, Entered, FirstResumed, Kind, Subs, Frames
<1>3. state' = Change(tree, state, f, "suspended", {}, Helpers(n)) /\ armed' = armed \ {}
  BY DEF StartCombinator, Become, TakesHandlesBack, Change, Frames
<1>4. /\ n \in Combs(tree) /\ n # Root
      /\ Len(tree.subs[n]) \in Nat \ {0} /\ DOMAIN tree.subs[n] = 1 .. Len(tree.subs[n])
      /\ 1 \in DOMAIN tree.subs[n]
  <2>1. n \in Combs(tree) /\ n # Root
    BY <1>1, <1>2, TreeNodes DEF Combs, Combinators
  <2>2. /\ Len(tree.subs[n]) \in Nat /\ DOMAIN tree.subs[n] = 1 .. Len(tree.subs[n])
        /\ tree.subs[n] \in Seq(NodesOf(tree))
    BY <1>1, TreeNodes
  <2>3. Len(tree.subs[n]) # 0
    BY <1>2, <2>2, EmptySeq
  <2> QED
    BY <2>1, <2>2, <2>3
<1>5. /\ f \in FramesOfTree(tree) /\ <<n, 1>> \in FramesOfTree(tree)
      /\ \A m \in NodesOf(tree) : Frame(m) \in FramesOfTree(tree) /\ Frame(m) \notin Helpers(n)
      /\ \A m \in NodesOf(tree) : Frame(m) = f => m = n
      /\ \A m \in NodesOf(tree) : Frame(m) # <<n, 1>>
  <2>1. f \in FramesOfTree(tree) /\ <<n, 1>> \in FramesOfTree(tree)
    BY <1>1, <1>4, FrameKinds
  <2>2. \A m \in NodesOf(tree) : Frame(m) \in FramesOfTree(tree) /\ (Frame(m) = f => m = n)
    BY <1>1, FrameKinds
  <2>3. \A m \in NodesOf(tree) : \A i \in DOMAIN tree.subs[n] : Frame(m) # <<n, i>>
    BY <1>1, FrameKinds
  <2> HIDE DEF f
  <2>4. \A m \in NodesOf(tree) : Frame(m) \notin Helpers(n)
    BY <2>3 DEF Helpers, Subs
  <2>5. \A m \in NodesOf(tree) : Frame(m) # <<n, 1>>
    BY <1>4, <2>3
  <2> QED
    BY <2>1, <2>2, <2>4, <2>5
<1> HIDE DEF f
<1>6. /\ state' \in [FramesOfTree(tree) -> States]
      /\ state'[f] = "suspended"
      /\ \A g \in FramesOfTree(tree) \ {f} :
           state'[g] = IF g \in Helpers(n) THEN "fresh" ELSE state[g]
  <2> DEFINE H == Helpers(n)
             st2 == Change(tree, state, f, "suspended", {}, H)
  <2>1. "suspended" \in States
    BY DEF States
  <2>2. /\ st2 \in [FramesOfTree(tree) -> States]
        /\ st2[f] = "suspended"
        /\ \A g \in FramesOfTree(tree) \ {f} :
             st2[g] = IF g \in H THEN "fresh"
                      ELSE IF g \in {} /\ state[g] # "none" THEN "freed" ELSE state[g]
    <3>1. state \in [FramesOfTree(tree) -> States] /\ f \in FramesOfTree(tree)
      BY <1>1, <1>5
    <3> HIDE DEF H
    <3> QED
      BY ONLY <3>1, <2>1, ChangeIs
  <2>3. state' = st2
    BY <1>3
  <2> HIDE DEF st2
  <2> QED
    BY <2>2, <2>3
<1> HIDE DEF L
<1>7. \A m \in NodesOf(tree) \ {n} : state'[Frame(m)] = state[Frame(m)]
  BY <1>5, <1>6
<1>8. \A m \in Combs(tree) \ {n} : \A i \in DOMAIN tree.subs[m] : state'[<<m, i>>] = state[<<m, i>>]
  <2>1. SUFFICES ASSUME NEW m \in Combs(tree) \ {n}, NEW i \in DOMAIN tree.subs[m]
                 PROVE  state'[<<m, i>>] = state[<<m, i>>]
    OBVIOUS
  <2>2. <<m, i>> \in FramesOfTree(tree) /\ <<m, i>> # f
    BY <1>1, FrameKinds DEF Combs, f
  <2>3. <<m, i>> \notin Helpers(n)
    BY DEF Helpers
  <2> QED
    BY <1>6, <2>2, <2>3
<1>9. state'[<<n, 1>>] = "fresh"
  BY <1>4, <1>5, <1>6 DEF Helpers, Subs, f
<1>10. /\ at' \in [NodesOf(tree) -> Nat] /\ at'[n] = 1
       /\ \A m \in NodesOf(tree) \ {n} : at'[m] = at[m]
       /\ index' \in [NodesOf(tree) -> Nat] /\ index'[n] = 0
       /\ \A m \in NodesOf(tree) \ {n} : index'[m] = index[m]
       /\ count' \in [NodesOf(tree) -> Nat] /\ count'[n] = 0
       /\ \A m \in NodesOf(tree) \ {n} : count'[m] = count[m]
  BY <1>1, <1>2
<1>11. LoopsOnce(tree, state, at, loops)
  BY DEF Inv, CombinatorInv
<1>12. L \in Nat /\ \A j \in 1 .. L : loops[j] \in Combs(tree) /\ loops[j] # n
  <2>1. \A j \in 1 .. L : loops[j] \in Combs(tree)
    BY <1>1, ElementOfSeq DEF L
  <2>2. L \in Nat
    BY <1>1, LenProperties DEF L
  <2> QED
    BY <1>2, <1>11, <2>1, <2>2 DEF LoopsOnce, Unborn, L, f
<1>13. /\ loops' \in Seq(Combs(tree))
       /\ \A j \in 1 .. L : loops'[j] = loops[j]
       /\ \/ loops' = loops
          \/ Len(loops') = L + 1 /\ loops'[L + 1] = n /\ 1 < Len(tree.subs[n])
  <2>1. CASE 1 = Len(tree.subs[n])
    BY <1>1, <1>2, <2>1
  <2>2. CASE 1 # Len(tree.subs[n])
    <3>1. loops' = Append(loops, n)
      BY <1>2, <2>2
    <3>4. 1 < Len(tree.subs[n])
      <4>1. PICK l \in Nat : l = Len(tree.subs[n])
        BY <1>4
      <4>2. l # 0 /\ l # 1
        BY <1>4, <2>2, <4>1
      <4>3. 1 < l
        BY <4>2
      <4> QED
        BY <4>1, <4>3
    <3>2. /\ Append(loops, n) \in Seq(Combs(tree)) /\ Len(Append(loops, n)) = L + 1
          /\ \A j \in 1 .. L : Append(loops, n)[j] = loops[j] /\ Append(loops, n)[L + 1] = n
      BY <1>1, <1>4, AppendProperties DEF L
    <3>3. Append(loops, n)[L + 1] = n
      BY <1>1, <1>4, AppendProperties DEF L
    <3> QED
      BY <3>1, <3>2, <3>3, <3>4
  <2> QED
    BY <2>1, <2>2
<1>14. TypeInv'
  <2>1. Bounded(tree, at', index', count')
    <3>1. Bounded(tree, at, index, count)
      BY DEF Inv, TypeInv
    <3>2. \A m \in NodesOf(tree) :
            at'[m] <= IF tree.kind[m] = "io" THEN MaxTries ELSE Len(tree.subs[m])
      BY <1>2, <1>4, <1>10, <3>1 DEF Bounded, Combinators
    <3>3. ASSUME NEW m \in NodesOf(tree) PROVE index'[m] <= Len(tree.subs[m])
      <4>1. CASE m = n
        <5>1. index'[m] = 0 /\ Len(tree.subs[m]) \in Nat
          BY <1>4, <1>10, <4>1
        <5> QED
          BY <5>1
      <4>2. CASE m # n
        BY <1>10, <3>1, <4>2 DEF Bounded
      <4> QED
        BY <4>1, <4>2
    <3>4. \A m \in NodesOf(tree) : m \notin Combs(tree) => count'[m] = 0
      BY <1>10, <3>1 DEF Bounded
    <3> QED
      BY <1>10, <3>2, <3>3, <3>4 DEF Bounded
  <2>2. ArmedWait(tree, state', armed')
    <3>1. ArmedWait(tree, state, armed)
      BY DEF Inv, TypeInv
    <3>2. (armed \ {}) \cap Helpers(n) = {}
      BY <1>5, <3>1 DEF ArmedWait
    <3>3. \A m \in NodesOf(tree) : tree.kind[m] \in Leaves => f # Frame(m)
      BY <1>2, <1>5 DEF Leaves, Combinators
    <3>4. "suspended" \in States
      BY DEF States
    <3> QED
      BY <1>1, <1>3, <1>5, <3>1, <3>2, <3>3, <3>4, ChangeArmed DEF f
  <2>3. prev' \in [FramesOfTree(tree) -> FramesOfTree(tree) \cup {Nobody}]
    <3>1. PreviousOfHelper(n) \in FramesOfTree(tree) \cup {Nobody}
      BY <1>5 DEF PreviousOfHelper, f
    <3> QED
      BY <1>1, <1>2, <3>1
  <2>4. outcome' \in [FramesOfTree(tree) -> {"none", "value", "thrown", "timeout"}]
    BY <1>1, <1>2
  <2> QED
    BY <1>1, <1>2, <1>5, <1>6, <1>13, <2>1, <2>2, <2>3, <2>4 DEF TypeInv, Typed
<1>15. MakingInv'
  <2>1. MadeInTurn(tree, state', at')
    <3>1. MadeInTurn(tree, state, at)
      BY DEF Inv, MakingInv
    <3>2. \A m \in NodesOf(tree) : tree.kind[m] \in Bodies \cup {"run"} => m # n
      BY <1>2 DEF Bodies, Combinators
    <3>3. ASSUME NEW m \in NodesOf(tree) \ {Root}, Maker(tree, m) # Root,
                 at'[Maker(tree, m)] < MakerStmt(tree, m)
          PROVE  state'[Frame(m)] = "none"
      <4>1. Maker(tree, m) \in NodesOf(tree) \ {n}
        BY <1>1, <3>2, MakerKind
      <4>2. state[Frame(m)] = "none"
        BY <1>10, <3>1, <3>3, <4>1 DEF MadeInTurn
      <4>3. m # n
        BY <1>2, <4>2 DEF f
      <4> QED
        BY <1>7, <4>2, <4>3
    <3>4. ASSUME NEW m \in NodesOf(tree), tree.kind[m] \in Bodies \cup {"run"},
                 state'[Frame(m)] \in Unborn
          PROVE  at'[m] = 0
      BY <1>7, <1>10, <3>1, <3>2, <3>4 DEF MadeInTurn
    <3> QED
      BY <3>3, <3>4 DEF MadeInTurn
  <2>2. RootFirst(tree, state', at', running')
    <3>1. f # Frame(Root)
      BY <1>1, <1>4, <1>5
    <3>2. at[Root] # 0
      BY <1>2, <3>1, RootBegun
    <3> QED
      BY <1>1, <1>4, <1>10, <3>2 DEF RootFirst
  <2>3. HelpersAfter(tree, state')
    <3>1. SUFFICES ASSUME NEW m \in Combs(tree), NEW i \in DOMAIN tree.subs[m],
                          state'[Frame(m)] \in Unborn
                   PROVE  state'[<<m, i>>] \in {"none", "freed"}
      BY DEF HelpersAfter
    <3>2. m # n
      BY <1>6, <3>1 DEF Unborn, f
    <3> QED
      BY <1>7, <1>8, <3>1, <3>2 DEF HelpersAfter, Inv, MakingInv, Combs
  <2> QED
    BY <1>2, <2>1, <2>2, <2>3 DEF MakingInv
<1>16. CountsEnded(tree, state', count')
  <2>1. SUFFICES ASSUME NEW m \in Combs(tree)
                 PROVE  count'[m] <= Cardinality(Ended(tree, state', m))
    BY DEF CountsEnded
  <2>2. CASE m = n
    <3>1. Cardinality(Ended(tree, state', m)) \in Nat
      BY <1>1, EndedFinite
    <3> QED
      BY <1>10, <2>2, <3>1
  <2>3. CASE m # n
    <3>1. Ended(tree, state', m) = Ended(tree, state, m)
      BY <1>8, <2>3 DEF Ended
    <3>2. count'[m] = count[m]
      BY <1>10, <2>3 DEF Combs
    <3> QED
      BY <3>1, <3>2 DEF CountsEnded, Inv, CombinatorInv
  <2> QED
    BY <2>2, <2>3
<1>17. NoLeafBefore(tree, prev')
  <2>1. SUFFICES ASSUME NEW g \in FramesOfTree(tree), NEW m \in NodesOf(tree),
                        tree.kind[m] \in Leaves
                 PROVE  prev'[g] # Frame(m)
    BY DEF NoLeafBefore
  <2>2. PreviousOfHelper(n) # Frame(m)
    <3>1. m # n
      BY <1>2, <2>1 DEF Leaves, Combinators
    <3>2. Frame(n) # Frame(m) /\ Nobody # Frame(m)
      BY <1>1, <1>5, <3>1 DEF f
    <3> QED
      BY <3>2 DEF PreviousOfHelper
  <2>3. prev[g] # Frame(m)
    BY <2>1 DEF Inv, CombinatorInv, NoLeafBefore
  <2> QED
    BY <1>2, <2>2, <2>3
<1>18. LoopsOnce(tree, state', at', loops')
  <2>1. \A j \in 1 .. L :
          /\ state'[Frame(loops[j])] \notin Unborn
          /\ at'[loops[j]] < Len(tree.subs[loops[j]])
    BY <1>7, <1>10, <1>11, <1>12 DEF LoopsOnce, L, Combs
  <2>2. \A j, k \in 1 .. L : loops[j] = loops[k] => j = k
    BY <1>11 DEF LoopsOnce, L
  <2>3. CASE loops' = loops
    BY <2>1, <2>2, <2>3 DEF LoopsOnce, L
  <2>4. CASE Len(loops') = L + 1 /\ loops'[L + 1] = n /\ 1 < Len(tree.subs[n])
    <3>1. \A j \in 1 .. L + 1 : j \in 1 .. L \/ j = L + 1
      BY <1>12
    <3>2. \A j, k \in 1 .. L + 1 : loops'[j] = loops'[k] => j = k
      BY <1>12, <1>13, <2>2, <2>4, <3>1
    <3>3. \A j \in 1 .. L + 1 :
            /\ state'[Frame(loops'[j])] \notin Unborn
            /\ at'[loops'[j]] < Len(tree.subs[loops'[j]])
      BY <1>6, <1>10, <1>13, <2>1, <2>4, <3>1 DEF Unborn, f
    <3> QED
      BY <2>4, <3>2, <3>3 DEF LoopsOnce
  <2> QED
    BY <1>13, <2>3, <2>4
<1>19. WaitsInTurn(tree, state', at', running', loops')
  <2>1. SUFFICES ASSUME NEW w \in TimedWaits(tree)
                 PROVE  FirstWaits(WaitOf(tree, w), FileOf(tree, w), state', at', running', loops')
    BY DEF WaitsInTurn
  <2> DEFINE e == WaitOf(tree, w)
             s == FileOf(tree, w)
  <2>2. FirstWaits(e, s, state, at, f, loops)
    BY <1>2 DEF Inv, CombinatorInv, WaitsInTurn
  <2>3. /\ s \in NodesOf(tree) /\ e \in NodesOf(tree) /\ tree.kind[s] = "event"
        /\ e \in Combs(tree) /\ 1 \in DOMAIN tree.subs[e]
    BY <1>1, TimedWait, SMTT(30) DEF Combs
  <2> HIDE DEF e, s
  <2>4. s # n
    BY <1>2, <2>3 DEF Combinators
  <2>5. /\ state'[Frame(s)] = state[Frame(s)] /\ running' # Frame(s)
        /\ f # Frame(s) /\ f # Nobody /\ f # <<e, 1>> /\ Frame(s) # <<e, 1>>
    <3>1. state'[Frame(s)] = state[Frame(s)]
      BY <1>7, <2>3, <2>4
    <3>2. running' # Frame(s) /\ f # Frame(s) /\ f # Nobody
      BY <1>1, <1>2, <1>5, <2>3, <2>4
    <3>3. f # <<e, 1>> /\ Frame(s) # <<e, 1>>
      BY <1>1, <2>3, FrameKinds, SMTT(30) DEF f
    <3> QED
      BY <3>1, <3>2, <3>3
  <2>6. ASSUME e = n PROVE FirstWaits(e, s, state', at', running', loops')
    <3>1. state'[Frame(e)] = "suspended" /\ state[Frame(e)] = "fresh"
      BY <1>2, <1>6, <2>6 DEF f
    <3>2. state'[Frame(s)] = "fresh"
      BY <2>2, <2>5, <3>1 DEF FirstWaits
    <3>3. ASSUME NEW j \in 1 .. Len(loops'), loops'[j] = e
          PROVE  j = Len(loops') /\ at'[e] = 1
      <4>1. ~(j \in 1 .. L)
        BY <1>12, <1>13, <2>6, <3>3
      <4>2. loops' # loops
        BY <4>1 DEF L
      <4> QED
        BY <1>10, <1>12, <1>13, <2>6, <4>1, <4>2
    <3>4. running' = <<e, 1>> /\ state'[<<e, 1>>] = "fresh"
      BY <1>2, <1>9, <2>6
    <3> QED
      BY <2>5, <3>1, <3>2, <3>3, <3>4 DEF FirstWaits
  <2>7. ASSUME e # n PROVE FirstWaits(e, s, state', at', running', loops')
    <3>1. state'[Frame(e)] = state[Frame(e)]
      BY <1>7, <2>3, <2>7
    <3>2. ASSUME NEW j \in 1 .. Len(loops'), loops'[j] = e
          PROVE  FALSE
      <4>1. j \in 1 .. L /\ loops[j] = e
        BY <1>12, <1>13, <2>7, <3>2 DEF L
      <4> QED
        BY <2>2, <2>5, <4>1 DEF FirstWaits, L
    <3> QED
      BY <2>2, <2>5, <3>1, <3>2 DEF FirstWaits
  <2>8. FirstWaits(e, s, state', at', running', loops')
    BY <2>6, <2>7
  <2> QED
    BY <2>8 DEF e, s
<1> QED
  BY <1>2, <1>14, <1>15, <1>16, <1>17, <1>18, <1>19 DEF Inv, CombinatorInv

(* Which statement makes a node. *)
LEMMA MadeBy ==
  ASSUME tree \in Trees, NEW n \in NodesOf(tree), NEW k \in Nat \ {0}, NEW m \in Made(n, k)
  PROVE  /\ m \in NodesOf(tree) \ {Root}
         /\ Maker(tree, m) = n /\ MakerStmt(tree, m) = k
         /\ tree.stmt[m] # 0 => tree.owner[m] = n /\ tree.stmt[m] = k
<1>1. CASE m \in Temporaries(n, k)
  BY <1>1 DEF Temporaries, NodesOf, Maker, MakerStmt
<1>2. CASE \E x \in Temporaries(n, k) : m \in Temporaries(x, 0)
  BY <1>2 DEF Temporaries, NodesOf, Maker, MakerStmt
<1> QED
  BY <1>1, <1>2 DEF Made

(* co_await of the kth statement or, in a file operation, the kth try. The *)
(* nodes that it makes are not there, or are destroyed in the same step.   *)
Replaced(m, freed) ==
  /\ Frame(m) \in freed /\ tree.kind[m] \notin Bodies
  /\ m \in Combs(tree) => \A i \in DOMAIN tree.subs[m] : <<m, i>> \in freed
  /\ \A j \in 1 .. Len(loops) : loops[j] # m

LEMMA AwaitStep ==
  ASSUME Inv, NEW n \in NodesOf(tree), tree.kind[n] \in Bodies \cup {"run"},
         running = Frame(n), state[Frame(n)] \in {"fresh", "suspended"},
         NEW i \in DOMAIN tree.subs[n], NEW k \in Nat \ {0}, i <= k,
         i = IF tree.kind[n] = "io" THEN 1 ELSE k,
         k <= IF tree.kind[n] = "io" THEN MaxTries ELSE Len(tree.subs[n]),
         at[n] < k, NEW freed, WaitsTogether(tree, freed), Await(n, k, freed),
         \A m \in Made(n, i) : state[Frame(m)] \in Unborn \/ Replaced(m, freed)
  PROVE  Inv'
<1> DEFINE f == Frame(n)
           e == tree.subs[n][i]
           made == {Frame(m) : m \in Made(n, i)}
<1>1. /\ tree \in Trees /\ Nobody \notin FramesOfTree(tree) /\ Root \in NodesOf(tree)
      /\ state \in [FramesOfTree(tree) -> States]
      /\ prev \in [FramesOfTree(tree) -> FramesOfTree(tree) \cup {Nobody}]
      /\ outcome \in [FramesOfTree(tree) -> {"none", "value", "thrown", "timeout"}]
      /\ loops \in Seq(Combs(tree)) /\ at \in [NodesOf(tree) -> Nat]
      /\ count \in [NodesOf(tree) -> Nat]
  BY InvFacts
<1>2. /\ e \in NodesOf(tree) \ {Root} /\ tree.owner[e] = n /\ tree.stmt[e] = i
      /\ i \in Nat \ {0}
  <2>1. tree.kind[n] \notin Combinators
    BY DEF Bodies, Combinators
  <2>2. i \in Nat \ {0}
    OBVIOUS
  <2> QED
    BY <1>1, <2>1, <2>2, TreeSubs, SMTT(30)
<1>3. /\ state' = Change(tree, state, f, "suspended", freed, made)
      /\ armed' = armed \ freed
      /\ outcome' = [g \in FramesOfTree(tree) |-> IF g \in made THEN "none" ELSE outcome[g]]
      /\ prev' = [prev EXCEPT ![Frame(e)] = f] /\ at' = [at EXCEPT ![n] = k]
      /\ running' = Frame(e)
      /\ tree' = tree /\ index' = index /\ count' = count /\ loops' = loops
  <2>1. Subs(n)[IF Kind(n) = "io" THEN 1 ELSE k] = e
    BY DEF Subs, Kind
  <2>2. Made(n, tree.stmt[e]) = Made(n, i)
    BY <1>2
  <2> HIDE DEF e
  <2> QED
    BY <2>1, <2>2 DEF Await, Become, TakesHandlesBack, Change, Frames
<1>4. /\ f \in FramesOfTree(tree) /\ Frame(e) \in FramesOfTree(tree)
      /\ \A m \in NodesOf(tree) : Frame(m) \in FramesOfTree(tree) /\ (Frame(m) = f => m = n)
      /\ \A m \in NodesOf(tree) : Frame(m) \in made => m \in Made(n, i)
      /\ made \subseteq FramesOfTree(tree)
  <2>1. \A m \in Made(n, i) : m \in NodesOf(tree)
    BY <1>1, <1>2, MadeBy
  <2> QED
    BY <1>1, <1>2, <2>1, FrameKinds, SMTT(30)
<1>5. \A m \in Combs(tree) : \A j \in DOMAIN tree.subs[m] :
        <<m, j>> \in FramesOfTree(tree) /\ <<m, j>> # f /\ <<m, j>> \notin made
  <2>1. \A m \in Made(n, i) : m \in NodesOf(tree)
    BY <1>1, <1>2, MadeBy
  <2>2. SUFFICES ASSUME NEW m \in Combs(tree), NEW j \in DOMAIN tree.subs[m]
                 PROVE  <<m, j>> \in FramesOfTree(tree) /\ <<m, j>> # f /\ <<m, j>> \notin made
    OBVIOUS
  <2>3. <<m, j>> \in FramesOfTree(tree)
    BY <1>1, FrameKinds
  <2>4. \A x \in NodesOf(tree) : <<m, j>> # Frame(x)
    BY <1>1, FrameKinds DEF Combs
  <2> QED
    BY <2>1, <2>3, <2>4
<1> HIDE DEF f, e, made
<1>6. /\ state' \in [FramesOfTree(tree) -> States] /\ state'[f] = "suspended"
      /\ \A g \in FramesOfTree(tree) \ {f} :
           state'[g] = IF g \in made THEN "fresh"
                       ELSE IF g \in freed /\ state[g] # "none" THEN "freed" ELSE state[g]
  <2> DEFINE st2 == Change(tree, state, f, "suspended", freed, made)
  <2>1. "suspended" \in States
    BY DEF States
  <2>2. /\ st2 \in [FramesOfTree(tree) -> States]
        /\ st2[f] = "suspended"
        /\ \A g \in FramesOfTree(tree) \ {f} :
             st2[g] = IF g \in made THEN "fresh"
                      ELSE IF g \in freed /\ state[g] # "none" THEN "freed" ELSE state[g]
    <3>1. state \in [FramesOfTree(tree) -> States] /\ f \in FramesOfTree(tree)
      BY <1>1, <1>4
    <3> QED
      BY ONLY <3>1, <2>1, ChangeIs
  <2>3. state' = st2
    BY <1>3
  <2> HIDE DEF st2
  <2> QED
    BY <2>2, <2>3
<1>7. /\ at' \in [NodesOf(tree) -> Nat] /\ at'[n] = k
      /\ \A m \in NodesOf(tree) \ {n} : at'[m] = at[m]
  BY <1>1, <1>3
<1>8. \A m \in Combs(tree) : m # n
  BY DEF Combs, Combinators, Bodies
<1>9. MadeInTurn(tree, state', at')
  <2>1. MadeInTurn(tree, state, at)
    BY DEF Inv, MakingInv
  <2>2. ASSUME NEW m \in NodesOf(tree) \ {Root}, Maker(tree, m) # Root,
               at'[Maker(tree, m)] < MakerStmt(tree, m)
        PROVE  state'[Frame(m)] = "none"
    <3>1. Maker(tree, m) \in NodesOf(tree) /\ MakerStmt(tree, m) \in Nat
      BY <1>1, MakerKind
    <3>2. at[Maker(tree, m)] < MakerStmt(tree, m)
      <4>1. CASE Maker(tree, m) = n
        BY <1>1, <1>7, <2>2, <3>1, <4>1
      <4>2. CASE Maker(tree, m) # n
        BY <1>7, <2>2, <3>1, <4>2
      <4> QED
        BY <4>1, <4>2
    <3>3. state[Frame(m)] = "none"
      BY <2>1, <2>2, <3>2 DEF MadeInTurn
    <3>4. Frame(m) # f
      BY <3>3 DEF f
    <3>5. Frame(m) \notin made
      <4>1. SUFFICES ASSUME m \in Made(n, i) PROVE FALSE
        BY <1>4
      <4>2. Maker(tree, m) = n /\ MakerStmt(tree, m) = i
        BY <1>1, <1>2, <4>1, MadeBy
      <4>3. k < i
        BY <1>7, <2>2, <4>2
      <4> QED
        BY <1>2, <4>3
    <3> QED
      BY <1>4, <1>6, <3>3, <3>4, <3>5
  <2>3. ASSUME NEW m \in NodesOf(tree), tree.kind[m] \in Bodies \cup {"run"},
               state'[Frame(m)] \in Unborn
        PROVE  at'[m] = 0
    <3>1. m # n
      BY <1>6, <2>3 DEF Unborn, f
    <3>2. Frame(m) # f /\ Frame(m) \in FramesOfTree(tree)
      BY <1>4, <3>1
    <3>3. state[Frame(m)] \in Unborn
      <4>1. CASE Frame(m) \in made
        <5>1. m \in Made(n, i)
          BY <1>4, <4>1
        <5>2. m # Root
          BY <1>1, <1>2, <5>1, MadeBy
        <5>3. tree.kind[m] \in Bodies
          BY <1>1, <2>3, <5>2, TreeNodes
        <5> QED
          BY <5>1, <5>3 DEF Replaced
      <4>2. CASE Frame(m) \notin made
        BY <1>6, <2>3, <3>2, <4>2 DEF Unborn
      <4> QED
        BY <4>1, <4>2
    <3> QED
      BY <1>7, <2>1, <2>3, <3>1, <3>3 DEF MadeInTurn
  <2> QED
    BY <2>2, <2>3 DEF MadeInTurn
<1>10. HelpersAfter(tree, state')
  <2>1. SUFFICES ASSUME NEW m \in Combs(tree), NEW j \in DOMAIN tree.subs[m],
                        state'[Frame(m)] \in Unborn
                 PROVE  state'[<<m, j>>] \in {"none", "freed"}
    BY DEF HelpersAfter
  <2>2. /\ <<m, j>> \in FramesOfTree(tree) \ {f} /\ <<m, j>> \notin made
        /\ m \in NodesOf(tree) /\ m # n
    BY <1>5, <1>8 DEF Combs
  <2>3. Frame(m) \in FramesOfTree(tree) \ {f}
    BY <1>4, <2>2
  <2>4. state'[<<m, j>>] = IF <<m, j>> \in freed /\ state[<<m, j>>] # "none" THEN "freed"
                           ELSE state[<<m, j>>]
    BY <1>6, <2>2
  <2>5. CASE state[Frame(m)] \in Unborn
    <3>1. state[<<m, j>>] \in {"none", "freed"}
      BY <2>5 DEF Inv, MakingInv, HelpersAfter
    <3> QED
      BY <2>4, <3>1
  <2>6. CASE state[Frame(m)] \notin Unborn
    <3>1. Frame(m) \in made
      BY <1>6, <2>1, <2>3, <2>6 DEF Unborn
    <3>2. Replaced(m, freed)
      BY <1>4, <2>2, <2>6, <3>1
    <3>3. <<m, j>> \in freed
      BY <3>2 DEF Replaced
    <3> QED
      BY <2>4, <3>3
  <2> QED
    BY <2>5, <2>6
<1>11. RootFirst(tree, state', at', running')
  <2>1. at'[Root] # 0
    <3>1. CASE n = Root
      BY <1>7, <3>1
    <3>2. CASE n # Root
      <4>1. f # Frame(Root)
        BY <1>1, <1>4, <3>2
      <4>2. at[Root] # 0
        BY <4>1, RootBegun DEF f
      <4> QED
        BY <1>1, <1>7, <3>2, <4>2
    <3> QED
      BY <3>1, <3>2
  <2> QED
    BY <2>1 DEF RootFirst
<1>12. ArmedWait(tree, state', armed')
  <2>1. ArmedWait(tree, state, armed)
    BY DEF Inv, TypeInv
  <2>2. (armed \ freed) \cap made = {}
    <3>1. SUFFICES ASSUME NEW g \in armed, g \in made PROVE g \in freed
      OBVIOUS
    <3>2. PICK m \in NodesOf(tree) : g = Frame(m) /\ state[g] \in {"suspended", "done"}
      BY <2>1 DEF ArmedWait
    <3>3. m \in Made(n, i)
      BY <1>4, <3>1, <3>2
    <3> QED
      BY <3>2, <3>3 DEF Replaced, Unborn
  <2>3. \A m \in NodesOf(tree) : tree.kind[m] \in Leaves => f # Frame(m)
    BY <1>4 DEF Leaves, Bodies
  <2>4. "suspended" \in States
    BY DEF States
  <2> QED
    BY <1>1, <1>3, <1>4, <2>1, <2>2, <2>3, <2>4, ChangeArmed
<1>13. TypeInv'
  <2>1. Bounded(tree, at', index', count')
    <3>1. Bounded(tree, at, index, count)
      BY DEF Inv, TypeInv
    <3>2. ASSUME NEW m \in NodesOf(tree)
          PROVE  at'[m] <= IF tree.kind[m] = "io" THEN MaxTries ELSE Len(tree.subs[m])
      <4>1. CASE m = n
        BY <1>7, <4>1
      <4>2. CASE m # n
        BY <1>7, <3>1, <4>2 DEF Bounded
      <4> QED
        BY <4>1, <4>2
    <3> QED
      BY <1>3, <1>7, <3>1, <3>2 DEF Bounded
  <2>2. prev' \in [FramesOfTree(tree) -> FramesOfTree(tree) \cup {Nobody}]
    BY <1>1, <1>3, <1>4
  <2>3. outcome' \in [FramesOfTree(tree) -> {"none", "value", "thrown", "timeout"}]
    BY <1>1, <1>3
  <2> QED
    BY <1>1, <1>3, <1>4, <1>6, <1>12, <2>1, <2>2, <2>3 DEF TypeInv, Typed
<1>14. CountsEnded(tree, state', count')
  <2>1. \A m \in Combs(tree) : \A j \in DOMAIN tree.subs[m] :
          state[<<m, j>>] \in {"done", "freed"} => state'[<<m, j>>] \in {"done", "freed"}
    BY <1>5, <1>6
  <2>2. CountsEnded(tree, state, count) /\ \A m \in Combs(tree) : count[m] \in Nat
    BY <1>1 DEF Inv, CombinatorInv, Combs
  <2> QED
    BY <1>1, <1>3, <2>1, <2>2, KeptCounts
<1>15. NoLeafBefore(tree, prev')
  <2>1. SUFFICES ASSUME NEW g \in FramesOfTree(tree), NEW m \in NodesOf(tree),
                        tree.kind[m] \in Leaves
                 PROVE  prev'[g] # Frame(m)
    BY DEF NoLeafBefore
  <2>2. prev[g] # Frame(m)
    BY <2>1 DEF Inv, CombinatorInv, NoLeafBefore
  <2>3. f # Frame(m)
    BY <1>4, <2>1 DEF Leaves, Bodies
  <2> QED
    BY <1>1, <1>3, <1>4, <2>2, <2>3
<1>16. LoopsOnce(tree, state', at', loops')
  <2>1. LoopsOnce(tree, state, at, loops)
    BY DEF Inv, CombinatorInv
  <2>2. ASSUME NEW j \in 1 .. Len(loops)
        PROVE  /\ state'[Frame(loops[j])] \notin Unborn
               /\ at'[loops[j]] < Len(tree.subs[loops[j]])
    <3>1. /\ loops[j] \in Combs(tree) /\ loops[j] \in NodesOf(tree) /\ loops[j] # n
          /\ state[Frame(loops[j])] \notin Unborn
      <4>1. loops[j] \in Combs(tree)
        BY <1>1, ElementOfSeq
      <4> QED
        BY <1>8, <2>1, <4>1 DEF Combs, LoopsOnce
    <3>2. Frame(loops[j]) \in FramesOfTree(tree) \ {f}
      BY <1>4, <3>1
    <3>3. Frame(loops[j]) \notin made
      BY <1>4, <3>1 DEF Replaced
    <3>4. state'[Frame(loops[j])] \notin Unborn
      BY <1>6, <3>1, <3>2, <3>3 DEF Unborn
    <3> QED
      BY <1>7, <2>1, <3>1, <3>4 DEF LoopsOnce
  <2> QED
    BY <1>3, <2>1, <2>2 DEF LoopsOnce
<1>17. WaitsInTurn(tree, state', at', running', loops')
  <2>1. SUFFICES ASSUME NEW w \in TimedWaits(tree)
                 PROVE  FirstWaits(WaitOf(tree, w), FileOf(tree, w), state', at', running', loops')
    BY DEF WaitsInTurn
  <2> DEFINE c == WaitOf(tree, w)
             s == FileOf(tree, w)
  <2>2. FirstWaits(c, s, state, at, f, loops)
    BY DEF Inv, CombinatorInv, WaitsInTurn, f
  <2>3. /\ s \in NodesOf(tree) \ {Root} /\ c \in Combs(tree) /\ tree.kind[s] = "event"
        /\ 1 \in DOMAIN tree.subs[c]
        /\ tree.owner[c] = w /\ tree.owner[s] = w /\ tree.stmt[c] = 1 /\ tree.stmt[s] = 1
        /\ \A x \in NodesOf(tree), j \in Nat : j \in DOMAIN tree.subs[x] /\ tree.subs[x][j] = s => x = c
    BY <1>1, TimedWait
  <2>4. Frame(s) \in freed => Frame(c) \in freed
    BY DEF WaitsTogether
  <2> HIDE DEF c, s
  <2>5. c \in NodesOf(tree) /\ c # n /\ s # n
    BY <1>8, <2>3 DEF Combs, Bodies
  <2>6. /\ Frame(c) \in FramesOfTree(tree) \ {f} /\ Frame(s) \in FramesOfTree(tree) \ {f}
        /\ f # <<c, 1>> /\ f # Nobody
    <3>1. Frame(c) \in FramesOfTree(tree) \ {f} /\ Frame(s) \in FramesOfTree(tree) \ {f}
      BY <1>4, <2>3, <2>5
    <3>2. f # <<c, 1>> /\ f # Nobody
      BY <1>1, <1>4, <1>5, <2>3
    <3> QED
      BY <3>1, <3>2
  <2>7. ASSUME state'[Frame(c)] = "fresh" PROVE state'[Frame(s)] = "fresh"
    <3>1. CASE Frame(c) \in made
      <4>1. c \in Made(n, i)
        BY <1>4, <2>5, <3>1
      <4>2. tree.owner[c] = n /\ i = 1
        BY <1>1, <1>2, <2>3, <4>1, MadeBy
      <4>3. s \in Made(n, i)
        BY <2>3, <4>2 DEF Made, Temporaries, NodesOf
      <4> QED
        BY <1>6, <2>6, <4>3 DEF made
    <3>2. CASE Frame(c) \notin made
      <4>1. state[Frame(c)] = "fresh" /\ Frame(c) \notin freed
        BY <1>6, <2>6, <2>7, <3>2
      <4>2. state[Frame(s)] = "fresh"
        BY <2>2, <4>1 DEF FirstWaits
      <4> QED
        BY <1>6, <2>4, <2>6, <4>1, <4>2
    <3> QED
      BY <3>1, <3>2
  <2>8. running' # Frame(s)
    <3>1. SUFFICES ASSUME e = s PROVE FALSE
      BY <1>1, <1>2, <1>3, <2>3, FrameKinds
    <3>2. n = c
      BY <1>2, <2>3, <3>1 DEF e
    <3> QED
      BY <2>5, <3>2
  <2>9. \A j \in 1 .. Len(loops') : loops'[j] # c
    BY <1>3, <2>2, <2>6 DEF FirstWaits
  <2>10. FirstWaits(c, s, state', at', running', loops')
    BY <2>7, <2>8, <2>9 DEF FirstWaits
  <2> QED
    BY <2>10 DEF c, s
<1> QED
  BY <1>3, <1>9, <1>10, <1>11, <1>13, <1>14, <1>15, <1>16, <1>17
  DEF Inv, MakingInv, CombinatorInv

(* Before its statement nothing of it is there. *)
LEMMA NoneMade ==
  ASSUME Inv, NEW n \in NodesOf(tree), tree.kind[n] \in Bodies \cup {"run"},
         running = Frame(n), NEW k \in Nat \ {0}, at[n] < k,
         n = Root => state[Frame(n)] = "fresh", NEW m \in Made(n, k)
  PROVE  state[Frame(m)] \in Unborn
<1>1. tree \in Trees /\ at[n] \in Nat
  BY InvFacts
<1>2. m \in NodesOf(tree) \ {Root} /\ Maker(tree, m) = n /\ MakerStmt(tree, m) = k
  BY <1>1, MadeBy
<1>3. CASE n = Root
  <2>1. at[Root] = 0
    BY <1>3 DEF Inv, MakingInv, MadeInTurn, Unborn
  <2> QED
    BY <1>2, <2>1 DEF Inv, MakingInv, RootFirst
<1>4. CASE n # Root
  BY <1>2, <1>4 DEF Inv, MakingInv, MadeInTurn, Unborn
<1> QED
  BY <1>3, <1>4

LEMMA StartTaskStep ==
  ASSUME Inv, NEW n \in NodesOf(tree), StartTask(n)
  PROVE  Inv'
<1>1. tree \in Trees /\ at[n] \in Nat /\ MaxTries \in Nat \ {0}
  BY InvFacts, TreesAssumption
<1>2. /\ tree.kind[n] \in Bodies \cup {"run"} /\ running = Frame(n)
      /\ state[Frame(n)] = "fresh" /\ Await(n, 1, {})
  BY DEF StartTask, Entered, Kind
<1>3. at[n] = 0
  BY <1>2 DEF Inv, MakingInv, MadeInTurn, Unborn
<1>4. Len(tree.subs[n]) \in Nat /\ Len(tree.subs[n]) # 0 /\ 1 \in DOMAIN tree.subs[n]
  <2>1. /\ Len(tree.subs[n]) \in Nat /\ DOMAIN tree.subs[n] = 1 .. Len(tree.subs[n])
        /\ tree.subs[n] \in Seq(NodesOf(tree))
        /\ tree.kind[n] \in {"run", "io"} => Len(tree.subs[n]) = 1
        /\ tree.kind[n] = "task" => tree.subs[n] # <<>>
    BY <1>1, TreeNodes
  <2>2. Len(tree.subs[n]) # 0
    <3>1. CASE tree.kind[n] = "task"
      BY <2>1, <3>1, EmptySeq
    <3>2. CASE tree.kind[n] \in {"run", "io"}
      <4>1. tree.kind[n] \in {"run", "io"} => Len(tree.subs[n]) = 1
        BY <2>1
      <4> QED
        BY <3>2, <4>1
    <3> QED
      BY <1>2, <3>1, <3>2 DEF Bodies
  <2> QED
    BY <2>1, <2>2
<1>5. 1 \in Nat \ {0} /\ 1 <= 1 /\ 1 = IF tree.kind[n] = "io" THEN 1 ELSE 1
  OBVIOUS
<1>6. 1 <= IF tree.kind[n] = "io" THEN MaxTries ELSE Len(tree.subs[n])
  <2>1. PICK l \in Nat : l = Len(tree.subs[n])
    BY <1>4
  <2>2. 1 <= l /\ 1 <= MaxTries
    BY <1>1, <1>4, <2>1
  <2> QED
    BY <2>1, <2>2
<1>7. at[n] < 1
  BY <1>3
<1>8. WaitsTogether(tree, {})
  BY <1>1, HelperWaits
<1>9. \A m \in Made(n, 1) : state[Frame(m)] \in Unborn \/ Replaced(m, {})
  BY <1>2, <1>5, <1>7, NoneMade
<1>10. state[Frame(n)] \in {"fresh", "suspended"}
  BY <1>2
<1> QED
  BY ONLY Inv, n \in NodesOf(tree), <1>2, <1>4, <1>5, <1>6, <1>7, <1>8, <1>9, <1>10, AwaitStep

LEMMA NextStatementStep ==
  ASSUME Inv, NEW n \in NodesOf(tree), NextStatement(n)
  PROVE  Inv'
<1> DEFINE k == at[n] + 1
<1>1. tree \in Trees /\ at[n] \in Nat
  BY InvFacts
<1>2. /\ tree.kind[n] = "task" /\ running = Frame(n) /\ state[Frame(n)] = "suspended"
      /\ at[n] < Len(tree.subs[n]) /\ Await(n, k, StatementFrames(n))
  BY DEF NextStatement, Resumed, Kind, Subs
<1>3. Len(tree.subs[n]) \in Nat /\ DOMAIN tree.subs[n] = 1 .. Len(tree.subs[n])
  BY <1>1, TreeNodes
<1>4. k \in DOMAIN tree.subs[n] /\ k \in Nat \ {0} /\ k <= k /\ k <= Len(tree.subs[n]) /\ at[n] < k
  BY <1>1, <1>2, <1>3
<1> HIDE DEF k
<1>5. WaitsTogether(tree, StatementFrames(n))
  BY <1>1, StatementWaits
<1>6. tree.kind[n] \in Bodies \cup {"run"} /\ tree.kind[n] # "io" /\ n # Root
  BY <1>1, <1>2, TreeNodes DEF Bodies
<1>7. \A m \in Made(n, k) : state[Frame(m)] \in Unborn \/ Replaced(m, StatementFrames(n))
  BY <1>2, <1>4, <1>6, NoneMade
<1>8. /\ k = IF tree.kind[n] = "io" THEN 1 ELSE k
      /\ k <= IF tree.kind[n] = "io" THEN MaxTries ELSE Len(tree.subs[n])
      /\ state[Frame(n)] \in {"fresh", "suspended"}
  BY <1>2, <1>4, <1>6
<1> QED
  BY ONLY Inv, n \in NodesOf(tree), <1>2, <1>4, <1>5, <1>6, <1>7, <1>8, AwaitStep

(* What a file operation has made is destroyed before it is made again. *)
LEMMA RetryReplaces ==
  ASSUME Inv, NEW n \in NodesOf(tree), tree.kind[n] = "io", running = Frame(n), NEW m \in Made(n, 1)
  PROVE  Replaced(m, StatementFrames(n))
<1>1. tree \in Trees /\ Nobody \notin FramesOfTree(tree)
  BY InvFacts
<1>2. IsWait(tree, n)
  BY <1>1, TreesAssumption DEF IsTree, NodesOf
<1> DEFINE e == WaitOf(tree, n)
<1>3. /\ tree.kind[e] \in {"event", "any"} /\ e \in NodesOf(tree)
      /\ \A x \in NodesOf(tree) \ {Root} :
           tree.owner[x] = n => x = e \/ tree.kind[x] \in {"event", "timer"}
  <2>1. Len(tree.subs[n]) = 1 /\ DOMAIN tree.subs[n] = 1 .. Len(tree.subs[n])
    BY <1>1, TreeNodes
  <2>2. e \in NodesOf(tree)
    BY <1>1, <2>1, TreeSubs DEF WaitOf
  <2>3. tree.kind[e] \in {"event", "any"}
    BY <1>2 DEF IsWait, WaitOf
  <2>4. CASE tree.kind[e] = "event"
    <3>1. tree.subs[e] = <<>>
      BY <1>1, <2>2, <2>4, TreeNodes DEF Leaves
    <3>2. DOMAIN tree.subs[e] = {}
      BY <3>1
    <3>3. \A x \in NodesOf(tree) \ {Root} :
            tree.owner[x] = n => x = e \/ \E j \in DOMAIN tree.subs[e] : x = tree.subs[e][j]
      <4>1. \A x \in NodesOf(tree) \ {Root} : tree.owner[x] = n => n \in tree.above[x]
        BY <1>1, TreeAbove
      <4>2. \A x \in NodesOf(tree) :
              n \in tree.above[x] => x = e \/ \E j \in DOMAIN tree.subs[e] : x = tree.subs[e][j]
        BY <1>2 DEF IsWait, WaitOf, NodesOf
      <4> QED
        BY <4>1, <4>2
    <3> QED
      BY <2>2, <2>4, <3>2, <3>3
  <2>5. CASE tree.kind[e] = "any"
    <3>1. n \in TimedWaits(tree)
      BY <2>5 DEF TimedWaits
    <3>2. \A x \in NodesOf(tree) \ {Root} :
            tree.owner[x] = n => x = e \/ tree.kind[x] \in {"event", "timer"}
      BY <1>1, <3>1, TimedWait
    <3> QED
      BY <2>2, <2>5, <3>2
  <2> QED
    BY <2>3, <2>4, <2>5
<1> HIDE DEF e
<1>4. /\ m \in NodesOf(tree) \ {Root} /\ m \in Temporaries(n, 1)
      /\ tree.kind[m] \in {"event", "timer", "any"} /\ (tree.kind[m] = "any" => m = e)
  <2>1. ASSUME NEW x \in Temporaries(n, 1)
        PROVE  /\ x \in NodesOf(tree) \ {Root}
               /\ tree.kind[x] \in {"event", "timer", "any"} /\ (tree.kind[x] = "any" => x = e)
    BY <1>3 DEF Temporaries, NodesOf
  <2>2. ASSUME NEW x \in Temporaries(n, 1), m \in Temporaries(x, 0) PROVE FALSE
    <3>1. m \in NodesOf(tree) /\ tree.owner[m] = x
      BY <2>2 DEF Temporaries, NodesOf
    <3>2. tree.kind[x] \in Bodies \cup {"run"}
      BY <1>1, <3>1, TreeNodes
    <3> QED
      BY <2>1, <3>2 DEF Bodies
  <2>3. m \in Temporaries(n, 1)
    BY <2>2 DEF Made
  <2> QED
    BY <2>1, <2>3
<1>5. /\ Frame(m) \in StatementFrames(n)
      /\ m \in Combs(tree) => \A i \in DOMAIN tree.subs[m] : <<m, i>> \in StatementFrames(n)
  <2>1. Temporaries(n, Stmt(n)) = Temporaries(n, 1)
    BY DEF Stmt, Kind
  <2>2. FramesIn(m) \subseteq StatementFrames(n)
    BY <1>4, <2>1 DEF StatementFrames
  <2>3. m \in tree.inside[m]
    BY <1>1, <1>4, TreeInside
  <2> QED
    BY <1>1, <1>4, <2>2, <2>3, FramesInIs
<1>6. ASSUME NEW j \in 1 .. Len(loops), loops[j] = m PROVE FALSE
  <2>1. m \in Combs(tree)
    BY <1>6, InvFacts, ElementOfSeq
  <2>2. m = e /\ n \in TimedWaits(tree)
    BY <1>4, <2>1 DEF Combs, Combinators, TimedWaits, e
  <2>3. FirstWaits(e, FileOf(tree, n), state, at, running, loops)
    BY <2>2 DEF Inv, CombinatorInv, WaitsInTurn, e
  <2>4. running \in {<<e, 1>>, Frame(FileOf(tree, n)), Nobody}
    BY <1>6, <2>2, <2>3 DEF FirstWaits
  <2>5. FileOf(tree, n) \in NodesOf(tree) /\ FileOf(tree, n) # n /\ 1 \in DOMAIN tree.subs[e]
    BY <1>1, <2>2, TimedWait DEF e
  <2>6. Frame(n) # <<e, 1>> /\ Frame(n) # Frame(FileOf(tree, n)) /\ Frame(n) # Nobody
    BY <1>1, <1>3, <2>5, FrameKinds
  <2> QED
    BY <2>4, <2>6
<1> QED
  BY <1>4, <1>5, <1>6 DEF Replaced, Bodies

LEMMA RetryStep ==
  ASSUME Inv, NEW n \in NodesOf(tree), Retry(n)
  PROVE  Inv'
<1> DEFINE k == at[n] + 1
<1>1. tree \in Trees /\ at[n] \in Nat /\ MaxTries \in Nat
  BY InvFacts, TreesAssumption
<1>2. /\ tree.kind[n] = "io" /\ running = Frame(n) /\ state[Frame(n)] = "suspended"
      /\ at[n] < MaxTries /\ Await(n, k, StatementFrames(n))
  BY DEF Retry, Waited, Resumed, Kind
<1>3. Len(tree.subs[n]) = 1 /\ DOMAIN tree.subs[n] = 1 .. Len(tree.subs[n])
  BY <1>1, <1>2, TreeNodes
<1>4. 1 \in DOMAIN tree.subs[n] /\ k \in Nat \ {0} /\ 1 <= k /\ k <= MaxTries /\ at[n] < k
  BY <1>1, <1>2, <1>3
<1> HIDE DEF k
<1>5. WaitsTogether(tree, StatementFrames(n))
  BY <1>1, StatementWaits
<1>6. tree.kind[n] \in Bodies \cup {"run"}
  BY <1>2 DEF Bodies
<1>7. \A m \in Made(n, 1) : state[Frame(m)] \in Unborn \/ Replaced(m, StatementFrames(n))
  BY <1>2, RetryReplaces
<1>8. /\ 1 = IF tree.kind[n] = "io" THEN 1 ELSE k
      /\ k <= IF tree.kind[n] = "io" THEN MaxTries ELSE Len(tree.subs[n])
      /\ state[Frame(n)] \in {"fresh", "suspended"}
  BY <1>2, <1>4
<1> QED
  BY ONLY Inv, n \in NodesOf(tree), <1>2, <1>4, <1>5, <1>6, <1>7, <1>8, AwaitStep

-----------------------------------------------------------------------------
LEMMA InitInv == Init => Inv
<1> SUFFICES ASSUME Init PROVE Inv
  OBVIOUS
<1> DEFINE first == {Frame(n) : n \in {Root} \cup Made(Root, 1)}
<1>1. /\ tree \in Trees
      /\ state = [f \in FramesOfTree(tree) |-> IF f \in first THEN "fresh" ELSE "none"]
      /\ prev = [f \in FramesOfTree(tree) |-> Nobody]
      /\ outcome = [f \in FramesOfTree(tree) |-> "none"]
      /\ at = [n \in NodesOf(tree) |-> 0] /\ index = [n \in NodesOf(tree) |-> 0]
      /\ count = [n \in NodesOf(tree) |-> 0]
      /\ armed = {} /\ running = Frame(Root) /\ loops = <<>>
  BY DEF Init, NodesOf
<1>2. Root \in NodesOf(tree) /\ Nobody \notin FramesOfTree(tree) /\ Frame(Root) \in FramesOfTree(tree)
  <2>1. Root \in NodesOf(tree)
    BY <1>1, TreesAssumption DEF IsTree, NodesOf
  <2> QED
    BY <1>1, <2>1, FrameKinds
<1>3. \A f \in FramesOfTree(tree) : state[f] = IF f \in first THEN "fresh" ELSE "none"
  BY <1>1
<1>4. Frame(Root) \in first
  OBVIOUS
<1>5. \A m \in Made(Root, 1) : m \in NodesOf(tree) \ {Root} /\ Maker(tree, m) = Root
  BY <1>1, <1>2, MadeBy
<1>6. \A m \in NodesOf(tree) : Frame(m) \in first => m = Root \/ Maker(tree, m) = Root
  BY <1>1, <1>2, <1>5, FrameKinds
<1>7. \A m \in Combs(tree) : \A i \in DOMAIN tree.subs[m] :
        <<m, i>> \in FramesOfTree(tree) /\ <<m, i>> \notin first
  <2>1. SUFFICES ASSUME NEW m \in Combs(tree), NEW i \in DOMAIN tree.subs[m]
                 PROVE  <<m, i>> \in FramesOfTree(tree) /\ <<m, i>> \notin first
    OBVIOUS
  <2>2. <<m, i>> \in FramesOfTree(tree)
    BY <1>1, FrameKinds
  <2>3. \A x \in NodesOf(tree) : <<m, i>> # Frame(x)
    BY <1>1, FrameKinds DEF Combs
  <2> QED
    BY <1>2, <1>5, <2>2, <2>3
<1> HIDE DEF first
<1>8. TypeInv
  <2>1. Typed(tree, state, prev, outcome, running, loops)
    <3>1. state \in [FramesOfTree(tree) -> States]
      BY <1>1 DEF States
    <3>2. loops \in Seq(Combs(tree))
      BY <1>1
    <3> QED
      BY <1>1, <1>2, <3>1, <3>2 DEF Typed
  <2>2. Bounded(tree, at, index, count)
    <3>1. \A n \in NodesOf(tree) : Len(tree.subs[n]) \in Nat
      BY <1>1, TreeNodes
    <3>2. MaxTries \in Nat
      BY TreesAssumption
    <3> QED
      BY <1>1, <3>1, <3>2 DEF Bounded
  <2>3. ArmedWait(tree, state, armed)
    BY <1>1 DEF ArmedWait
  <2> QED
    BY <2>1, <2>2, <2>3 DEF TypeInv
<1>9. MakingInv
  <2>1. MadeInTurn(tree, state, at)
    <3>1. \A m \in NodesOf(tree) \ {Root} : Maker(tree, m) # Root => state[Frame(m)] = "none"
      BY <1>1, <1>3, <1>6, FrameKinds
    <3> QED
      BY <1>1, <3>1 DEF MadeInTurn
  <2>2. RootFirst(tree, state, at, running)
    BY <1>1, <1>2, <1>3, <1>4, FrameKinds DEF RootFirst, Unborn
  <2>3. HelpersAfter(tree, state)
    BY <1>3, <1>7 DEF HelpersAfter
  <2> QED
    BY <2>1, <2>2, <2>3 DEF MakingInv
<1>10. CombinatorInv
  <2>1. CountsEnded(tree, state, count)
    <3>1. SUFFICES ASSUME NEW n \in Combs(tree)
                   PROVE  count[n] <= Cardinality(Ended(tree, state, n))
      BY DEF CountsEnded
    <3>2. Cardinality(Ended(tree, state, n)) \in Nat /\ count[n] = 0
      BY <1>1, EndedFinite DEF Combs
    <3> QED
      BY <3>2
  <2>2. NoLeafBefore(tree, prev)
    BY <1>1, <1>2, FrameKinds DEF NoLeafBefore
  <2>3. 1 .. Len(loops) = {}
    BY <1>1
  <2>4. LoopsOnce(tree, state, at, loops)
    BY <2>3 DEF LoopsOnce
  <2>5. WaitsInTurn(tree, state, at, running, loops)
    <3>1. SUFFICES ASSUME NEW w \in TimedWaits(tree)
                   PROVE  FirstWaits(WaitOf(tree, w), FileOf(tree, w), state, at, running, loops)
      BY DEF WaitsInTurn
    <3> DEFINE e == WaitOf(tree, w)
               s == FileOf(tree, w)
    <3>2. /\ w \in NodesOf(tree) /\ e \in NodesOf(tree) \ {Root} /\ s \in NodesOf(tree) \ {Root}
          /\ tree.owner[e] = w /\ tree.stmt[e] = 1 /\ tree.kind[w] = "io"
      BY <1>1, TimedWait DEF Combs
    <3> HIDE DEF e, s
    <3>3. Maker(tree, e) # Root
      BY <1>1, <3>2, TreeNodes DEF Maker
    <3>4. state[Frame(e)] # "fresh"
      BY <1>1, <1>3, <1>6, <3>2, <3>3, FrameKinds
    <3>5. FirstWaits(e, s, state, at, running, loops)
      BY <2>3, <3>4 DEF FirstWaits
    <3> QED
      BY <3>5 DEF e, s
  <2> QED
    BY <2>1, <2>2, <2>4, <2>5 DEF CombinatorInv
<1> QED
  BY <1>8, <1>9, <1>10 DEF Inv

(* An action of a helper is taken when it has control. *)
LEMMA HelperRuns ==
  ASSUME Inv, NEW n \in NodesOf(tree), NEW i \in DOMAIN tree.subs[n], Helper(n, i)
  PROVE  n \in Combs(tree) /\ running = <<n, i>>
<1>1. tree \in Trees /\ running \in FramesOfTree(tree) \cup {Nobody} /\ n \in DOMAIN tree.kind
  BY InvFacts DEF NodesOf
<1>2. running = <<n, i>>
  BY DEF Helper, StartHelper, EndAnyHelper, EndAllHelper, FailHelper, Entered, Resumed
<1>3. DOMAIN tree.subs[n] = 1 .. Len(tree.subs[n]) /\ Len(tree.subs[n]) \in Nat
  BY <1>1, TreeNodes
<1>4. <<n, i>> \in FramesOfTree(tree)
  <2>1. <<n, i>> \in (DOMAIN tree.kind) \X Nat
    BY <1>1, <1>3
  <2>2. <<n, i>> # Nobody
    BY <1>1, <2>1, TreesAssumption
  <2> QED
    BY <1>1, <1>2, <2>2
<1>5. \A m \in NodesOf(tree) : <<n, i>> # Frame(m)
  BY <1>1, FrameKinds
<1>6. PICK m \in Combs(tree) : \E j \in DOMAIN tree.subs[m] : <<n, i>> = <<m, j>>
  BY <1>1, <1>4, <1>5, FrameKinds
<1> QED
  BY <1>2, <1>6

LEMMA NextInv == Inv /\ [Next]_vars => Inv'
<1> SUFFICES ASSUME Inv, [Next]_vars PROVE Inv'
  OBVIOUS
<1>1. CASE UNCHANGED vars
  BY <1>1 DEF vars, Inv, TypeInv, MakingInv, CombinatorInv
<1>2. CASE EndRun
  BY <1>2, EndRunStep
<1>3. CASE Terminate
  BY <1>3, TerminateStep
<1>4. ASSUME NEW n \in NodesOf(tree), Body(n) PROVE Inv'
  <2>1. ASSUME NEW r \in {"value", "thrown", "timeout"}, Resumed(Frame(n)), Return(n, r)
        PROVE  Inv'
    BY <2>1, ReturnStep
  <2>2. CASE StartTask(n)
    BY <2>2, StartTaskStep
  <2>3. CASE NextStatement(n)
    BY <2>3, NextStatementStep
  <2>4. CASE ReturnTask(n)
    BY <2>1, <2>4 DEF ReturnTask
  <2>5. CASE Propagate(n)
    BY <2>1, <2>5 DEF Propagate
  <2>6. CASE Retry(n)
    BY <2>6, RetryStep
  <2>7. CASE ReturnIo(n)
    BY <2>1, <2>7 DEF ReturnIo, Waited
  <2> QED
    BY <1>4, <2>2, <2>3, <2>4, <2>5, <2>6, <2>7 DEF Body
<1>5. ASSUME NEW n \in NodesOf(tree), Leaf(n) PROVE Inv'
  BY <1>5, SuspendLeafStep, EndLeafStep DEF Leaf
<1>6. ASSUME NEW n \in NodesOf(tree), Combinator(n) PROVE Inv'
  <2>1. CASE StartCombinator(n)
    BY <2>1, StartCombinatorStep
  <2>2. CASE ResumeNext(n)
    BY <2>2, ResumeNextStep
  <2>3. CASE ReturnEmpty(n)
    BY <2>3, ReturnEmptyStep
  <2>4. CASE EndCombinator(n)
    BY <2>4, EndCombinatorStep
  <2>5. ASSUME NEW i \in DOMAIN tree.subs[n], Helper(n, i) PROVE Inv'
    <3>1. n \in Combs(tree)
      BY <2>5, HelperRuns
    <3> QED
      BY <2>5, <3>1, StartHelperStep, EndAnyHelperStep, EndAllHelperStep, FailHelperStep DEF Helper
  <2> QED
    BY <1>6, <2>1, <2>2, <2>3, <2>4, <2>5 DEF Combinator, Subs
<1>7. ASSUME NEW n \in NodesOf(tree), Event(n) PROVE Inv'
  BY <1>7, EventStep
<1> QED
  BY <1>1, <1>2, <1>3, <1>4, <1>5, <1>6, <1>7 DEF Next, Run, NodesOf

LEMMA InvType == Inv => TypeOK
<1> SUFFICES ASSUME Inv PROVE TypeOK
  OBVIOUS
<1>1. /\ tree \in Trees /\ state \in [FramesOfTree(tree) -> States]
      /\ prev \in [FramesOfTree(tree) -> FramesOfTree(tree) \cup {Nobody}]
      /\ outcome \in [FramesOfTree(tree) -> {"none", "value", "thrown", "timeout"}]
      /\ running \in FramesOfTree(tree) \cup {Nobody}
      /\ loops \in Seq(Combs(tree))
      /\ at \in [NodesOf(tree) -> Nat] /\ index \in [NodesOf(tree) -> Nat]
      /\ count \in [NodesOf(tree) -> Nat]
  BY InvFacts
<1>2. Bounded(tree, at, index, count)
  BY DEF Inv, TypeInv
<1>3. ASSUME NEW n \in NodesOf(tree)
      PROVE  /\ at[n] \in 0 .. (IF Kind(n) = "io" THEN MaxTries ELSE Len(Subs(n)))
             /\ index[n] \in 0 .. Len(Subs(n))
             /\ count[n] \in 0 .. Len(Subs(n))
  <2>1. Len(tree.subs[n]) \in Nat /\ MaxTries \in Nat
    BY <1>1, TreeNodes, TreesAssumption
  <2>2. count[n] <= Len(tree.subs[n])
    <3>1. CASE n \in Combs(tree)
      <4>1. count[n] <= Cardinality(Ended(tree, state, n))
        BY <3>1 DEF Inv, CombinatorInv, CountsEnded
      <4>2. /\ Cardinality(Ended(tree, state, n)) \in Nat
            /\ Cardinality(Ended(tree, state, n)) <= Len(tree.subs[n])
        BY <1>1, <3>1, EndedFinite
      <4> QED
        BY <1>1, <2>1, <4>1, <4>2
    <3>2. CASE n \notin Combs(tree)
      BY <1>2, <2>1, <3>2 DEF Bounded
    <3> QED
      BY <3>1, <3>2
  <2>3. /\ at[n] <= IF tree.kind[n] = "io" THEN MaxTries ELSE Len(tree.subs[n])
        /\ index[n] <= Len(tree.subs[n])
    BY <1>2 DEF Bounded
  <2> QED
    BY <1>1, <2>1, <2>2, <2>3 DEF Kind, Subs
<1>4. armed \subseteq {f \in Frames : Kind(f[1]) \in Leaves /\ state[f] \in {"suspended", "done"}}
  <2>1. SUFFICES ASSUME NEW f \in armed
                 PROVE  f \in Frames /\ Kind(f[1]) \in Leaves /\ state[f] \in {"suspended", "done"}
    OBVIOUS
  <2>2. PICK n \in NodesOf(tree) :
          f = Frame(n) /\ tree.kind[n] \in Leaves /\ state[f] \in {"suspended", "done"}
    BY DEF Inv, TypeInv, ArmedWait
  <2>3. f[1] = n
    BY <2>2 DEF Frame
  <2> QED
    BY <1>1, <2>2, <2>3, FrameKinds DEF Kind, Frames
<1>5. DOMAIN at = DOMAIN tree.kind /\ DOMAIN index = DOMAIN at /\ DOMAIN count = DOMAIN at
  BY <1>1 DEF NodesOf
<1>6. loops \in Seq({n \in DOMAIN tree.kind : Kind(n) \in Combinators})
  BY <1>1 DEF Combs, NodesOf, Kind
<1> QED
  BY <1>1, <1>3, <1>4, <1>5, <1>6 DEF TypeOK, Frames, States, NodesOf

(* Every variable has its type, whatever the tree: no combinator resumes   *)
(* more helpers than it has, complete_count is at most their number, an    *)
(* operation is tried MaxTries times at most, and the poller and the       *)
(* timers hold the handles of leaves that wait for them or have just       *)
(* ended, and of no frame that is destroyed or has not begun.              *)
THEOREM TypeCorrect == Spec => []TypeOK
<1>1. Init => Inv
  BY InitInv
<1>2. Inv /\ [Next]_vars => Inv'
  BY NextInv
<1>3. Inv => TypeOK
  BY InvType
<1> QED
  BY <1>1, <1>2, <1>3, PTL DEF Spec

(* A helper of a when_all that has not ended goes back, when it ends, to   *)
(* who resumed it.                                                         *)
AllReturn(t, st, p) ==
  \A n \in Combs(t) : t.kind[n] = "all" =>
    \A i \in DOMAIN t.subs[n] : st[<<n, i>>] \in {"fresh", "suspended"} => p[<<n, i>>] = Nobody

LEMMA NotAFrame ==
  ASSUME NEW t \in Trees, NEW n \in Combs(t), NEW i \in DOMAIN t.subs[n]
  PROVE  /\ n \in NodesOf(t) /\ <<n, i>> \in FramesOfTree(t)
         /\ \A m : <<n, i>> # Frame(m)
<1>1. n \in NodesOf(t) /\ DOMAIN t.subs[n] = 1 .. Len(t.subs[n]) /\ Len(t.subs[n]) \in Nat
  BY TreeNodes DEF Combs
<1>2. i # 0
  BY <1>1
<1> QED
  BY <1>1, <1>2, FrameKinds DEF Frame

(* Steps that keep previous_handle_ of helpers and make no helper. *)
LEMMA ReturnKept ==
  ASSUME Inv, AllReturn(tree, state, prev), tree' = tree,
         \A n \in Combs(tree) : \A i \in DOMAIN tree.subs[n] :
           state'[<<n, i>>] \in {"fresh", "suspended"} =>
             /\ state[<<n, i>>] \in {"fresh", "suspended"}
             /\ prev'[<<n, i>>] = prev[<<n, i>>]
  PROVE  AllReturn(tree', state', prev')
BY DEF AllReturn

LEMMA ChangeReturns ==
  ASSUME Inv, AllReturn(tree, state, prev), tree' = tree,
         NEW f \in FramesOfTree(tree), NEW s \in States, NEW freed, NEW nodes,
         Become(f, s, freed, {Frame(m) : m \in nodes}),
         \A n \in Combs(tree) : \A i \in DOMAIN tree.subs[n] :
           prev'[<<n, i>>] = prev[<<n, i>>],
         s \in {"done", "freed"} \/ \E m : f = Frame(m)
  PROVE  AllReturn(tree', state', prev')
<1>1. ASSUME NEW n \in Combs(tree), NEW i \in DOMAIN tree.subs[n],
             state'[<<n, i>>] \in {"fresh", "suspended"}
      PROVE  state[<<n, i>>] \in {"fresh", "suspended"}
  <2>1. tree \in Trees
    BY InvFacts
  <2>2. /\ <<n, i>> \in FramesOfTree(tree)
        /\ \A m : <<n, i>> # Frame(m)
    BY <2>1, NotAFrame
  <2>3. state'[<<n, i>>] =
          IF <<n, i>> = f THEN s
          ELSE IF <<n, i>> \in {Frame(m) : m \in nodes} THEN "fresh"
          ELSE IF <<n, i>> \in freed /\ state[<<n, i>>] # "none" THEN "freed"
          ELSE state[<<n, i>>]
    BY <2>2 DEF Become, Frames
  <2> QED
    BY <1>1, <2>2, <2>3
<1> QED
  BY <1>1, ReturnKept

LEMMA AwaitReturns ==
  ASSUME Inv, AllReturn(tree, state, prev),
         NEW n \in NodesOf(tree), NEW k, NEW freed, Await(n, k, freed)
  PROVE  AllReturn(tree', state', prev')
<1>1. tree \in Trees /\ prev \in [FramesOfTree(tree) -> FramesOfTree(tree) \cup {Nobody}]
  BY InvFacts
<1>2. PICK e :
        /\ Become(Frame(n), "suspended", freed, {Frame(m) : m \in Made(n, tree.stmt[e])})
        /\ prev' = [prev EXCEPT ![Frame(e)] = Frame(n)] /\ tree' = tree
  BY Zenon DEF Await
<1>3. ASSUME NEW m \in Combs(tree), NEW i \in DOMAIN tree.subs[m]
      PROVE  prev'[<<m, i>>] = prev[<<m, i>>]
  <2>1. <<m, i>> \in FramesOfTree(tree) /\ <<m, i>> # Frame(e)
    BY <1>1, NotAFrame
  <2> QED
    BY <1>1, <1>2, <2>1
<1>4. Frame(n) \in FramesOfTree(tree) /\ "suspended" \in States
  BY <1>1, FrameKinds DEF States
<1> QED
  BY <1>2, <1>3, <1>4, ChangeReturns

LEMMA FinishReturns ==
  ASSUME Inv, AllReturn(tree, state, prev), NEW f \in FramesOfTree(tree),
         NEW r, NEW freed, NEW next, FinishTo(f, r, freed, next), tree' = tree,
         \A n \in Combs(tree) : \A i \in DOMAIN tree.subs[n] :
           <<n, i>> # f => prev'[<<n, i>>] = prev[<<n, i>>]
  PROVE  AllReturn(tree', state', prev')
<1>1. tree \in Trees
  BY InvFacts
<1>2. ASSUME NEW n \in Combs(tree), NEW i \in DOMAIN tree.subs[n],
             state'[<<n, i>>] \in {"fresh", "suspended"}
      PROVE  /\ state[<<n, i>>] \in {"fresh", "suspended"}
             /\ prev'[<<n, i>>] = prev[<<n, i>>]
  <2>1. <<n, i>> \in FramesOfTree(tree)
    BY <1>1, NotAFrame
  <2>2. state'[<<n, i>>] =
          IF <<n, i>> = f THEN "done"
          ELSE IF <<n, i>> \in freed /\ state[<<n, i>>] # "none" THEN "freed"
          ELSE state[<<n, i>>]
    BY <2>1 DEF FinishTo, Become, Frames
  <2> QED
    BY <1>2, <2>2
<1> QED
  BY <1>2, ReturnKept

LEMMA CombinatorReturns ==
  ASSUME Inv, AllReturn(tree, state, prev), NEW n \in NodesOf(tree), StartCombinator(n)
  PROVE  AllReturn(tree', state', prev')
<1>1. tree \in Trees /\ tree' = tree
  BY InvFacts DEF StartCombinator
<1>2. ASSUME NEW m \in Combs(tree), tree.kind[m] = "all", NEW i \in DOMAIN tree.subs[m],
             state'[<<m, i>>] \in {"fresh", "suspended"}
      PROVE  prev'[<<m, i>>] = Nobody
  <2>1. <<m, i>> \in FramesOfTree(tree) /\ <<m, i>> # Frame(n)
    BY <1>1, NotAFrame
  <2>2. prev'[<<m, i>>] = IF <<m, i>> \in Helpers(n) THEN PreviousOfHelper(n) ELSE prev[<<m, i>>]
    BY <2>1 DEF StartCombinator, Frames
  <2>3. CASE <<m, i>> \in Helpers(n)
    <3>1. m = n
      BY <2>3 DEF Helpers
    <3> QED
      BY <1>2, <2>2, <2>3, <3>1 DEF PreviousOfHelper, Kind
  <2>4. CASE <<m, i>> \notin Helpers(n)
    <3>1. Become(Frame(n), "suspended", {}, Helpers(n))
      BY DEF StartCombinator
    <3>2. state'[<<m, i>>] = state[<<m, i>>]
      BY <2>1, <2>4, <3>1 DEF Become, Frames
    <3> QED
      BY <1>2, <2>2, <2>4, <3>2 DEF AllReturn
  <2> QED
    BY <2>3, <2>4
<1> QED
  BY <1>1, <1>2 DEF AllReturn

LEMMA HelperReturns ==
  ASSUME Inv, AllReturn(tree, state, prev),
         NEW n \in Combs(tree), NEW i \in DOMAIN tree.subs[n], Helper(n, i)
  PROVE  AllReturn(tree', state', prev')
<1>1. /\ tree \in Trees /\ prev \in [FramesOfTree(tree) -> FramesOfTree(tree) \cup {Nobody}]
      /\ state \in [FramesOfTree(tree) -> States]
  BY InvFacts
<1>2. <<n, i>> \in FramesOfTree(tree)
  BY <1>1, NotAFrame
<1>3. CASE StartHelper(n, i)
  <2>1. PICK s : prev' = [prev EXCEPT ![Frame(s)] = <<n, i>>]
    BY <1>3, Zenon DEF StartHelper
  <2>2. /\ state' = [state EXCEPT ![<<n, i>>] = "suspended"] /\ tree' = tree
        /\ state[<<n, i>>] = "fresh"
    BY <1>3 DEF StartHelper, Entered
  <2>3. ASSUME NEW m \in Combs(tree), NEW j \in DOMAIN tree.subs[m],
               state'[<<m, j>>] \in {"fresh", "suspended"}
        PROVE  /\ state[<<m, j>>] \in {"fresh", "suspended"}
               /\ prev'[<<m, j>>] = prev[<<m, j>>]
    <3>1. <<m, j>> \in FramesOfTree(tree) /\ <<m, j>> # Frame(s)
      BY <1>1, NotAFrame
    <3> QED
      BY <1>1, <2>1, <2>2, <2>3, <3>1
  <2> QED
    BY <2>2, <2>3, ReturnKept
<1>4. CASE EndAnyHelper(n, i)
  BY <1>2, <1>4, FinishReturns DEF EndAnyHelper, Finish
<1>5. CASE EndAllHelper(n, i)
  <2>1. PICK next : /\ prev' = [prev EXCEPT ![<<n, i>>] = next]
                    /\ FinishTo(<<n, i>>, "value", {}, next)
    BY <1>5, Zenon DEF EndAllHelper
  <2>2. ASSUME NEW m \in Combs(tree), NEW j \in DOMAIN tree.subs[m], <<m, j>> # <<n, i>>
        PROVE  prev'[<<m, j>>] = prev[<<m, j>>]
    BY <1>1, <2>1, <2>2, NotAFrame
  <2>3. tree' = tree
    BY <1>5 DEF EndAllHelper
  <2> QED
    BY <1>2, <2>1, <2>2, <2>3, FinishReturns
<1>6. CASE FailHelper(n, i)
  BY <1>2, <1>6, FinishReturns DEF FailHelper, Finish
<1> QED
  BY <1>3, <1>4, <1>5, <1>6 DEF Helper

LEMMA ReturnsNext ==
  ASSUME Inv, AllReturn(tree, state, prev), [Next]_vars
  PROVE  AllReturn(tree', state', prev')
<1>1. /\ tree \in Trees /\ Frame(Root) \in FramesOfTree(tree)
      /\ state \in [FramesOfTree(tree) -> States]
  BY InvFacts
<1>2. \A n \in NodesOf(tree) : Frame(n) \in FramesOfTree(tree)
  BY <1>1, FrameKinds
<1>3. CASE UNCHANGED <<tree, state, prev>>
  BY <1>3
<1>4. CASE EndRun
  <2>1. Become(Frame(Root), "freed", WrapperAndTask, {Frame(m) : m \in {}})
    BY <1>4 DEF EndRun
  <2>2. UNCHANGED <<tree, prev>> /\ "freed" \in States
    BY <1>4 DEF EndRun, States
  <2> QED
    BY <1>1, <2>1, <2>2, ChangeReturns
<1>5. ASSUME NEW n \in NodesOf(tree), Body(n) PROVE AllReturn(tree', state', prev')
  <2>1. ASSUME NEW r, Return(n, r) PROVE AllReturn(tree', state', prev')
    BY <1>2, <2>1, FinishReturns DEF Return, Finish
  <2> QED
    BY <1>5, <2>1, AwaitReturns
    DEF Body, StartTask, NextStatement, Retry, ReturnTask, Propagate, ReturnIo
<1>6. ASSUME NEW n \in NodesOf(tree), Leaf(n) PROVE AllReturn(tree', state', prev')
  <2>1. CASE SuspendLeaf(n)
    <3>1. ASSUME NEW m \in Combs(tree), NEW j \in DOMAIN tree.subs[m]
          PROVE  state'[<<m, j>>] = state[<<m, j>>]
      <4>1. <<m, j>> # Frame(n)
        BY <1>1, NotAFrame
      <4> QED
        BY <1>1, <2>1, <4>1, NotAFrame DEF SuspendLeaf
    <3>2. UNCHANGED <<tree, prev>>
      BY <2>1 DEF SuspendLeaf
    <3> QED
      BY <3>1, <3>2, ReturnKept
  <2>2. CASE EndLeaf(n)
    <3>1. PICK r : Finish(Frame(n), r, {})
      BY <2>2 DEF EndLeaf
    <3>2. UNCHANGED <<tree, prev>>
      BY <2>2 DEF EndLeaf
    <3> QED
      BY <1>2, <3>1, <3>2, FinishReturns DEF Finish
  <2> QED
    BY <1>6, <2>1, <2>2 DEF Leaf
<1>7. ASSUME NEW n \in NodesOf(tree), Combinator(n) PROVE AllReturn(tree', state', prev')
  <2>1. CASE ReturnEmpty(n)
    BY <1>2, <2>1, FinishReturns DEF ReturnEmpty, Finish
  <2>2. CASE EndCombinator(n)
    BY <1>2, <2>2, FinishReturns DEF EndCombinator, Finish
  <2>3. CASE ResumeNext(n)
    BY <1>3, <2>3 DEF ResumeNext
  <2>4. ASSUME NEW i \in DOMAIN tree.subs[n], Helper(n, i)
        PROVE  AllReturn(tree', state', prev')
    BY <2>4, HelperRuns, HelperReturns
  <2> QED
    BY <1>7, <2>1, <2>2, <2>3, <2>4, CombinatorReturns DEF Combinator, Subs
<1> QED
  BY <1>3, <1>4, <1>5, <1>6, <1>7
  DEF Next, Run, NodesOf, vars, Terminate, Event

LEMMA AllHaveEnded ==
  ASSUME NEW t \in Trees, NEW st, NEW n \in Combs(t),
         Len(t.subs[n]) <= Cardinality(Ended(t, st, n))
  PROVE  Ended(t, st, n) = DOMAIN t.subs[n]
<1> DEFINE L == Len(t.subs[n])
           D == Ended(t, st, n)
<1>1. L \in Nat /\ DOMAIN t.subs[n] = 1 .. L
  BY TreeNodes DEF Combs
<1>2. IsFiniteSet(1 .. L) /\ Cardinality(1 .. L) = L
  <2>1. Cardinality(1 .. L) = IF 1 > L THEN 0 ELSE L - 1 + 1
    BY <1>1, FS_Interval, SMTT(30)
  <2>2. IsFiniteSet(1 .. L)
    BY <1>1, FS_Interval
  <2> QED
    BY <1>1, <2>1, <2>2
<1>3. D \subseteq 1 .. L /\ Cardinality(D) \in Nat /\ Cardinality(D) <= L
  BY EndedFinite
<1>4. Cardinality(D) = L
  BY <1>1, <1>3
<1> QED
  BY <1>1, <1>2, <1>3, <1>4, FS_Subset

(* A helper that ends and gives the parent control is the last. *)
LEMMA LastEnd ==
  ASSUME Inv, Inv', AllReturn(tree, state, prev), [Next]_vars,
         NEW n \in Combs(tree), tree.kind[n] = "all", NEW i \in DOMAIN tree.subs[n],
         running = <<n, i>>, state'[<<n, i>>] = "done", running' = Frame(n)
  PROVE  \A j \in DOMAIN tree.subs[n] : state'[<<n, j>>] \in {"done", "freed"}
<1>1. /\ tree \in Trees /\ state \in [FramesOfTree(tree) -> States]
      /\ Nobody \notin FramesOfTree(tree)
  BY InvFacts
<1>2. /\ <<n, i>> \in FramesOfTree(tree) /\ Frame(n) \in FramesOfTree(tree)
      /\ n \in NodesOf(tree) /\ \A m : <<n, i>> # Frame(m)
  BY <1>1, NotAFrame, FrameKinds
<1>3. Helper(n, i)
  <2>1. running # Nobody /\ (\A m : running # Frame(m)) /\ running' # running
    BY <1>1, <1>2
  <2>2. PICK m \in NodesOf(tree) : \E j \in DOMAIN tree.subs[m] : Helper(m, j)
    BY <2>1
    DEF Next, Run, NodesOf, vars, EndRun, Terminate, Event, Body, StartTask, NextStatement, ReturnTask,
        Propagate, Retry, Waited, ReturnIo, Leaf, SuspendLeaf, EndLeaf, Combinator, StartCombinator,
        ResumeNext, ReturnEmpty, EndCombinator, Entered, Resumed, Subs
  <2>3. \A j \in DOMAIN tree.subs[m] : Helper(m, j) => running = <<m, j>>
    BY <2>2, HelperRuns
  <2> QED
    BY <2>2, <2>3
<1>4. EndAllHelper(n, i) /\ LastOfAll(n)
  <2>1. ~EndAnyHelper(n, i)
    BY DEF EndAnyHelper, Kind
  <2>2. ~StartHelper(n, i)
    <3>1. SUFFICES ASSUME StartHelper(n, i) PROVE FALSE
      OBVIOUS
    <3>2. state'[<<n, i>>] = "suspended"
      BY <1>1, <1>2, <3>1 DEF StartHelper
    <3> QED
      BY <3>2
  <2>3. ASSUME Resumed(<<n, i>>), running' = prev[<<n, i>>] PROVE FALSE
    <3>1. prev[<<n, i>>] = Nobody
      BY <2>3 DEF Resumed, AllReturn
    <3> QED
      BY <1>1, <1>2, <2>3, <3>1
  <2>4. ~FailHelper(n, i)
    BY <2>3 DEF FailHelper, Finish, FinishTo
  <2>5. EndAllHelper(n, i)
    BY <1>3, <2>1, <2>2, <2>4 DEF Helper
  <2>6. ASSUME ~LastOfAll(n) PROVE FALSE
    BY <2>3, <2>5, <2>6 DEF EndAllHelper, FinishTo
  <2> QED
    BY <2>5, <2>6
<1>5. tree' = tree /\ count'[n] = Len(tree.subs[n])
  BY <1>2, <1>4, InvFacts DEF EndAllHelper, LastOfAll, Subs
<1>6. Len(tree.subs[n]) <= Cardinality(Ended(tree, state', n))
  <2>1. CountsEnded(tree', state', count')
    BY DEF Inv, CombinatorInv
  <2> QED
    BY <1>5, <2>1 DEF CountsEnded
<1>7. Ended(tree, state', n) = DOMAIN tree.subs[n]
  BY <1>1, <1>6, AllHaveEnded
<1> QED
  BY ONLY <1>7 DEF Ended

(* The awaiter of a when_all is resumed by the end of the last helper and  *)
(* by no other: complete_count is compared with the number of helpers by   *)
(* each that ends, and those that are not the last return to the loop that *)
(* resumed them or to the event loop. It holds of every tree.              *)
THEOREM LastEnds == Spec => LastEndResumes
<1>1. Init => Inv /\ AllReturn(tree, state, prev)
  <2> SUFFICES ASSUME Init PROVE AllReturn(tree, state, prev)
    BY InitInv
  <2>1. tree \in Trees /\ \A f \in FramesOfTree(tree) : prev[f] = Nobody
    BY DEF Init
  <2> QED
    BY <2>1, NotAFrame DEF AllReturn
<1>2. Inv /\ AllReturn(tree, state, prev) /\ [Next]_vars
        => Inv' /\ AllReturn(tree, state, prev)'
  BY NextInv, ReturnsNext
<1>3. Inv /\ Inv' /\ AllReturn(tree, state, prev) /\ [Next]_vars
        => \A n \in DOMAIN tree.kind : \A h \in Helpers(n) :
             Kind(n) = "all" /\ running = h /\ state'[h] = "done" /\ running' = Frame(n)
               => \A g \in Helpers(n) : state'[g] \in {"done", "freed"}
  BY LastEnd DEF Helpers, Subs, Kind, Combs, NodesOf, Combinators
<1> QED
  BY <1>1, <1>2, <1>3, PTL DEF Spec, LastEndResumes
=============================================================================
