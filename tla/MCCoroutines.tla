--------------------------- MODULE MCCoroutines ---------------------------
(* Programs for Coroutines: expressions, laid out as trees.                *)
EXTENDS Coroutines

CONSTANT noop

Expr(k, s) == [k |-> k, s |-> s, param |-> FALSE]
Param(e) == [e EXCEPT !.param = TRUE]
T == Expr("timer", <<>>)
E == Expr("event", <<>>)
N == Expr("now", <<>>)
F == Expr("fail", <<>>)
Any(s) == Expr("any", s)
All(s) == Expr("all", s)
Do(s) == Expr("task", s)
Read == Expr("io", <<Any(<<E, T>>)>>)
Write == Expr("io", <<E>>)

(* The nodes of an expression, which is statement s of owner o; a node is  *)
(* its path from the root.                                                 *)
RECURSIVE NodesOf(_, _, _, _)
NodesOf(e, path, o, s) ==
  {[n |-> path, k |-> e.k, subs |-> [i \in DOMAIN e.s |-> Append(path, i)], o |-> o, s |-> IF e.param THEN 0 ELSE s]}
  \cup UNION {IF e.k \in Combinators THEN NodesOf(e.s[i], Append(path, i), o, s)
              ELSE NodesOf(e.s[i], Append(path, i), path, i) : i \in DOMAIN e.s}

RECURSIVE Inside(_, _)
Inside(N0, x) ==
  {x.n} \cup UNION {Inside(N0, y) : y \in {z \in N0 : z.n # <<>> /\ z.o = x.n}}

TreeOf(e) ==
  LET N0 == NodesOf(Expr("run", <<e>>), <<>>, <<>>, 0)
      At(p) == CHOOSE x \in N0 : x.n = p
      Ids == {x.n : x \in N0}
  IN  [kind |-> [p \in Ids |-> At(p).k],
       subs |-> [p \in Ids |-> At(p).subs],
       owner |-> [p \in Ids |-> At(p).o],
       stmt |-> [p \in Ids |-> At(p).s],
       above |-> [p \in Ids |-> {SubSeq(p, 1, k) : k \in 0 .. Len(p) - 1}],
       inside |-> [p \in Ids |-> Inside(N0, At(p))]]

Expressions ==
  {T, Read, Write, Do(<<N>>),
   Any(<<>>), Any(<<T>>), Any(<<T, E>>), Any(<<E, N>>), Any(<<T, E, T>>),
   All(<<T>>), All(<<T, T>>), All(<<N, T>>), All(<<T, N>>), All(<<N, N>>), All(<<T, N, T>>),
   Any(<<F, T>>), Any(<<Do(<<F>>), Read>>),
   Any(<<Read, T>>), Any(<<Do(<<T, T>>), Read>>), All(<<Read, Write>>),
   Any(<<Any(<<T, E>>), T>>), Any(<<T, Any(<<T, N>>)>>), Any(<<All(<<T, T>>), T>>),
   All(<<All(<<T, T>>), T>>), All(<<Do(<<Any(<<T, E>>)>>), T>>),
   Any(<<All(<<Read, T>>), Do(<<All(<<T, T>>)>>)>>)}

(* Programs that keep the rules of SafeTree and AllSucceed, and some that  *)
(* do not keep those of SafeTree.                                          *)
SafeTrees ==
  {TreeOf(Do(<<e>>)) : e \in {F, Any(<<F>>)}} \cup
  {TreeOf(Do(<<e, Any(<<E, T>>)>>)) : e \in Expressions} \cup
  {TreeOf(e) : e \in
     {Do(<<Do(<<T, F>>), T>>), Do(<<F, All(<<Param(T), Param(Read)>>)>>),
      Do(<<T, All(<<Param(T), Param(Read), Param(T)>>)>>)}}

OtherTrees ==
  {TreeOf(e) : e \in
     {Do(<<Any(<<Param(T), Param(Do(<<T, Read>>)), Param(N)>>)>>),
      Do(<<Any(<<Do(<<T, Any(<<Param(T), Param(Read)>>)>>), Read>>), T>>)}}

ASSUME CoveredPrograms ==
  /\ \A t \in SafeTrees : SafeTree(t) /\ AllSucceed(t)
  /\ \A t \in OtherTrees : ~ SafeTree(t)

MCTrees == SafeTrees \cup OtherTrees

MCRoot == <<>>
=============================================================================
