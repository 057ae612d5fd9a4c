------------------------- MODULE AdaptiveRadixTree -------------------------
(***************************************************************************)
(* utils/adaptive_radix_tree.hpp: insert, search, remove and the iterator  *)
(* of the tree, over the nodes of RadixNode. A key is a sequence of bytes. *)
(* The tree is one value, so the node that the code stores through a       *)
(* pointer to a child is the node that an operation returns for its place. *)
(***************************************************************************)
EXTENDS RadixNode

CONSTANTS
  Entries, \* the pairs <<key, value>> the application inserts
  Fuel     \* bound on the steps of one iteration (it may not end)

VARIABLE root

Keys == {e[1] : e \in Entries}

Drop(s, m) == SubSeq(s, m + 1, Len(s))
Take(s, m) == SubSeq(s, 1, m)

(* Node::match: the length of the common prefix *)
Match(n, key) ==
  Cardinality({i \in 1 .. Set!Min({Len(n.prefix), Len(key)}) :
                 Take(n.prefix, i) = Take(key, i)})

-----------------------------------------------------------------------------
(* insert *)

(* A node whose prefix ends after m bytes takes the rest of itself as its  *)
(* only child; both keep the layout of the node that was split.            *)
Split(n, m) ==
  InsertChild(NewNode(n.kind, Take(n.prefix, m)), n.prefix[m + 1],
              [n EXCEPT !.prefix = Drop(@, m)])

SetLeaf(n, key, v) ==
  [n EXCEPT !.leaf = IF @ = Null THEN [key |-> key, value |-> v]
                     ELSE [@ EXCEPT !.value = v]]

RECURSIVE InsertIn(_, _, _, _)
InsertIn(n, rest, key, v) ==
  LET m == Match(n, rest)
      r == Drop(rest, m)
      s == IF m < Len(n.prefix) THEN Split(n, m) ELSE n
      t == IF r # <<>> /\ Find(s, r[1]) = Null
           THEN InsertChild(GrowIfFull(s), r[1], NewNode("Node4", r))
           ELSE s
  IN  IF r = <<>> THEN SetLeaf(s, key, v)
      ELSE SetChild(t, r[1], InsertIn(Find(t, r[1]), r, key, v))

-----------------------------------------------------------------------------
(* search: the value, or Null *)

EndsInPrefixNever(n, rest) == FALSE  \* mutant
EndsInPrefix(n, rest) == rest # <<>> /\ Match(n, rest) < Len(n.prefix)

RECURSIVE SearchIn(_, _)
SearchIn(n, rest) ==
  LET r == Drop(rest, Match(n, rest))
  IN  IF EndsInPrefix(n, rest) THEN Null
      ELSE IF r = <<>> THEN IF n.leaf = Null THEN Null ELSE n.leaf.value
      ELSE IF Find(n, r[1]) = Null THEN Null
      ELSE SearchIn(Find(n, r[1]), r)

-----------------------------------------------------------------------------
(* remove: [ok, node, gone, merging] says whether the key was there, what  *)
(* takes the node's place (unless it is gone), and whether the last loop   *)
(* of remove() goes on with the parent.                                    *)

Missing == [ok |-> FALSE]

(* One turn of that loop: a node without leaf and with a single child is   *)
(* merged with the child; the loop stops at the root, a leaf or a branch.  *)
StopsLeaf(n, isRoot) == n.size > 1 \/ isRoot  \* mutant
StopsAtChild(n, isRoot) == n.size > 0 \/ isRoot \/ n.leaf # Null  \* mutant
Stops(n, isRoot) == n.size > 1 \/ isRoot \/ n.leaf # Null

Merge(n, isRoot) ==
  [ok |-> TRUE, gone |-> FALSE, merging |-> ~Stops(n, isRoot),
   node |-> IF Stops(n, isRoot) \/ n.size = 0 THEN n
            ELSE LET next == FirstKey(n).child
                 IN  [next EXCEPT !.prefix = n.prefix \o @]]

RemoveLeaf(n, isRoot) ==
  IF n.leaf = Null THEN Missing
  ELSE IF n.size = 0 THEN [ok |-> TRUE, gone |-> TRUE]
  ELSE Merge([n EXCEPT !.leaf = Null], isRoot)

RECURSIVE RemoveIn(_, _, _)
RemoveIn(n, rest, isRoot) ==
  LET m == Match(n, rest)
      r == Drop(rest, m)
      sub == RemoveIn(Find(n, r[1]), r, FALSE)
      without == RemoveChild(n, r[1])
      with == SetChild(n, r[1], sub.node)
  IN  IF m < Len(n.prefix) THEN Missing
      ELSE IF r = <<>> THEN RemoveLeaf(n, isRoot)
      ELSE IF Find(n, r[1]) = Null THEN Missing
      ELSE IF ~sub.ok THEN Missing
      ELSE IF sub.gone
           THEN Merge(IF ShouldShrink(without) THEN Shrink(without) ELSE without, isRoot)
      ELSE IF sub.merging THEN Merge(with, isRoot)
      ELSE [ok |-> TRUE, gone |-> FALSE, merging |-> FALSE, node |-> with]

-----------------------------------------------------------------------------
(* The iterator: a stack of nodes, its top the node of the current leaf.   *)

(* next_leaf: push children, from start_key on, until one has a leaf. *)
RECURSIVE NextLeaf(_, _)
NextLeaf(stack, start_key) ==
  LET top == Seqs!Last(stack)
      next == NextOrEqual(top, start_key)
      pushed == Append(stack, next.child)
  IN  IF next = Null THEN stack
      ELSE IF Seqs!Last(pushed).leaf # Null THEN pushed
      ELSE NextLeaf(pushed, 0)

(* static_cast<uint16_t>(prefix_.front()) + 1 in a uint16_t: a byte from   *)
(* 128 on is a negative char.                                              *)
StartAfterSame(b) == b  \* mutant
StartAfter(b) == (IF b < 128 THEN b + 1 ELSE b - 256 + 1) % 65536

RECURSIVE Advance(_, _)
Advance(stack, start_key) ==
  IF stack = <<>> THEN <<>>
  ELSE LET s == NextLeaf(stack, start_key)
           top == Seqs!Last(s)
       IN  IF s # stack THEN s
           ELSE Advance(Seqs!Front(s), IF top.prefix # <<>> THEN StartAfter(top.prefix[1])
                                  ELSE start_key)

RECURSIVE KeysFrom(_, _)
KeysFrom(stack, fuel) ==
  IF stack = <<>> \/ fuel = 0 THEN <<>>
  ELSE <<Seqs!Last(stack).leaf.key>> \o KeysFrom(Advance(stack, 0), fuel - 1)

(* The keys of a loop from begin() to end(). *)
Iterate == LET first == NextLeaf(<<root>>, 0)
           IN  KeysFrom(IF Len(first) = 1 THEN <<>> ELSE first, Fuel)

-----------------------------------------------------------------------------
Init == root = NewNode("Node4", <<>>)

Insert(k, v) == root' = InsertIn(root, k, k, v)

(* remove("") of a present key has no defined outcome: it asserts, and     *)
(* reads an empty stack in a build without assertions. That the caller     *)
(* does not is a precondition.                                             *)
Removed(k) == LET r == RemoveIn(root, k, TRUE)
              IN  IF r.ok THEN r.node ELSE root

Remove(k) == (k # <<>> \/ root.leaf = Null) /\ root' = Removed(k)

Next == (\E e \in Entries : Insert(e[1], e[2])) \/ (\E k \in Keys : Remove(k))

Spec == Init /\ [][Next]_root
-----------------------------------------------------------------------------
(* Every node keeps its layout's invariant, a child is filed under the     *)
(* first byte of its prefix, only the root's prefix is empty, and a leaf   *)
(* holds the key that the way to it spells.                                *)
RECURSIVE WellFormed(_, _)
WellFormed(n, above) ==
  LET path == above \o n.prefix IN
  /\ LayoutOK(n)
  /\ n.leaf # Null => n.leaf.key = path
  /\ \A b \in Bytes(n) :
       LET child == Find(n, b)
       IN  child.prefix[1] = b /\ WellFormed(child, path)

TypeOK == root.prefix = <<>> /\ WellFormed(root, <<>>)

(* The tree stays path compressed: every node but the root has a leaf or   *)
(* two children, so that remove() leaves no dead end behind and next_leaf  *)
(* always ends at a leaf.                                                  *)
RECURSIVE CompressedFrom(_)
CompressedFrom(n) ==
  /\ n.leaf # Null \/ n.size >= 2
  /\ \A b \in Bytes(n) : CompressedFrom(Find(n, b))

Compressed == \A b \in Bytes(root) : CompressedFrom(Find(root, b))

(* The pairs of key and value in the leaves of n. *)
RECURSIVE PairsUnder(_)
PairsUnder(n) ==
  (IF n.leaf = Null THEN {} ELSE {<<n.leaf.key, n.leaf.value>>})
  \cup UNION {PairsUnder(Find(n, b)) : b \in Bytes(n)}

Pairs == PairsUnder(root)

Map == INSTANCE OrderedMap

(* The tree is a map: whatever splits, growths, shrinks and merges earlier *)
(* operations have caused, each insertion adds or replaces its own pair,   *)
(* each removal removes its own, and all other pairs stay.                 *)
OperationsExact ==
  LET pairs == Pairs IN
  /\ \A e \in Entries :
       PairsUnder(InsertIn(root, e[1], e[1], e[2])) = Map!Put(pairs, e[1], e[2])
  /\ \A k \in Keys \ {<<>>} :
       PairsUnder(Removed(k)) = Map!Without(pairs, k)

(* search() finds exactly the keys present, with their values, and         *)
(* remove() returns true for exactly these.                                *)
LookupsAgree ==
  LET pairs == Pairs IN
  \A k \in Keys :
    /\ {SearchIn(root, k)} \ {Null} = Map!Values(pairs, k)
    /\ k # <<>> => RemoveIn(root, k, TRUE).ok = (k \in Map!Present(pairs))

(* From begin() to end() the iterator visits every key but the empty one,  *)
(* once, in the order of a std::set<std::string>.                          *)
IterationSorted == Map!Lists(Iterate, Map!Present(Pairs) \ {<<>>})
=============================================================================
