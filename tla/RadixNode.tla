----------------------------- MODULE RadixNode -----------------------------
(***************************************************************************)
(* utils/adaptive_radix_tree.hpp: the four layouts of a node's children.   *)
(* A node is a value; the arrays keys_ and childs_ are kept as the layout  *)
(* lays them out, because what a map from bytes to children would hide is  *)
(* what can go wrong: sorted insertion, slots that are reused, and the     *)
(* conversions between layouts.                                            *)
(*                                                                         *)
(*   Node4, Node16  keys: sorted sequence of bytes, childs: same order     *)
(*   Node48         keys: byte -> slot, childs: slots, Null when free      *)
(*   Node256        childs: byte -> child; keys unused                     *)
(***************************************************************************)
EXTENDS Integers, Sequences, FiniteSets

Seqs == INSTANCE SequencesExt
Set == INSTANCE FiniteSetsExt

CONSTANTS
  Null,   \* nullptr
  SIZE4, SIZE16, SIZE48   \* capacities (4, 16 and 48 in the code)

ASSUME SizeAssumption ==
  SIZE4 \in Nat /\ SIZE16 \in Nat /\ SIZE48 \in Nat
  /\ 2 <= SIZE4 /\ SIZE4 < SIZE16 /\ SIZE16 < SIZE48 /\ SIZE48 < 256

MaxChilds == 256

Capacity(kind) == CASE kind = "Node4"  -> SIZE4
                    [] kind = "Node16" -> SIZE16
                    [] kind = "Node48" -> SIZE48
                    [] OTHER           -> MaxChilds

IsSorted4(n) == n.kind \in {"Node4", "Node16"}

(* A node without children, and node n without its children and leaf, as   *)
(* move() leaves it. *)
EmptyChilds(kind) == IF kind = "Node48" THEN [i \in 1 .. SIZE48 |-> Null] ELSE <<>>

NewNode(kind, prefix) ==
  [kind |-> kind, prefix |-> prefix, leaf |-> Null, size |-> 0,
   keys |-> <<>>, childs |-> EmptyChilds(kind)]

IsFull(n) == n.size = Capacity(n.kind)

ShouldShrink(n) == CASE n.kind = "Node4"  -> FALSE
                     [] n.kind = "Node16" -> n.size <= SIZE4
                     [] n.kind = "Node48" -> n.size <= SIZE16
                     [] OTHER             -> n.size <= SIZE48

-----------------------------------------------------------------------------
(* find, insert, remove, and the child next to a byte *)

Bytes(n) == CASE IsSorted4(n)       -> Seqs!ToSet(n.keys)
              [] n.kind = "Node48"  -> DOMAIN n.keys
              [] OTHER              -> DOMAIN n.childs

(* std::lower_bound in keys_, as an index from 1 *)
LowerBound(keys, b) == 1 + Cardinality({i \in DOMAIN keys : keys[i] < b})

(* Where the child of byte b of Bytes(n) is in childs_. *)
Position(n, b) == CASE IsSorted4(n)      -> LowerBound(n.keys, b)
                    [] n.kind = "Node48" -> n.keys[b]
                    [] OTHER             -> b

Find(n, b) == IF b \in Bytes(n) THEN n.childs[Position(n, b)] ELSE Null

(* The child of byte b replaced through the pointer find() returned *)
SetChild(n, b, child) == [n EXCEPT !.childs[Position(n, b)] = child]

With(f, x, v) == [y \in DOMAIN f \cup {x} |-> IF y = x THEN v ELSE f[y]]
Minus(f, x) == [y \in DOMAIN f \ {x} |-> f[y]]

SlotAfterLast(n) == n.size  \* mutant
FreeSlot(n) == Set!Min({i \in 1 .. SIZE48 : n.childs[i] = Null})

(* insert() of a byte that has no child, in a node that is not full: into  *)
(* the sorted arrays, into the first free slot, or at the byte's place.    *)
InsertSorted(n, b, child) ==
  LET i == LowerBound(n.keys, b)
  IN  [n EXCEPT !.keys = Seqs!InsertAt(@, i, b), !.childs = Seqs!InsertAt(@, i, child)]

InsertSlotted(n, b, child) ==
  LET i == FreeSlot(n)
  IN  [n EXCEPT !.keys = With(@, b, i), !.childs = [@ EXCEPT ![i] = child]]

InsertDirect(n, b, child) == [n EXCEPT !.childs = With(@, b, child)]

InsertChild(n, b, child) ==
  LET m == [n EXCEPT !.size = @ + 1]
  IN  CASE IsSorted4(n)      -> InsertSorted(m, b, child)
        [] n.kind = "Node48" -> InsertSlotted(m, b, child)
        [] OTHER             -> InsertDirect(m, b, child)

(* remove() of a byte that has a child *)
RemoveSorted(n, b) ==
  LET i == LowerBound(n.keys, b)
  IN  [n EXCEPT !.keys = Seqs!RemoveAt(@, i), !.childs = Seqs!RemoveAt(@, i)]

RemoveSlotted(n, b) ==
  [n EXCEPT !.keys = Minus(@, b), !.childs = [@ EXCEPT ![n.keys[b]] = Null]]

RemoveDirect(n, b) == [n EXCEPT !.childs = Minus(@, b)]

RemoveChild(n, b) ==
  LET m == [n EXCEPT !.size = @ - 1]
  IN  CASE IsSorted4(n)      -> RemoveSorted(m, b)
        [] n.kind = "Node48" -> RemoveSlotted(m, b)
        [] OTHER             -> RemoveDirect(m, b)

(* next_or_equal_key(): the pair of the next child and its byte, or Null.  *)
Pair(n, b) == [child |-> n.childs[Position(n, b)], key |-> b]

(* The sorted arrays have it at the place of std::lower_bound.             *)
NextSorted(n, key) ==
  LET i == LowerBound(n.keys, key)
  IN  IF i > n.size THEN Null ELSE [child |-> n.childs[i], key |-> n.keys[i]]

(* The loop of the other layouts: from key on, where does it stop?         *)
ScanEnd(n) ==
  LET stop[key \in 0 .. MaxChilds] ==
        IF key < MaxChilds /\ key \notin Bytes(n) THEN stop[key + 1] ELSE key
  IN  stop

(* A key beyond MaxChilds, which only a byte from 128 on gives the         *)
(* iterator, is read outside the arrays; Null is the mildest outcome.      *)
NextScanned(n, key) ==
  IF key > MaxChilds \/ ScanEnd(n)[key] = MaxChilds THEN Null
  ELSE Pair(n, ScanEnd(n)[key])

NextOrEqual(n, key) == IF IsSorted4(n) THEN NextSorted(n, key) ELSE NextScanned(n, key)

FirstKey(n) == IF ~IsSorted4(n) THEN NextOrEqual(n, 0)
               ELSE IF n.size = 0 THEN Null
               ELSE [child |-> n.childs[1], key |-> n.keys[1]]

-----------------------------------------------------------------------------
(* grow() and shrink(): the constructors that convert a layout *)

SortedBytes(n) ==
  [i \in 1 .. n.size |->
     CHOOSE b \in Bytes(n) : Cardinality({c \in Bytes(n) : c < b}) = i - 1]

ToSorted(n, kind) ==
  LET keys == SortedBytes(n)
  IN  [n EXCEPT !.kind = kind, !.keys = keys,
                !.childs = [i \in DOMAIN keys |-> Find(n, keys[i])]]

(* 16 -> 48: child i of the sorted array goes to slot i *)
To48(n) ==
  [n EXCEPT !.kind = "Node48",
            !.keys = [b \in Bytes(n) |-> LowerBound(n.keys, b)],
            !.childs = [i \in 1 .. SIZE48 |-> IF i <= n.size THEN n.childs[i] ELSE Null]]

To256(n) == [n EXCEPT !.kind = "Node256", !.keys = <<>>,
                      !.childs = [b \in Bytes(n) |-> Find(n, b)]]

Grow(n) == CASE n.kind = "Node4"  -> ToSorted(n, "Node16")
             [] n.kind = "Node16" -> To48(n)
             [] OTHER             -> To256(n)

GrowIfFull(n) == IF IsFull(n) THEN Grow(n) ELSE n

(* Node256::shrink() stays a Node256. *)
Shrink(n) == CASE n.kind = "Node16" -> ToSorted(n, "Node4")
               [] n.kind = "Node48" -> ToSorted(n, "Node16")
               [] OTHER             -> n

-----------------------------------------------------------------------------
(* The layout's own invariant: what find() and the destructors rely on.    *)
(* The children of node n are members of C, in its layout.                 *)
Byte == 0 .. MaxChilds - 1
Kinds == {"Node4", "Node16", "Node48", "Node256"}
Childs(n) == {Find(n, b) : b \in Bytes(n)}

SortedLayout(n, C) ==
  /\ n.keys \in Seq(Byte) /\ n.childs \in Seq(C)
  /\ Len(n.keys) = n.size /\ Len(n.childs) = n.size
  /\ \A i, j \in 1 .. n.size : i < j => n.keys[i] < n.keys[j]

SlottedLayout(n, C) ==
  /\ n.keys \in [Bytes(n) -> 1 .. SIZE48] /\ n.childs \in [1 .. SIZE48 -> C \cup {Null}]
  /\ \A b, c \in Bytes(n) : n.keys[b] = n.keys[c] => b = c
  /\ {i \in 1 .. SIZE48 : n.childs[i] # Null} = {n.keys[b] : b \in Bytes(n)}

DirectLayout(n, C) == n.childs \in [Bytes(n) -> C]

LayoutIn(n, C) ==
  /\ n = [kind |-> n.kind, prefix |-> n.prefix, leaf |-> n.leaf, size |-> n.size,
          keys |-> n.keys, childs |-> n.childs]
  /\ n.kind \in Kinds /\ Bytes(n) \subseteq Byte /\ Null \notin C
  /\ n.size = Cardinality(Bytes(n)) /\ n.size <= Capacity(n.kind)
  /\ CASE IsSorted4(n)     -> SortedLayout(n, C)
       [] n.kind = "Node48" -> SlottedLayout(n, C)
       [] OTHER             -> DirectLayout(n, C)

LayoutOK(n) == LayoutIn(n, Childs(n))
=============================================================================
