-------------------------- MODULE RadixNode_proofs --------------------------
(***************************************************************************)
(* Theorems about RadixNode for all capacities: in each of the four        *)
(* layouts insert, remove and find, and the conversions between layouts,   *)
(* are those of a map from bytes to children.                              *)
(***************************************************************************)
EXTENDS RadixNode, FiniteSetTheorems, SequenceTheorems, WellFoundedInduction, TLAPS

-----------------------------------------------------------------------------
(* Induction up to n: a set that has 0 and the successors of its elements. *)
LEMMA UpTo ==
  ASSUME NEW n \in Nat, NEW T, 0 \in T, \A m \in 1 .. n : m - 1 \in T => m \in T
  PROVE  0 .. n \subseteq T
<1> DEFINE R == {p \in Nat \X Nat : p[1] < p[2]}
           B == (0 .. n) \ T
<1>1. SUFFICES ASSUME B # {} PROVE FALSE
  OBVIOUS
<1>2. PICK m \in B : \A y \in B : ~ (<<y, m>> \in R)
  <2>1. IsWellFoundedOn(R, Nat)
    BY NatLessThanWellFounded DEF OpToRel
  <2>2. B \subseteq Nat
    OBVIOUS
  <2> HIDE DEF R, B
  <2> QED
    BY <1>1, <2>1, <2>2, WFMin
<1>3. m \in 1 .. n /\ m - 1 \in 0 .. n
  OBVIOUS
<1>4. m - 1 \in B
  BY <1>3
<1>5. <<m - 1, m>> \in R
  BY <1>3
<1> QED
  BY <1>2, <1>4, <1>5

(* A set of natural numbers that is not empty has a least element. *)
LEMMA Least ==
  ASSUME NEW S \in SUBSET Nat, S # {}
  PROVE  \E m \in S : \A y \in S : m <= y
<1> DEFINE R == {p \in Nat \X Nat : p[1] < p[2]}
<1>1. PICK m \in S : \A y \in S : ~ (<<y, m>> \in R)
  <2>1. IsWellFoundedOn(R, Nat)
    BY NatLessThanWellFounded DEF OpToRel
  <2> HIDE DEF R
  <2> QED
    BY <2>1, WFMin
<1>2. ASSUME NEW y \in S PROVE m <= y
  <2>1. m \in Nat /\ y \in Nat
    OBVIOUS
  <2>2. y < m => <<y, m>> \in R
    BY <2>1
  <2> HIDE DEF R
  <2> QED
    BY <1>1, <2>1, <2>2
<1> QED
  BY <1>2

LEMMA MinIs ==
  ASSUME NEW S \in SUBSET Nat, S # {}
  PROVE  Set!Min(S) \in S /\ \A y \in S : Set!Min(S) <= y
<1>1. \E m \in S : \A y \in S : m <= y
  BY Least
<1> QED
  BY <1>1 DEF Set!Min

-----------------------------------------------------------------------------
(* Sets of bytes are finite. *)
LEMMA BytesFinite ==
  ASSUME NEW B \in SUBSET Byte
  PROVE  /\ IsFiniteSet(B) /\ Cardinality(B) \in 0 .. MaxChilds
         /\ B # Byte => Cardinality(B) < MaxChilds
<1>1. IsFiniteSet(Byte) /\ Cardinality(Byte) = MaxChilds
  <2>1. PICK m \in Nat : m + 1 = MaxChilds
    BY DEF MaxChilds
  <2>2. Byte = 0 .. m
    BY <2>1 DEF Byte
  <2> QED
    BY <2>1, <2>2, FS_Interval
<1>2. IsFiniteSet(B) /\ Cardinality(B) <= Cardinality(Byte)
      /\ (Cardinality(Byte) = Cardinality(B) => Byte = B)
  BY <1>1, FS_Subset
<1>3. Cardinality(B) \in Nat
  BY <1>2, FS_CardinalityType
<1> QED
  BY <1>1, <1>2, <1>3 DEF MaxChilds

-----------------------------------------------------------------------------
(* Insertion into a sequence and removal from one *)
LEMMA InsertAtIs ==
  ASSUME NEW S, NEW s \in Seq(S), NEW e \in S, NEW i \in 1 .. Len(s) + 1
  PROVE  LET t == Seqs!InsertAt(s, i, e) IN
         /\ t \in Seq(S) /\ Len(t) = Len(s) + 1
         /\ \A j \in 1 .. Len(s) + 1 : t[j] = IF j < i THEN s[j] ELSE IF j = i THEN e ELSE s[j - 1]
<1> DEFINE L == Len(s)
           a == SubSeq(s, 1, i - 1)
           c == SubSeq(s, i, L)
           u == a \o <<e>>
           t == u \o c
<1>1. Seqs!InsertAt(s, i, e) = t
  BY DEF Seqs!InsertAt
<1>2. L \in Nat /\ i \in 1 .. L + 1
  OBVIOUS
<1>3. a \in Seq(S) /\ Len(a) = i - 1 /\ \A j \in 1 .. i - 1 : a[j] = s[j]
  BY <1>2
<1>4. c \in Seq(S) /\ Len(c) = L - i + 1 /\ \A j \in 1 .. L - i + 1 : c[j] = s[i + j - 1]
  BY <1>2
<1>5. u \in Seq(S) /\ Len(u) = i /\ (\A j \in 1 .. i - 1 : u[j] = s[j]) /\ u[i] = e
  <2> HIDE DEF a
  <2> QED
    BY <1>2, <1>3
<1>6. t \in Seq(S) /\ Len(t) = L + 1
      /\ \A j \in 1 .. L + 1 : t[j] = IF j <= i THEN u[j] ELSE c[j - i]
  <2> HIDE DEF u, c
  <2> QED
    BY <1>2, <1>4, <1>5
<1> HIDE DEF a, c, u, t
<1>7. ASSUME NEW j \in 1 .. L + 1
      PROVE  t[j] = IF j < i THEN s[j] ELSE IF j = i THEN e ELSE s[j - 1]
  <2>1. CASE j < i
    BY <1>2, <1>5, <1>6, <2>1
  <2>2. CASE j = i
    BY <1>2, <1>5, <1>6, <2>2
  <2>3. CASE j > i
    <3>1. j - i \in 1 .. L - i + 1 /\ i + (j - i) - 1 = j - 1 /\ ~(j <= i)
      BY <1>2, <2>3
    <3>2. c[j - i] = s[j - 1]
      BY <1>4, <3>1
    <3> QED
      BY <1>2, <1>6, <2>3, <3>1, <3>2
  <2> QED
    BY <1>2, <2>1, <2>2, <2>3
<1> QED
  BY <1>1, <1>6, <1>7

LEMMA RemoveAtIs ==
  ASSUME NEW S, NEW s \in Seq(S), NEW i \in 1 .. Len(s)
  PROVE  LET t == Seqs!RemoveAt(s, i) IN
         /\ t \in Seq(S) /\ Len(t) = Len(s) - 1
         /\ \A j \in 1 .. Len(s) - 1 : t[j] = IF j < i THEN s[j] ELSE s[j + 1]
<1> DEFINE L == Len(s)
           a == SubSeq(s, 1, i - 1)
           c == SubSeq(s, i + 1, L)
           t == a \o c
<1>1. Seqs!RemoveAt(s, i) = t
  BY DEF Seqs!RemoveAt
<1>2. L \in Nat /\ i \in 1 .. L
  OBVIOUS
<1>3. a \in Seq(S) /\ Len(a) = i - 1 /\ \A j \in 1 .. i - 1 : a[j] = s[j]
  BY <1>2
<1>4. c \in Seq(S) /\ Len(c) = L - i /\ \A j \in 1 .. L - i : c[j] = s[i + j]
  BY <1>2
<1>5. t \in Seq(S) /\ Len(t) = L - 1
      /\ \A j \in 1 .. L - 1 : t[j] = IF j <= i - 1 THEN a[j] ELSE c[j - (i - 1)]
  <2> HIDE DEF a, c
  <2>1. /\ t \in Seq(S) /\ Len(t) = Len(a) + Len(c)
        /\ \A j \in 1 .. Len(a) + Len(c) : t[j] = IF j <= Len(a) THEN a[j] ELSE c[j - Len(a)]
    BY <1>3, <1>4, ConcatProperties
  <2>2. Len(a) + Len(c) = L - 1
    BY <1>2, <1>3, <1>4
  <2> HIDE DEF t
  <2> QED
    BY <1>3, <2>1, <2>2
<1> HIDE DEF a, c, t
<1>6. ASSUME NEW j \in 1 .. L - 1
      PROVE  t[j] = IF j < i THEN s[j] ELSE s[j + 1]
  <2>1. CASE j < i
    BY <1>2, <1>3, <1>5, <2>1
  <2>2. CASE j >= i
    <3>1. j - (i - 1) \in 1 .. L - i /\ i + (j - (i - 1)) = j + 1 /\ ~(j <= i - 1)
      BY <1>2, <2>2
    <3>2. c[j - (i - 1)] = s[j + 1]
      BY <1>4, <3>1
    <3> QED
      BY <1>2, <1>5, <2>2, <3>1, <3>2
  <2> QED
    BY <1>2, <2>1, <2>2
<1> QED
  BY <1>1, <1>5, <1>6

-----------------------------------------------------------------------------
(* Sorted sequences of bytes *)
Sorted(keys) == \A i, j \in 1 .. Len(keys) : i < j => keys[i] < keys[j]

LEMMA KeysType ==
  ASSUME NEW keys \in Seq(Byte)
  PROVE  /\ Len(keys) \in Nat /\ Byte \subseteq Int
         /\ \A i \in 1 .. Len(keys) : keys[i] \in Byte /\ keys[i] \in Int
<1>1. Byte \subseteq Int
  BY DEF Byte, MaxChilds
<1>2. \A i \in 1 .. Len(keys) : keys[i] \in Byte
  BY ElementOfSeq
<1>3. Len(keys) \in Nat
  BY LenProperties
<1> QED
  BY <1>1, <1>2, <1>3

LEMMA LowerBoundIs ==
  ASSUME NEW keys \in Seq(Byte), Sorted(keys), NEW b \in Int
  PROVE  /\ LowerBound(keys, b) \in 1 .. Len(keys) + 1
         /\ \A i \in 1 .. Len(keys) : keys[i] < b <=> i < LowerBound(keys, b)
<1> DEFINE L == Len(keys)
           T == {m \in 0 .. L : \A i \in 1 .. m : keys[i] < b}
           Split(p) == \A i \in 1 .. L : keys[i] < b <=> i <= p
<1>1. L \in Nat /\ b \in Int /\ \A i \in 1 .. L : keys[i] \in Int
  BY KeysType
<1>2. \E p \in 0 .. L : Split(p)
  <2>1. SUFFICES ASSUME \A p \in 0 .. L : ~Split(p) PROVE FALSE
    OBVIOUS
  <2>2. 0 \in T
    BY <1>1
  <2>3. ASSUME NEW m \in 1 .. L, m - 1 \in T PROVE m \in T
    <3>1. \A i \in 1 .. m - 1 : keys[i] < b
      BY <2>3
    <3>2. PICK i \in 1 .. L : ~(keys[i] < b <=> i <= m - 1)
      <4>1. m - 1 \in 0 .. L
        BY <1>1
      <4>2. ~Split(m - 1)
        BY <2>1, <4>1
      <4> QED
        BY <4>2
    <3>3. i >= m /\ keys[i] < b
      BY <1>1, <3>1, <3>2
    <3>4. keys[m] < b
      <4>1. CASE i = m
        BY <3>3, <4>1
      <4>2. CASE i > m
        <5>1. keys[m] < keys[i]
          BY <4>2 DEF Sorted
        <5> QED
          BY <1>1, <3>3, <5>1
      <4> QED
        BY <1>1, <3>3, <4>1, <4>2
    <3>5. \A k \in 1 .. m : k = m \/ k \in 1 .. m - 1
      BY <1>1
    <3> QED
      BY <1>1, <3>1, <3>4, <3>5
  <2>4. 0 .. L \subseteq T
    <3> HIDE DEF T, L
    <3> QED
      BY <1>1, <2>2, <2>3, UpTo
  <2>5. Split(L)
    BY <1>1, <2>4
  <2>6. L \in 0 .. L
    BY <1>1
  <2> HIDE DEF L, Split
  <2> QED
    BY <2>1, <2>5, <2>6
<1>3. PICK p \in 0 .. L : Split(p)
  BY <1>2
<1>4. {i \in DOMAIN keys : keys[i] < b} = 1 .. p
  BY <1>1, <1>3
<1>5. Cardinality(1 .. p) = p
  BY <1>1, FS_Interval
<1>6. LowerBound(keys, b) = 1 + p
  BY <1>4, <1>5 DEF LowerBound
<1> QED
  BY <1>1, <1>3, <1>6

(* The position of a byte that is there, and where the others are. *)
LEMMA LowerBoundAt ==
  ASSUME NEW keys \in Seq(Byte), Sorted(keys), NEW i \in 1 .. Len(keys)
  PROVE  LowerBound(keys, keys[i]) = i
<1> DEFINE L == Len(keys)
           p == LowerBound(keys, keys[i])
<1>1. L \in Nat /\ keys[i] \in Byte /\ \A j \in 1 .. L : keys[j] \in Int
  BY KeysType
<1>2. p \in 1 .. L + 1 /\ \A j \in 1 .. L : keys[j] < keys[i] <=> j < p
  BY <1>1, LowerBoundIs
<1>3. ~(i < p)
  BY <1>1, <1>2
<1>4. ~(p < i)
  <2>1. SUFFICES ASSUME p < i PROVE FALSE
    OBVIOUS
  <2>2. p \in 1 .. L /\ keys[p] < keys[i]
    BY <1>1, <1>2, <2>1 DEF Sorted
  <2> QED
    BY <1>1, <1>2, <2>2
<1> QED
  BY <1>1, <1>2, <1>3, <1>4

LEMMA SortedInjective ==
  ASSUME NEW keys \in Seq(Byte), Sorted(keys),
         NEW i \in 1 .. Len(keys), NEW j \in 1 .. Len(keys), keys[i] = keys[j]
  PROVE  i = j
BY LowerBoundAt

LEMMA SortedCardinality ==
  ASSUME NEW keys \in Seq(Byte), Sorted(keys)
  PROVE  /\ Seqs!ToSet(keys) = {keys[i] : i \in 1 .. Len(keys)}
         /\ Seqs!ToSet(keys) \subseteq Byte
         /\ Cardinality(Seqs!ToSet(keys)) = Len(keys)
<1> DEFINE L == Len(keys)
           S == Seqs!ToSet(keys)
<1>1. S = {keys[i] : i \in 1 .. L} /\ S \subseteq Byte /\ L \in Nat
  BY DEF Seqs!ToSet
<1>2. keys \in Bijection(1 .. L, S)
  <2>1. keys \in [1 .. L -> S]
    BY <1>1
  <2>2. \A i, j \in 1 .. L : keys[i] = keys[j] => i = j
    BY SortedInjective
  <2>3. \A x \in S : \E i \in 1 .. L : keys[i] = x
    BY <1>1
  <2> HIDE DEF S, L
  <2> QED
    BY <2>1, <2>2, <2>3 DEF Bijection, Injection, Surjection, IsInjective
<1>3. ExistsBijection(1 .. L, S)
  BY <1>2 DEF ExistsBijection
<1>4. Cardinality(S) = L
  BY <1>1, <1>3, FS_CountingElements
<1> QED
  BY <1>1, <1>4

-----------------------------------------------------------------------------
(* The children of a node as a function, whatever its layout *)
Children(n) == [b \in Bytes(n) |-> Find(n, b)]

IsRecord(n) == n = [kind |-> n.kind, prefix |-> n.prefix, leaf |-> n.leaf, size |-> n.size,
                    keys |-> n.keys, childs |-> n.childs]

LEMMA KindCases ==
  ASSUME NEW n, n.kind \in Kinds
  PROVE  \/ IsSorted4(n) /\ n.kind \in {"Node4", "Node16"}
         \/ ~IsSorted4(n) /\ n.kind = "Node48"
         \/ ~IsSorted4(n) /\ n.kind = "Node256"
BY DEF IsSorted4, Kinds

LEMMA AddByte ==
  ASSUME NEW B \in SUBSET Byte, NEW b \in Byte \ B
  PROVE  B \cup {b} \subseteq Byte /\ Cardinality(B \cup {b}) = Cardinality(B) + 1
BY BytesFinite, FS_AddElement

LEMMA RemoveByte ==
  ASSUME NEW B \in SUBSET Byte, NEW b \in B
  PROVE  B \ {b} \subseteq Byte /\ Cardinality(B \ {b}) = Cardinality(B) - 1
BY BytesFinite, FS_RemoveElement

LEMMA SizeType ==
  ASSUME NEW n, NEW C, LayoutIn(n, C)
  PROVE  /\ n.size \in Nat /\ n.size = Cardinality(Bytes(n)) /\ Bytes(n) \subseteq Byte
         /\ n.size <= Capacity(n.kind) /\ n.kind \in Kinds /\ IsRecord(n) /\ Null \notin C
BY BytesFinite DEF LayoutIn, IsRecord

LEMMA CapacityType ==
  ASSUME NEW kind \in Kinds
  PROVE  Capacity(kind) \in Nat
BY SizeAssumption DEF Capacity, MaxChilds, Kinds

-----------------------------------------------------------------------------
(* What insert and remove do, whatever the layout: the children are those  *)
(* of n but for byte b, the rest of the node is as before.                 *)
Inserted(n, b, child, C) ==
  LET m == InsertChild(n, b, child) IN
  /\ LayoutIn(m, C) /\ m.kind = n.kind /\ m.prefix = n.prefix /\ m.leaf = n.leaf
  /\ m.size = n.size + 1 /\ Bytes(m) = Bytes(n) \cup {b}
  /\ Find(m, b) = child /\ \A c \in Bytes(n) : Find(m, c) = Find(n, c)

Removed(n, b, C) ==
  LET m == RemoveChild(n, b) IN
  /\ LayoutIn(m, C) /\ m.kind = n.kind /\ m.prefix = n.prefix /\ m.leaf = n.leaf
  /\ m.size = n.size - 1 /\ Bytes(m) = Bytes(n) \ {b}
  /\ \A c \in Bytes(n) \ {b} : Find(m, c) = Find(n, c)

-----------------------------------------------------------------------------
(* Node4 and Node16 *)
LEMMA SortedNode ==
  ASSUME NEW n, NEW C, LayoutIn(n, C), IsSorted4(n)
  PROVE  /\ n.keys \in Seq(Byte) /\ Sorted(n.keys) /\ n.childs \in Seq(C)
         /\ Len(n.keys) = n.size /\ Len(n.childs) = n.size
         /\ Bytes(n) = {n.keys[i] : i \in 1 .. n.size}
         /\ \A i \in 1 .. n.size : /\ n.keys[i] \in Bytes(n) /\ Position(n, n.keys[i]) = i
                                   /\ Find(n, n.keys[i]) = n.childs[i] /\ n.childs[i] \in C
<1>1. SortedLayout(n, C)
  BY DEF LayoutIn, IsSorted4
<1>2. /\ n.keys \in Seq(Byte) /\ n.childs \in Seq(C)
      /\ Len(n.keys) = n.size /\ Len(n.childs) = n.size /\ Sorted(n.keys)
  BY <1>1 DEF SortedLayout, Sorted
<1>3. Bytes(n) = {n.keys[i] : i \in 1 .. n.size}
  BY <1>2, SortedCardinality DEF Bytes, IsSorted4
<1>4. ASSUME NEW i \in 1 .. n.size
      PROVE  /\ n.keys[i] \in Bytes(n) /\ Position(n, n.keys[i]) = i
             /\ Find(n, n.keys[i]) = n.childs[i] /\ n.childs[i] \in C
  <2>1. n.keys[i] \in Bytes(n)
    BY <1>3
  <2>2. Position(n, n.keys[i]) = i
    BY <1>2, LowerBoundAt DEF Position, IsSorted4
  <2>3. n.childs[i] \in C
    BY <1>2, ElementOfSeq
  <2> QED
    BY <2>1, <2>2, <2>3 DEF Find
<1> QED
  BY <1>2, <1>3, <1>4

LEMMA SortedBuilt ==
  ASSUME NEW n, NEW C, Null \notin C, IsRecord(n), IsSorted4(n),
         n.keys \in Seq(Byte), Sorted(n.keys), n.childs \in Seq(C),
         Len(n.keys) = n.size, Len(n.childs) = n.size, n.size <= Capacity(n.kind)
  PROVE  LayoutIn(n, C)
<1>1. Bytes(n) = Seqs!ToSet(n.keys)
  BY DEF Bytes, IsSorted4
<1>2. Bytes(n) \subseteq Byte /\ Cardinality(Bytes(n)) = n.size
  BY <1>1, SortedCardinality
<1>3. SortedLayout(n, C)
  BY DEF SortedLayout, Sorted
<1>4. n.kind \in Kinds
  BY DEF IsSorted4, Kinds
<1> QED
  BY <1>2, <1>3, <1>4 DEF LayoutIn, IsRecord, IsSorted4

(* The arrays ks and cs are keys and childs with b and child put in. *)
Insertion(keys, childs, b, child, C, ks, cs) ==
  /\ ks \in Seq(Byte) /\ Len(ks) = Len(keys) + 1 /\ Sorted(ks)
  /\ cs \in Seq(C) /\ Len(cs) = Len(keys) + 1
  /\ \E k \in 1 .. Len(keys) + 1 : ks[k] = b /\ cs[k] = child
  /\ \A j \in 1 .. Len(keys) :
       \E k \in 1 .. Len(keys) + 1 : ks[k] = keys[j] /\ cs[k] = childs[j]
  /\ \A k \in 1 .. Len(keys) + 1 : ks[k] = b \/ \E j \in 1 .. Len(keys) : ks[k] = keys[j]

(* std::lower_bound, then both arrays are shifted and the place is filled. *)
LEMMA SortedInsertion ==
  ASSUME NEW keys \in Seq(Byte), Sorted(keys), NEW b \in Byte,
         \A j \in 1 .. Len(keys) : keys[j] # b,
         NEW C, NEW childs \in Seq(C), Len(childs) = Len(keys), NEW child \in C
  PROVE  LET i == LowerBound(keys, b)
         IN  Insertion(keys, childs, b, child, C,
                       Seqs!InsertAt(keys, i, b), Seqs!InsertAt(childs, i, child))
<1> DEFINE i == LowerBound(keys, b)
           ks == Seqs!InsertAt(keys, i, b)
           cs == Seqs!InsertAt(childs, i, child)
<1>1. PICK L \in Nat : L = Len(keys)
  BY LenProperties
<1>2. i \in 1 .. L + 1 /\ \A j \in 1 .. L : keys[j] < b <=> j < i
  BY <1>1, LowerBoundIs, KeysType
<1>3. /\ ks \in Seq(Byte) /\ Len(ks) = L + 1
      /\ \A j \in 1 .. L + 1 : ks[j] = IF j < i THEN keys[j] ELSE IF j = i THEN b ELSE keys[j - 1]
  <2> HIDE DEF i
  <2>1. i \in 1 .. Len(keys) + 1
    BY <1>1, <1>2
  <2>2. /\ ks \in Seq(Byte) /\ Len(ks) = Len(keys) + 1
        /\ \A j \in 1 .. Len(keys) + 1 :
             ks[j] = IF j < i THEN keys[j] ELSE IF j = i THEN b ELSE keys[j - 1]
    BY ONLY <2>1, keys \in Seq(Byte), b \in Byte, InsertAtIs
  <2> HIDE DEF ks
  <2> QED
    BY <1>1, <2>2
<1>4. /\ cs \in Seq(C) /\ Len(cs) = L + 1
      /\ \A j \in 1 .. L + 1 :
           cs[j] = IF j < i THEN childs[j] ELSE IF j = i THEN child ELSE childs[j - 1]
  <2> HIDE DEF i
  <2>1. i \in 1 .. Len(childs) + 1
    BY <1>1, <1>2
  <2>2. /\ cs \in Seq(C) /\ Len(cs) = Len(childs) + 1
        /\ \A j \in 1 .. Len(childs) + 1 :
             cs[j] = IF j < i THEN childs[j] ELSE IF j = i THEN child ELSE childs[j - 1]
    BY ONLY <2>1, childs \in Seq(C), child \in C, InsertAtIs
  <2> HIDE DEF cs
  <2> QED
    BY <1>1, <2>2
<1> HIDE DEF i, ks, cs
<1>5. ASSUME NEW j \in 1 .. L
      PROVE  /\ keys[j] \in Int /\ b \in Int
             /\ j < i => keys[j] < b
             /\ ~(j < i) => b < keys[j]
  <2>1. keys[j] \in Int /\ b \in Int /\ keys[j] # b
    BY <1>1, KeysType
  <2> QED
    BY <1>2, <2>1
<1>6. \A j, k \in 1 .. L : j < k => keys[j] < keys[k]
  BY <1>1 DEF Sorted
<1>7. ASSUME NEW j \in 1 .. L + 1, NEW k \in 1 .. L + 1, j < k PROVE ks[j] < ks[k]
  <2>1. CASE k < i
    <3>1. j \in 1 .. L /\ k \in 1 .. L /\ j < i
      BY <1>2, <1>7, <2>1
    <3> QED
      BY <1>3, <1>6, <1>7, <2>1, <3>1
  <2>2. CASE k = i
    <3>1. j \in 1 .. L /\ j < i
      BY <1>2, <1>7, <2>2
    <3> QED
      BY <1>3, <1>5, <2>2, <3>1
  <2>3. CASE k > i
    <3>1. k - 1 \in 1 .. L /\ ~(k < i) /\ k # i /\ ~(k - 1 < i)
      BY <1>2, <2>3
    <3>2. ks[k] = keys[k - 1]
      BY <1>3, <3>1
    <3>3. CASE j < i
      <4>1. j \in 1 .. L /\ j < k - 1
        BY <1>2, <2>3, <3>3
      <4>2. ks[j] = keys[j]
        BY <1>3, <3>3
      <4> QED
        BY <1>6, <3>1, <3>2, <4>1, <4>2
    <3>4. CASE j = i
      <4>1. ks[j] = b /\ b < keys[k - 1]
        BY <1>2, <1>3, <1>5, <3>1, <3>4
      <4> QED
        BY <3>2, <4>1
    <3>5. CASE j > i
      <4>1. j - 1 \in 1 .. L /\ j - 1 < k - 1 /\ ~(j < i) /\ j # i
        BY <1>2, <1>7, <3>5
      <4>2. ks[j] = keys[j - 1]
        BY <1>3, <4>1
      <4> QED
        BY <1>6, <3>1, <3>2, <4>1, <4>2
    <3> QED
      BY <1>2, <3>3, <3>4, <3>5
  <2> QED
    BY <1>2, <2>1, <2>2, <2>3
<1>8. Sorted(ks)
  BY <1>3, <1>7 DEF Sorted
<1>9. ks[i] = b /\ cs[i] = child
  BY <1>2, <1>3, <1>4
<1>10. ASSUME NEW j \in 1 .. L
       PROVE  \E k \in 1 .. L + 1 : ks[k] = keys[j] /\ cs[k] = childs[j]
  <2>1. CASE j < i
    BY <1>3, <1>4, <2>1
  <2>2. CASE ~(j < i)
    <3>1. j + 1 \in 1 .. L + 1 /\ ~(j + 1 < i) /\ j + 1 # i /\ (j + 1) - 1 = j
      BY <1>2, <2>2
    <3>2. ks[j + 1] = keys[j] /\ cs[j + 1] = childs[j]
      BY <1>3, <1>4, <3>1
    <3> QED
      BY <3>1, <3>2
  <2> QED
    BY <2>1, <2>2
<1>11. ASSUME NEW k \in 1 .. L + 1 PROVE ks[k] = b \/ \E j \in 1 .. L : ks[k] = keys[j]
  <2>1. CASE k < i
    <3>1. k \in 1 .. L
      BY <1>2, <2>1
    <3> QED
      BY <1>3, <2>1, <3>1
  <2>2. CASE k = i
    BY <1>9, <2>2
  <2>3. CASE k > i
    <3>1. k - 1 \in 1 .. L /\ ~(k < i) /\ k # i
      BY <1>2, <2>3
    <3> QED
      BY <1>3, <3>1
  <2> QED
    BY <1>2, <2>1, <2>2, <2>3
<1> QED
  BY <1>1, <1>2, <1>3, <1>4, <1>8, <1>9, <1>10, <1>11 DEF i, ks, cs, Insertion

LEMMA InsertSortedIs ==
  ASSUME NEW n, NEW C, LayoutIn(n, C), IsSorted4(n), n.size < Capacity(n.kind),
         NEW b \in Byte \ Bytes(n), NEW child \in C
  PROVE  Inserted(n, b, child, C)
<1> DEFINE i == LowerBound(n.keys, b)
           ks == Seqs!InsertAt(n.keys, i, b)
           cs == Seqs!InsertAt(n.childs, i, child)
           m == InsertChild(n, b, child)
<1>1. PICK L \in Nat : L = n.size
  BY SizeType
<1>2. /\ n.keys \in Seq(Byte) /\ Sorted(n.keys) /\ n.childs \in Seq(C)
      /\ Len(n.keys) = L /\ Len(n.childs) = L
      /\ Bytes(n) = {n.keys[j] : j \in 1 .. L}
      /\ \A j \in 1 .. L : Find(n, n.keys[j]) = n.childs[j] /\ n.keys[j] \in Bytes(n)
  BY <1>1, SortedNode
<1>3. Null \notin C /\ IsRecord(n) /\ n.kind \in Kinds
  BY SizeType
<1>4. m = [kind |-> n.kind, prefix |-> n.prefix, leaf |-> n.leaf, size |-> L + 1,
           keys |-> ks, childs |-> cs]
  <2>1. m = [[[n EXCEPT !.size = @ + 1] EXCEPT !.keys = ks] EXCEPT !.childs = cs]
    BY DEF InsertChild, InsertSorted, IsSorted4
  <2> HIDE DEF m, ks, cs
  <2> QED
    BY <1>1, <1>3, <2>1 DEF IsRecord
<1>5. /\ ks \in Seq(Byte) /\ Len(ks) = L + 1 /\ Sorted(ks)
      /\ cs \in Seq(C) /\ Len(cs) = L + 1
      /\ \E k \in 1 .. L + 1 : ks[k] = b /\ cs[k] = child
      /\ \A j \in 1 .. L : \E k \in 1 .. L + 1 : ks[k] = n.keys[j] /\ cs[k] = n.childs[j]
      /\ \A k \in 1 .. L + 1 : ks[k] = b \/ \E j \in 1 .. L : ks[k] = n.keys[j]
  <2>1. /\ n.keys \in Seq(Byte) /\ Sorted(n.keys) /\ n.childs \in Seq(C)
        /\ \A j \in 1 .. Len(n.keys) : n.keys[j] # b
        /\ Len(n.childs) = Len(n.keys) /\ b \in Byte
    BY <1>2
  <2>2. Insertion(n.keys, n.childs, b, child, C, ks, cs)
    BY ONLY <2>1, child \in C, SortedInsertion
  <2> HIDE DEF i, ks, cs
  <2> QED
    BY <1>2, <2>2 DEF Insertion
<1> HIDE DEF i, ks, cs, m
<1>6. /\ IsRecord(m) /\ m.kind = n.kind /\ m.prefix = n.prefix /\ m.leaf = n.leaf
      /\ m.size = L + 1 /\ m.keys = ks /\ m.childs = cs
  BY <1>4 DEF IsRecord
<1>7. IsSorted4(m)
  BY <1>6 DEF IsSorted4
<1>8. L + 1 <= Capacity(n.kind)
  BY <1>1, <1>3, CapacityType
<1>9. LayoutIn(m, C)
  BY <1>3, <1>5, <1>6, <1>7, <1>8, SortedBuilt
<1>10. /\ Bytes(m) = {ks[j] : j \in 1 .. L + 1}
       /\ \A j \in 1 .. L + 1 : Find(m, ks[j]) = cs[j]
  <2>1. /\ Bytes(m) = {m.keys[j] : j \in 1 .. m.size}
        /\ \A j \in 1 .. m.size : Find(m, m.keys[j]) = m.childs[j]
    BY ONLY <1>7, <1>9, SortedNode
  <2> QED
    BY <1>6, <2>1
<1>11. Bytes(m) = Bytes(n) \cup {b}
  <2>1. ASSUME NEW c \in Bytes(m) PROVE c \in Bytes(n) \cup {b}
    <3>1. PICK k \in 1 .. L + 1 : c = ks[k]
      BY <1>10
    <3> QED
      BY <1>2, <1>5, <3>1
  <2>2. Bytes(n) \subseteq Bytes(m)
    BY <1>2, <1>5, <1>10
  <2>3. b \in Bytes(m)
    BY <1>5, <1>10
  <2> QED
    BY <2>1, <2>2, <2>3
<1>12. Find(m, b) = child
  BY <1>5, <1>10
<1>13. ASSUME NEW c \in Bytes(n) PROVE Find(m, c) = Find(n, c)
  <2>1. PICK j \in 1 .. L : c = n.keys[j]
    BY <1>2
  <2>2. PICK k \in 1 .. L + 1 : ks[k] = n.keys[j] /\ cs[k] = n.childs[j]
    BY <1>5
  <2>3. Find(n, c) = n.childs[j]
    BY <1>2, <2>1
  <2> QED
    BY <1>10, <2>1, <2>2, <2>3
<1> QED
  BY <1>1, <1>6, <1>9, <1>11, <1>12, <1>13 DEF m, Inserted

(* The arrays ks and cs are keys and childs without what is at p. *)
Removal(keys, childs, p, C, ks, cs) ==
  /\ ks \in Seq(Byte) /\ Len(ks) = Len(keys) - 1 /\ Sorted(ks)
  /\ cs \in Seq(C) /\ Len(cs) = Len(keys) - 1
  /\ \A j \in 1 .. Len(keys) :
       j # p => \E k \in 1 .. Len(keys) - 1 : ks[k] = keys[j] /\ cs[k] = childs[j]
  /\ \A k \in 1 .. Len(keys) - 1 : \E j \in 1 .. Len(keys) : j # p /\ ks[k] = keys[j]

LEMMA SortedRemoval ==
  ASSUME NEW keys \in Seq(Byte), Sorted(keys), NEW p \in 1 .. Len(keys),
         NEW C, NEW childs \in Seq(C), Len(childs) = Len(keys)
  PROVE  Removal(keys, childs, p, C, Seqs!RemoveAt(keys, p), Seqs!RemoveAt(childs, p))
<1> DEFINE ks == Seqs!RemoveAt(keys, p)
           cs == Seqs!RemoveAt(childs, p)
<1>1. PICK L \in Nat : L = Len(keys)
  BY LenProperties
<1>2. /\ ks \in Seq(Byte) /\ Len(ks) = L - 1
      /\ \A j \in 1 .. L - 1 : ks[j] = IF j < p THEN keys[j] ELSE keys[j + 1]
  <2>1. /\ ks \in Seq(Byte) /\ Len(ks) = Len(keys) - 1
        /\ \A j \in 1 .. Len(keys) - 1 : ks[j] = IF j < p THEN keys[j] ELSE keys[j + 1]
    BY ONLY keys \in Seq(Byte), p \in 1 .. Len(keys), RemoveAtIs
  <2> HIDE DEF ks
  <2> QED
    BY <1>1, <2>1
<1>3. /\ cs \in Seq(C) /\ Len(cs) = L - 1
      /\ \A j \in 1 .. L - 1 : cs[j] = IF j < p THEN childs[j] ELSE childs[j + 1]
  <2>1. p \in 1 .. Len(childs)
    OBVIOUS
  <2>2. /\ cs \in Seq(C) /\ Len(cs) = Len(childs) - 1
        /\ \A j \in 1 .. Len(childs) - 1 : cs[j] = IF j < p THEN childs[j] ELSE childs[j + 1]
    BY ONLY childs \in Seq(C), <2>1, RemoveAtIs
  <2> HIDE DEF cs
  <2> QED
    BY <1>1, <2>2
<1> HIDE DEF ks, cs
<1>4. p \in 1 .. L /\ \A j, k \in 1 .. L : j < k => keys[j] < keys[k]
  BY <1>1 DEF Sorted
<1>5. ASSUME NEW k \in 1 .. L - 1
      PROVE  \E j \in 1 .. L : /\ j # p /\ ks[k] = keys[j] /\ cs[k] = childs[j]
                               /\ j = IF k < p THEN k ELSE k + 1
  <2>1. k \in 1 .. L /\ k + 1 \in 1 .. L
    BY <1>4
  <2>2. CASE k < p
    BY <1>2, <1>3, <1>4, <2>1, <2>2
  <2>3. CASE ~(k < p)
    <3>1. k + 1 # p
      BY <1>4, <2>3
    <3> QED
      BY <1>2, <1>3, <2>1, <2>3, <3>1
  <2> QED
    BY <2>2, <2>3
<1>6. Sorted(ks)
  <2>1. ASSUME NEW j \in 1 .. L - 1, NEW k \in 1 .. L - 1, j < k PROVE ks[j] < ks[k]
    <3>1. PICK a \in 1 .. L : ks[j] = keys[a] /\ a = IF j < p THEN j ELSE j + 1
      BY <1>5
    <3>2. PICK c \in 1 .. L : ks[k] = keys[c] /\ c = IF k < p THEN k ELSE k + 1
      BY <1>5
    <3>3. a < c
      BY <1>4, <2>1, <3>1, <3>2
    <3> QED
      BY <1>4, <3>1, <3>2, <3>3
  <2> QED
    BY <1>2, <2>1 DEF Sorted
<1>7. ASSUME NEW j \in 1 .. L, j # p
      PROVE  \E k \in 1 .. L - 1 : ks[k] = keys[j] /\ cs[k] = childs[j]
  <2>1. CASE j < p
    <3>1. j \in 1 .. L - 1
      BY <1>4, <2>1
    <3> QED
      BY <1>2, <1>3, <2>1, <3>1
  <2>2. CASE j > p
    <3>1. j - 1 \in 1 .. L - 1 /\ ~(j - 1 < p) /\ (j - 1) + 1 = j
      BY <1>4, <2>2
    <3>2. ks[j - 1] = keys[j] /\ cs[j - 1] = childs[j]
      BY <1>2, <1>3, <3>1
    <3> QED
      BY <3>1, <3>2
  <2> QED
    BY <1>4, <1>7, <2>1, <2>2
<1>8. \A k \in 1 .. L - 1 : \E j \in 1 .. L : j # p /\ ks[k] = keys[j]
  BY <1>5
<1> QED
  BY <1>1, <1>2, <1>3, <1>6, <1>7, <1>8 DEF ks, cs, Removal

LEMMA RemoveSortedIs ==
  ASSUME NEW n, NEW C, LayoutIn(n, C), IsSorted4(n), NEW b \in Bytes(n)
  PROVE  Removed(n, b, C)
<1> DEFINE p == LowerBound(n.keys, b)
           ks == Seqs!RemoveAt(n.keys, p)
           cs == Seqs!RemoveAt(n.childs, p)
           m == RemoveChild(n, b)
<1>1. PICK L \in Nat : L = n.size
  BY SizeType
<1>2. /\ n.keys \in Seq(Byte) /\ Sorted(n.keys) /\ n.childs \in Seq(C)
      /\ Len(n.keys) = L /\ Len(n.childs) = L
      /\ Bytes(n) = {n.keys[j] : j \in 1 .. L}
      /\ \A j \in 1 .. L : Find(n, n.keys[j]) = n.childs[j] /\ n.keys[j] \in Bytes(n)
  BY <1>1, SortedNode
<1>3. Null \notin C /\ IsRecord(n) /\ n.kind \in Kinds /\ n.size <= Capacity(n.kind)
  BY SizeType
<1>4. p \in 1 .. L /\ n.keys[p] = b
  <2>1. PICK j \in 1 .. L : b = n.keys[j]
    BY <1>2
  <2>2. p = j
    BY <1>2, <2>1, LowerBoundAt
  <2> QED
    BY <2>1, <2>2
<1>5. m = [kind |-> n.kind, prefix |-> n.prefix, leaf |-> n.leaf, size |-> L - 1,
           keys |-> ks, childs |-> cs]
  <2>1. m = [[[n EXCEPT !.size = @ - 1] EXCEPT !.keys = ks] EXCEPT !.childs = cs]
    BY DEF RemoveChild, RemoveSorted, IsSorted4
  <2> HIDE DEF m, ks, cs
  <2> QED
    BY <1>1, <1>3, <2>1 DEF IsRecord
<1>6. Removal(n.keys, n.childs, p, C, ks, cs)
  <2> HIDE DEF p
  <2>1. p \in 1 .. Len(n.keys) /\ Len(n.childs) = Len(n.keys)
    BY <1>2, <1>4
  <2> QED
    BY <1>2, <2>1, SortedRemoval
<1> HIDE DEF p, ks, cs, m
<1>7. /\ ks \in Seq(Byte) /\ Len(ks) = L - 1 /\ Sorted(ks)
      /\ cs \in Seq(C) /\ Len(cs) = L - 1
      /\ \A j \in 1 .. L : j # p => \E k \in 1 .. L - 1 : ks[k] = n.keys[j] /\ cs[k] = n.childs[j]
      /\ \A k \in 1 .. L - 1 : \E j \in 1 .. L : j # p /\ ks[k] = n.keys[j]
  BY <1>2, <1>6 DEF Removal
<1>8. /\ IsRecord(m) /\ m.kind = n.kind /\ m.prefix = n.prefix /\ m.leaf = n.leaf
      /\ m.size = L - 1 /\ m.keys = ks /\ m.childs = cs
  BY <1>5 DEF IsRecord
<1>9. IsSorted4(m)
  BY <1>8 DEF IsSorted4
<1>10. L - 1 <= Capacity(n.kind)
  BY <1>1, <1>3, CapacityType
<1>11. LayoutIn(m, C)
  BY <1>3, <1>7, <1>8, <1>9, <1>10, SortedBuilt
<1>12. /\ Bytes(m) = {ks[j] : j \in 1 .. L - 1}
       /\ \A j \in 1 .. L - 1 : Find(m, ks[j]) = cs[j]
  <2>1. /\ Bytes(m) = {m.keys[j] : j \in 1 .. m.size}
        /\ \A j \in 1 .. m.size : Find(m, m.keys[j]) = m.childs[j]
    BY ONLY <1>9, <1>11, SortedNode
  <2> QED
    BY <1>8, <2>1
<1>13. ASSUME NEW j \in 1 .. L, n.keys[j] = b PROVE j = p
  BY <1>2, <1>4, <1>13, SortedInjective
<1>14. Bytes(m) = Bytes(n) \ {b}
  <2>1. ASSUME NEW c \in Bytes(m) PROVE c \in Bytes(n) \ {b}
    <3>1. PICK k \in 1 .. L - 1 : c = ks[k]
      BY <1>12
    <3>2. PICK j \in 1 .. L : j # p /\ c = n.keys[j]
      BY <1>7, <3>1
    <3> QED
      BY <1>2, <1>13, <3>2
  <2>2. ASSUME NEW c \in Bytes(n) \ {b} PROVE c \in Bytes(m)
    <3>1. PICK j \in 1 .. L : c = n.keys[j]
      BY <1>2
    <3>2. j # p
      BY <1>4, <3>1
    <3> QED
      BY <1>7, <1>12, <3>1, <3>2
  <2> QED
    BY <2>1, <2>2
<1>15. ASSUME NEW c \in Bytes(n) \ {b} PROVE Find(m, c) = Find(n, c)
  <2>1. PICK j \in 1 .. L : c = n.keys[j]
    BY <1>2
  <2>2. j # p
    BY <1>4, <2>1
  <2>3. PICK k \in 1 .. L - 1 : ks[k] = n.keys[j] /\ cs[k] = n.childs[j]
    BY <1>7, <2>2
  <2>4. Find(n, c) = n.childs[j]
    BY <1>2, <2>1
  <2> QED
    BY <1>12, <2>1, <2>3, <2>4
<1> QED
  BY <1>1, <1>8, <1>11, <1>14, <1>15 DEF m, Removed

-----------------------------------------------------------------------------
(* Node48 *)
LEMMA SlottedNode ==
  ASSUME NEW n, NEW C, LayoutIn(n, C), n.kind = "Node48"
  PROVE  /\ Bytes(n) = DOMAIN n.keys /\ SlottedLayout(n, C)
         /\ \A b \in Bytes(n) : /\ n.keys[b] \in 1 .. SIZE48 /\ Position(n, b) = n.keys[b]
                                /\ Find(n, b) = n.childs[n.keys[b]] /\ Find(n, b) \in C
<1>1. Bytes(n) = DOMAIN n.keys
  BY DEF Bytes, IsSorted4
<1>2. SlottedLayout(n, C)
  BY DEF LayoutIn, IsSorted4
<1>3. ASSUME NEW b \in Bytes(n)
      PROVE  /\ n.keys[b] \in 1 .. SIZE48 /\ Position(n, b) = n.keys[b]
             /\ Find(n, b) = n.childs[n.keys[b]] /\ Find(n, b) \in C
  <2>1. Position(n, b) = n.keys[b]
    BY DEF Position, IsSorted4
  <2>2. Find(n, b) = n.childs[n.keys[b]]
    BY <2>1 DEF Find
  <2>3. n.keys[b] \in 1 .. SIZE48 /\ n.childs[n.keys[b]] # Null
    BY <1>2 DEF SlottedLayout
  <2>4. n.childs[n.keys[b]] \in C \cup {Null}
    BY <1>2, <2>3 DEF SlottedLayout
  <2> QED
    BY <2>1, <2>2, <2>3, <2>4
<1> QED
  BY <1>1, <1>2, <1>3

LEMMA SlottedBuilt ==
  ASSUME NEW n, NEW C, Null \notin C, IsRecord(n), n.kind = "Node48",
         DOMAIN n.keys \subseteq Byte, n.size = Cardinality(DOMAIN n.keys), n.size <= SIZE48,
         n.keys \in [DOMAIN n.keys -> 1 .. SIZE48], n.childs \in [1 .. SIZE48 -> C \cup {Null}],
         \A b, c \in DOMAIN n.keys : n.keys[b] = n.keys[c] => b = c,
         {i \in 1 .. SIZE48 : n.childs[i] # Null} = {n.keys[b] : b \in DOMAIN n.keys}
  PROVE  LayoutIn(n, C) /\ Bytes(n) = DOMAIN n.keys
<1>1. Bytes(n) = DOMAIN n.keys
  BY DEF Bytes, IsSorted4
<1>2. SlottedLayout(n, C)
  BY <1>1 DEF SlottedLayout
<1>3. n.kind \in Kinds /\ Capacity(n.kind) = SIZE48
  BY DEF Kinds, Capacity
<1> QED
  BY <1>1, <1>2, <1>3 DEF LayoutIn, IsRecord, IsSorted4

(* A node that is not full has a free slot: the slots in use are as many   *)
(* as the bytes.                                                           *)
LEMMA FreeSlotIs ==
  ASSUME NEW n, NEW C, LayoutIn(n, C), n.kind = "Node48", n.size < SIZE48
  PROVE  FreeSlot(n) \in 1 .. SIZE48 /\ n.childs[FreeSlot(n)] = Null
<1> DEFINE B == Bytes(n)
           F == {i \in 1 .. SIZE48 : n.childs[i] = Null}
<1>1. SlottedLayout(n, C)
  BY SlottedNode
<1>2. n.size = Cardinality(B) /\ IsFiniteSet(B)
  BY SizeType, BytesFinite
<1>3. F # {}
  <2>1. SUFFICES ASSUME F = {} PROVE FALSE
    OBVIOUS
  <2>2. 1 .. SIZE48 = {n.keys[b] : b \in B}
    BY <1>1, <2>1 DEF SlottedLayout
  <2>3. n.keys \in [B -> 1 .. SIZE48] /\ \A b, c \in B : n.keys[b] = n.keys[c] => b = c
    BY <1>1 DEF SlottedLayout
  <2>4. n.keys \in Bijection(B, 1 .. SIZE48)
    <3> HIDE DEF B
    <3>1. \A i \in 1 .. SIZE48 : \E b \in B : n.keys[b] = i
      BY <2>2
    <3> QED
      BY <2>3, <3>1 DEF Bijection, Injection, Surjection, IsInjective
  <2>5. Cardinality(B) = Cardinality(1 .. SIZE48)
    <3> HIDE DEF B
    <3>1. ExistsBijection(B, 1 .. SIZE48)
      BY <2>4 DEF ExistsBijection
    <3> QED
      BY <1>2, <3>1, FS_Bijection
  <2>6. Cardinality(1 .. SIZE48) = SIZE48
    BY SizeAssumption, FS_Interval
  <2> QED
    BY <1>2, <2>5, <2>6, SizeAssumption
<1>4. F \in SUBSET Nat
  OBVIOUS
<1>5. FreeSlot(n) \in F
  <2>1. FreeSlot(n) = Set!Min(F)
    BY DEF FreeSlot
  <2> HIDE DEF F
  <2> QED
    BY <1>3, <1>4, <2>1, MinIs
<1> QED
  BY <1>5

LEMMA InsertSlottedIs ==
  ASSUME NEW n, NEW C, LayoutIn(n, C), n.kind = "Node48", n.size < Capacity(n.kind),
         NEW b \in Byte \ Bytes(n), NEW child \in C
  PROVE  Inserted(n, b, child, C)
<1> DEFINE i == FreeSlot(n)
           B == Bytes(n)
           ks == With(n.keys, b, i)
           cs == [n.childs EXCEPT ![i] = child]
           m == InsertChild(n, b, child)
<1>1. /\ n.size \in Nat /\ n.size = Cardinality(B) /\ B \subseteq Byte /\ IsRecord(n) /\ Null \notin C
  BY SizeType
<1>2. n.size < SIZE48
  BY DEF Capacity
<1>3. i \in 1 .. SIZE48 /\ n.childs[i] = Null
  BY <1>2, FreeSlotIs
<1>4. B = DOMAIN n.keys /\ SlottedLayout(n, C)
      /\ \A c \in B : n.keys[c] \in 1 .. SIZE48 /\ Find(n, c) = n.childs[n.keys[c]]
  BY SlottedNode
<1>5. m = [kind |-> "Node48", prefix |-> n.prefix, leaf |-> n.leaf, size |-> n.size + 1,
           keys |-> ks, childs |-> cs]
  <2>1. FreeSlot([n EXCEPT !.size = @ + 1]) = i
    BY <1>1 DEF FreeSlot, IsRecord
  <2>2. m = [[[n EXCEPT !.size = @ + 1] EXCEPT !.keys = With(@, b, i)]
                 EXCEPT !.childs = [@ EXCEPT ![i] = child]]
    BY <2>1 DEF InsertChild, InsertSlotted, IsSorted4
  <2> HIDE DEF m, i
  <2> QED
    BY <1>1, <2>2 DEF IsRecord
<1> HIDE DEF m
<1>6. /\ IsRecord(m) /\ m.kind = "Node48" /\ m.prefix = n.prefix /\ m.leaf = n.leaf
      /\ m.size = n.size + 1 /\ m.keys = ks /\ m.childs = cs
  BY <1>5 DEF IsRecord
<1> HIDE DEF i
<1>7. /\ DOMAIN ks = B \cup {b} /\ ks[b] = i /\ \A c \in B : ks[c] = n.keys[c]
      /\ ks \in [B \cup {b} -> 1 .. SIZE48]
  BY <1>3, <1>4 DEF With
<1>8. /\ n.childs \in [1 .. SIZE48 -> C \cup {Null}]
      /\ \A c, d \in B : n.keys[c] = n.keys[d] => c = d
      /\ {j \in 1 .. SIZE48 : n.childs[j] # Null} = {n.keys[c] : c \in B}
  BY <1>4 DEF SlottedLayout
<1>9. /\ cs \in [1 .. SIZE48 -> C \cup {Null}] /\ cs[i] = child
      /\ \A j \in 1 .. SIZE48 : j # i => cs[j] = n.childs[j]
  BY <1>3, <1>8
<1> HIDE DEF ks, cs, B
<1>10. \A c \in B : n.keys[c] # i /\ n.keys[c] \in 1 .. SIZE48
  <2>1. \A c \in B : n.childs[n.keys[c]] # Null
    BY <1>8
  <2> QED
    BY <1>3, <1>4, <2>1
<1>11. \A c, d \in B \cup {b} : ks[c] = ks[d] => c = d
  BY <1>7, <1>8, <1>10
<1>12. {j \in 1 .. SIZE48 : cs[j] # Null} = {ks[c] : c \in B \cup {b}}
  <2>1. ASSUME NEW j \in 1 .. SIZE48, cs[j] # Null PROVE \E c \in B \cup {b} : j = ks[c]
    <3>1. CASE j = i
      BY <1>7, <3>1
    <3>2. CASE j # i
      <4>1. n.childs[j] # Null
        BY <1>9, <2>1, <3>2
      <4>2. PICK c \in B : j = n.keys[c]
        BY <1>8, <4>1
      <4> QED
        BY <1>7, <4>2
    <3> QED
      BY <3>1, <3>2
  <2>2. ASSUME NEW c \in B \cup {b} PROVE ks[c] \in 1 .. SIZE48 /\ cs[ks[c]] # Null
    <3>1. CASE c = b
      BY <1>1, <1>3, <1>7, <1>9, <3>1
    <3>2. CASE c \in B
      <4>1. n.childs[n.keys[c]] # Null
        BY <1>8, <3>2
      <4> QED
        BY <1>7, <1>9, <1>10, <3>2, <4>1
    <3> QED
      BY <3>1, <3>2
  <2> QED
    BY <2>1, <2>2
<1>13. B \cup {b} \subseteq Byte /\ Cardinality(B \cup {b}) = n.size + 1
  BY <1>1, AddByte DEF B
<1>14. n.size + 1 <= SIZE48
  BY <1>1, <1>2, SizeAssumption
<1>15. LayoutIn(m, C) /\ Bytes(m) = DOMAIN m.keys
  <2>1. /\ DOMAIN m.keys = B \cup {b} /\ m.keys \in [DOMAIN m.keys -> 1 .. SIZE48]
        /\ m.childs \in [1 .. SIZE48 -> C \cup {Null}]
        /\ DOMAIN m.keys \subseteq Byte /\ m.size = Cardinality(DOMAIN m.keys) /\ m.size <= SIZE48
    BY <1>6, <1>7, <1>9, <1>13, <1>14
  <2>2. /\ \A c, d \in DOMAIN m.keys : m.keys[c] = m.keys[d] => c = d
        /\ {j \in 1 .. SIZE48 : m.childs[j] # Null} = {m.keys[c] : c \in DOMAIN m.keys}
    BY <1>6, <1>7, <1>11, <1>12
  <2> QED
    BY <1>1, <1>6, <2>1, <2>2, SlottedBuilt
<1>16. Bytes(m) = B \cup {b} /\ \A c \in Bytes(m) : Find(m, c) = cs[ks[c]]
  <2>1. \A c \in Bytes(m) : Find(m, c) = m.childs[m.keys[c]]
    BY ONLY <1>15, <1>6, SlottedNode
  <2> QED
    BY <1>6, <1>7, <1>15, <2>1
<1>17. Find(m, b) = child
  BY <1>7, <1>9, <1>16
<1>18. ASSUME NEW c \in B PROVE Find(m, c) = Find(n, c)
  BY <1>4, <1>7, <1>9, <1>10, <1>16
<1> QED
  BY <1>6, <1>15, <1>16, <1>17, <1>18 DEF m, B, Inserted

LEMMA RemoveSlottedIs ==
  ASSUME NEW n, NEW C, LayoutIn(n, C), n.kind = "Node48", NEW b \in Bytes(n)
  PROVE  Removed(n, b, C)
<1> DEFINE i == n.keys[b]
           B == Bytes(n)
           ks == Minus(n.keys, b)
           cs == [n.childs EXCEPT ![i] = Null]
           m == RemoveChild(n, b)
<1>1. /\ n.size \in Nat /\ n.size = Cardinality(B) /\ B \subseteq Byte /\ IsRecord(n) /\ Null \notin C
      /\ n.size <= Capacity(n.kind)
  BY SizeType
<1>2. n.size <= SIZE48
  BY <1>1 DEF Capacity
<1>3. B = DOMAIN n.keys /\ SlottedLayout(n, C)
      /\ \A c \in B : n.keys[c] \in 1 .. SIZE48 /\ Find(n, c) = n.childs[n.keys[c]]
  BY SlottedNode
<1>4. i \in 1 .. SIZE48
  BY <1>3
<1>5. m = [kind |-> "Node48", prefix |-> n.prefix, leaf |-> n.leaf, size |-> n.size - 1,
           keys |-> ks, childs |-> cs]
  <2>1. [n EXCEPT !.size = @ - 1].keys[b] = i
    BY <1>1 DEF IsRecord
  <2>2. m = [[n EXCEPT !.size = @ - 1] EXCEPT !.keys = Minus(@, b), !.childs = [@ EXCEPT ![i] = Null]]
    BY <2>1 DEF RemoveChild, RemoveSlotted, IsSorted4
  <2> HIDE DEF m, i
  <2> QED
    BY <1>1, <2>2 DEF IsRecord
<1> HIDE DEF m
<1>6. /\ IsRecord(m) /\ m.kind = "Node48" /\ m.prefix = n.prefix /\ m.leaf = n.leaf
      /\ m.size = n.size - 1 /\ m.keys = ks /\ m.childs = cs
  BY <1>5 DEF IsRecord
<1>7. /\ DOMAIN ks = B \ {b} /\ \A c \in B \ {b} : ks[c] = n.keys[c]
      /\ ks \in [B \ {b} -> 1 .. SIZE48]
  BY <1>3 DEF Minus
<1>8. /\ n.childs \in [1 .. SIZE48 -> C \cup {Null}]
      /\ \A c, d \in B : n.keys[c] = n.keys[d] => c = d
      /\ {j \in 1 .. SIZE48 : n.childs[j] # Null} = {n.keys[c] : c \in B}
  BY <1>3 DEF SlottedLayout
<1>9. \A c \in B \ {b} : n.keys[c] # i /\ n.keys[c] \in 1 .. SIZE48
  BY <1>3, <1>8
<1>10. i = n.keys[b] /\ b \in B
  OBVIOUS
<1> HIDE DEF i
<1>11. /\ cs \in [1 .. SIZE48 -> C \cup {Null}] /\ cs[i] = Null
       /\ \A j \in 1 .. SIZE48 : j # i => cs[j] = n.childs[j]
  BY <1>4, <1>8
<1> HIDE DEF ks, cs, B
<1>12. \A c, d \in B \ {b} : ks[c] = ks[d] => c = d
  BY <1>7, <1>8
<1>13. {j \in 1 .. SIZE48 : cs[j] # Null} = {ks[c] : c \in B \ {b}}
  <2>1. ASSUME NEW j \in 1 .. SIZE48, cs[j] # Null PROVE \E c \in B \ {b} : j = ks[c]
    <3>1. j # i /\ n.childs[j] # Null
      BY <1>11, <2>1
    <3>2. PICK c \in B : j = n.keys[c]
      BY <1>8, <3>1
    <3>3. c # b
      BY <1>10, <3>1, <3>2
    <3> QED
      BY <1>7, <3>2, <3>3
  <2>2. ASSUME NEW c \in B \ {b} PROVE ks[c] \in 1 .. SIZE48 /\ cs[ks[c]] # Null
    <3>1. n.childs[n.keys[c]] # Null
      BY <1>8
    <3> QED
      BY <1>7, <1>9, <1>11, <3>1
  <2> QED
    BY <2>1, <2>2
<1>14. B \ {b} \subseteq Byte /\ Cardinality(B \ {b}) = n.size - 1
  BY <1>1, RemoveByte DEF B
<1>15. n.size - 1 <= SIZE48
  BY <1>1, <1>2, SizeAssumption
<1>16. LayoutIn(m, C) /\ Bytes(m) = DOMAIN m.keys
  <2>1. /\ DOMAIN m.keys = B \ {b} /\ m.keys \in [DOMAIN m.keys -> 1 .. SIZE48]
        /\ m.childs \in [1 .. SIZE48 -> C \cup {Null}]
        /\ DOMAIN m.keys \subseteq Byte /\ m.size = Cardinality(DOMAIN m.keys) /\ m.size <= SIZE48
    BY <1>6, <1>7, <1>11, <1>14, <1>15
  <2>2. /\ \A c, d \in DOMAIN m.keys : m.keys[c] = m.keys[d] => c = d
        /\ {j \in 1 .. SIZE48 : m.childs[j] # Null} = {m.keys[c] : c \in DOMAIN m.keys}
    BY <1>6, <1>7, <1>12, <1>13
  <2> QED
    BY <1>1, <1>6, <2>1, <2>2, SlottedBuilt
<1>17. Bytes(m) = B \ {b} /\ \A c \in Bytes(m) : Find(m, c) = cs[ks[c]]
  <2>1. \A c \in Bytes(m) : Find(m, c) = m.childs[m.keys[c]]
    BY ONLY <1>16, <1>6, SlottedNode
  <2> QED
    BY <1>6, <1>7, <1>16, <2>1
<1>18. ASSUME NEW c \in B \ {b} PROVE Find(m, c) = Find(n, c)
  BY <1>3, <1>7, <1>9, <1>11, <1>17
<1> QED
  BY <1>6, <1>16, <1>17, <1>18 DEF m, B, Removed

-----------------------------------------------------------------------------
(* Node256 *)
LEMMA DirectNode ==
  ASSUME NEW n, NEW C, LayoutIn(n, C), n.kind = "Node256"
  PROVE  /\ Bytes(n) = DOMAIN n.childs /\ n.childs \in [Bytes(n) -> C]
         /\ \A b \in Bytes(n) : Position(n, b) = b /\ Find(n, b) = n.childs[b] /\ Find(n, b) \in C
<1>1. Bytes(n) = DOMAIN n.childs
  BY DEF Bytes, IsSorted4
<1>2. n.childs \in [Bytes(n) -> C]
  BY DEF LayoutIn, DirectLayout, IsSorted4
<1>3. \A b \in Bytes(n) : Position(n, b) = b
  BY DEF Position, IsSorted4
<1>4. \A b \in Bytes(n) : Find(n, b) = n.childs[b]
  BY <1>3 DEF Find
<1> QED
  BY <1>1, <1>2, <1>3, <1>4

LEMMA DirectBuilt ==
  ASSUME NEW n, NEW C, Null \notin C, IsRecord(n), n.kind = "Node256",
         DOMAIN n.childs \subseteq Byte, n.size = Cardinality(DOMAIN n.childs),
         n.childs \in [DOMAIN n.childs -> C]
  PROVE  LayoutIn(n, C) /\ Bytes(n) = DOMAIN n.childs
<1>1. Bytes(n) = DOMAIN n.childs
  BY DEF Bytes, IsSorted4
<1>2. DirectLayout(n, C)
  BY <1>1 DEF DirectLayout
<1>3. n.kind \in Kinds /\ Capacity(n.kind) = MaxChilds
  BY DEF Kinds, Capacity
<1>4. n.size <= MaxChilds
  BY BytesFinite DEF MaxChilds
<1> QED
  BY <1>1, <1>2, <1>3, <1>4 DEF LayoutIn, IsRecord, IsSorted4

LEMMA InsertDirectIs ==
  ASSUME NEW n, NEW C, LayoutIn(n, C), n.kind = "Node256", NEW b \in Byte \ Bytes(n), NEW child \in C
  PROVE  Inserted(n, b, child, C)
<1> DEFINE B == Bytes(n)
           cs == With(n.childs, b, child)
           m == InsertChild(n, b, child)
<1>1. /\ n.size \in Nat /\ n.size = Cardinality(B) /\ B \subseteq Byte /\ IsRecord(n) /\ Null \notin C
  BY SizeType
<1>2. B = DOMAIN n.childs /\ n.childs \in [B -> C] /\ \A c \in B : Find(n, c) = n.childs[c]
  BY DirectNode
<1>3. m = [kind |-> "Node256", prefix |-> n.prefix, leaf |-> n.leaf, size |-> n.size + 1,
           keys |-> n.keys, childs |-> cs]
  <2>1. m = [[n EXCEPT !.size = @ + 1] EXCEPT !.childs = With(@, b, child)]
    BY DEF InsertChild, InsertDirect, IsSorted4
  <2> HIDE DEF m
  <2> QED
    BY <1>1, <2>1 DEF IsRecord
<1> HIDE DEF m
<1>4. /\ IsRecord(m) /\ m.kind = "Node256" /\ m.prefix = n.prefix /\ m.leaf = n.leaf
      /\ m.size = n.size + 1 /\ m.childs = cs
  BY <1>3 DEF IsRecord
<1>5. /\ DOMAIN cs = B \cup {b} /\ cs[b] = child /\ \A c \in B : cs[c] = n.childs[c]
      /\ cs \in [B \cup {b} -> C]
  BY <1>2 DEF With
<1>6. B \cup {b} \subseteq Byte /\ Cardinality(B \cup {b}) = n.size + 1
  BY <1>1, AddByte
<1> HIDE DEF cs, B
<1>7. LayoutIn(m, C) /\ Bytes(m) = DOMAIN m.childs
  BY <1>1, <1>4, <1>5, <1>6, DirectBuilt
<1>8. \A c \in Bytes(m) : Find(m, c) = m.childs[c]
  BY ONLY <1>4, <1>7, DirectNode
<1>9. Bytes(m) = B \cup {b} /\ Find(m, b) = child /\ \A c \in B : Find(m, c) = Find(n, c)
  BY <1>2, <1>4, <1>5, <1>7, <1>8
<1> QED
  BY <1>4, <1>7, <1>9 DEF m, B, Inserted

LEMMA RemoveDirectIs ==
  ASSUME NEW n, NEW C, LayoutIn(n, C), n.kind = "Node256", NEW b \in Bytes(n)
  PROVE  Removed(n, b, C)
<1> DEFINE B == Bytes(n)
           cs == Minus(n.childs, b)
           m == RemoveChild(n, b)
<1>1. /\ n.size \in Nat /\ n.size = Cardinality(B) /\ B \subseteq Byte /\ IsRecord(n) /\ Null \notin C
  BY SizeType
<1>2. B = DOMAIN n.childs /\ n.childs \in [B -> C] /\ \A c \in B : Find(n, c) = n.childs[c]
  BY DirectNode
<1>3. m = [kind |-> "Node256", prefix |-> n.prefix, leaf |-> n.leaf, size |-> n.size - 1,
           keys |-> n.keys, childs |-> cs]
  <2>1. m = [[n EXCEPT !.size = @ - 1] EXCEPT !.childs = Minus(@, b)]
    BY DEF RemoveChild, RemoveDirect, IsSorted4
  <2> HIDE DEF m
  <2> QED
    BY <1>1, <2>1 DEF IsRecord
<1> HIDE DEF m
<1>4. /\ IsRecord(m) /\ m.kind = "Node256" /\ m.prefix = n.prefix /\ m.leaf = n.leaf
      /\ m.size = n.size - 1 /\ m.childs = cs
  BY <1>3 DEF IsRecord
<1>5. /\ DOMAIN cs = B \ {b} /\ \A c \in B \ {b} : cs[c] = n.childs[c]
      /\ cs \in [B \ {b} -> C]
  BY <1>2 DEF Minus
<1>6. B \ {b} \subseteq Byte /\ Cardinality(B \ {b}) = n.size - 1
  BY <1>1, RemoveByte
<1> HIDE DEF cs, B
<1>7. LayoutIn(m, C) /\ Bytes(m) = DOMAIN m.childs
  BY <1>1, <1>4, <1>5, <1>6, DirectBuilt
<1>8. \A c \in Bytes(m) : Find(m, c) = m.childs[c]
  BY ONLY <1>4, <1>7, DirectNode
<1>9. Bytes(m) = B \ {b} /\ \A c \in B \ {b} : Find(m, c) = Find(n, c)
  BY <1>2, <1>4, <1>5, <1>7, <1>8
<1> QED
  BY <1>4, <1>7, <1>9 DEF m, B, Removed

-----------------------------------------------------------------------------
(* The child of a byte replaced *)
Replaced(n, b, child, C) ==
  LET m == SetChild(n, b, child) IN
  /\ LayoutIn(m, C) /\ m.kind = n.kind /\ m.prefix = n.prefix /\ m.leaf = n.leaf
  /\ m.size = n.size /\ Bytes(m) = Bytes(n)
  /\ Find(m, b) = child /\ \A c \in Bytes(n) \ {b} : Find(m, c) = Find(n, c)

LEMMA SetRecord ==
  ASSUME NEW n, IsRecord(n), NEW b, NEW child
  PROVE  LET m == SetChild(n, b, child) IN
         /\ IsRecord(m) /\ m.kind = n.kind /\ m.prefix = n.prefix /\ m.leaf = n.leaf
         /\ m.size = n.size /\ m.keys = n.keys
         /\ m.childs = [n.childs EXCEPT ![Position(n, b)] = child]
<1> DEFINE m == SetChild(n, b, child)
           p == Position(n, b)
<1>1. m = [n EXCEPT !.childs[p] = child]
  BY DEF SetChild
<1> HIDE DEF m, p
<1>2. m = [kind |-> n.kind, prefix |-> n.prefix, leaf |-> n.leaf, size |-> n.size,
           keys |-> n.keys, childs |-> [n.childs EXCEPT ![p] = child]]
  BY <1>1 DEF IsRecord
<1> QED
  BY <1>2 DEF m, p, IsRecord

LEMMA SetSortedIs ==
  ASSUME NEW n, NEW C, LayoutIn(n, C), IsSorted4(n), NEW b \in Bytes(n), NEW child \in C
  PROVE  Replaced(n, b, child, C)
<1> DEFINE m == SetChild(n, b, child)
<1>1. PICK L \in Nat : L = n.size
  BY SizeType
<1>2. /\ n.keys \in Seq(Byte) /\ Sorted(n.keys) /\ n.childs \in Seq(C)
      /\ Len(n.keys) = L /\ Len(n.childs) = L
      /\ Bytes(n) = {n.keys[j] : j \in 1 .. L}
      /\ \A j \in 1 .. L : /\ Find(n, n.keys[j]) = n.childs[j] /\ n.keys[j] \in Bytes(n)
                           /\ Position(n, n.keys[j]) = j
  BY <1>1, SortedNode
<1>3. Null \notin C /\ IsRecord(n) /\ n.size <= Capacity(n.kind)
  BY SizeType
<1>4. PICK p \in 1 .. L : b = n.keys[p] /\ Position(n, b) = p
  BY <1>2
<1>5. /\ IsRecord(m) /\ m.kind = n.kind /\ m.prefix = n.prefix /\ m.leaf = n.leaf
      /\ m.size = L /\ m.keys = n.keys /\ m.childs = [n.childs EXCEPT ![p] = child]
  BY <1>1, <1>3, <1>4, SetRecord
<1> HIDE DEF m
<1>6. /\ m.childs \in Seq(C) /\ Len(m.childs) = L /\ m.childs[p] = child
      /\ \A j \in 1 .. L : j # p => m.childs[j] = n.childs[j]
  BY <1>2, <1>5
<1>7. IsSorted4(m)
  BY <1>5 DEF IsSorted4
<1>8. LayoutIn(m, C)
  BY <1>1, <1>2, <1>3, <1>5, <1>6, <1>7, SortedBuilt
<1>9. /\ Bytes(m) = {m.keys[j] : j \in 1 .. m.size}
      /\ \A j \in 1 .. m.size : Find(m, m.keys[j]) = m.childs[j]
  BY ONLY <1>7, <1>8, SortedNode
<1>10. Bytes(m) = Bytes(n) /\ \A j \in 1 .. L : Find(m, n.keys[j]) = m.childs[j]
  BY <1>2, <1>5, <1>9
<1>11. Find(m, b) = child
  BY <1>4, <1>6, <1>10
<1>12. ASSUME NEW c \in Bytes(n) \ {b} PROVE Find(m, c) = Find(n, c)
  <2>1. PICK j \in 1 .. L : c = n.keys[j]
    BY <1>2
  <2>2. j # p
    BY <1>4, <2>1
  <2> QED
    BY <1>2, <1>6, <1>10, <2>1, <2>2
<1> QED
  BY <1>1, <1>5, <1>8, <1>10, <1>11, <1>12 DEF m, Replaced

LEMMA SetSlottedIs ==
  ASSUME NEW n, NEW C, LayoutIn(n, C), n.kind = "Node48", NEW b \in Bytes(n), NEW child \in C
  PROVE  Replaced(n, b, child, C)
<1> DEFINE m == SetChild(n, b, child)
           i == n.keys[b]
           B == Bytes(n)
<1>1. /\ n.size = Cardinality(B) /\ B \subseteq Byte /\ IsRecord(n) /\ Null \notin C
      /\ n.size <= Capacity(n.kind)
  BY SizeType
<1>2. n.size <= SIZE48
  BY <1>1 DEF Capacity
<1>3. B = DOMAIN n.keys /\ SlottedLayout(n, C) /\ Position(n, b) = i
      /\ \A c \in B : n.keys[c] \in 1 .. SIZE48 /\ Find(n, c) = n.childs[n.keys[c]]
  BY SlottedNode
<1>4. /\ n.keys \in [B -> 1 .. SIZE48] /\ n.childs \in [1 .. SIZE48 -> C \cup {Null}]
      /\ \A c, d \in B : n.keys[c] = n.keys[d] => c = d
      /\ {j \in 1 .. SIZE48 : n.childs[j] # Null} = {n.keys[c] : c \in B}
  BY <1>3 DEF SlottedLayout
<1>5. /\ IsRecord(m) /\ m.kind = "Node48" /\ m.prefix = n.prefix /\ m.leaf = n.leaf
      /\ m.size = n.size /\ m.keys = n.keys /\ m.childs = [n.childs EXCEPT ![i] = child]
  BY <1>1, <1>3, SetRecord
<1>6. i \in 1 .. SIZE48 /\ b \in B /\ n.childs[i] # Null
  BY <1>3, <1>4
<1>7. \A c \in B \ {b} : n.keys[c] # i
  BY <1>4
<1> HIDE DEF m, i, B
<1>8. /\ m.childs \in [1 .. SIZE48 -> C \cup {Null}] /\ m.childs[i] = child
      /\ \A j \in 1 .. SIZE48 : j # i => m.childs[j] = n.childs[j]
  BY <1>4, <1>5, <1>6
<1>9. {j \in 1 .. SIZE48 : m.childs[j] # Null} = {n.keys[c] : c \in B}
  <2>1. \A j \in 1 .. SIZE48 : m.childs[j] # Null <=> n.childs[j] # Null
    BY <1>1, <1>6, <1>8
  <2> QED
    BY <1>4, <2>1
<1>10. LayoutIn(m, C) /\ Bytes(m) = DOMAIN m.keys
  <2>1. /\ DOMAIN m.keys = B /\ m.keys \in [DOMAIN m.keys -> 1 .. SIZE48]
        /\ DOMAIN m.keys \subseteq Byte /\ m.size = Cardinality(DOMAIN m.keys) /\ m.size <= SIZE48
    BY <1>1, <1>2, <1>3, <1>4, <1>5
  <2>2. /\ \A c, d \in DOMAIN m.keys : m.keys[c] = m.keys[d] => c = d
        /\ {j \in 1 .. SIZE48 : m.childs[j] # Null} = {m.keys[c] : c \in DOMAIN m.keys}
    BY <1>4, <1>5, <1>9, <2>1
  <2> QED
    BY <1>1, <1>5, <1>8, <2>1, <2>2, SlottedBuilt
<1>11. \A c \in Bytes(m) : Find(m, c) = m.childs[m.keys[c]]
  BY ONLY <1>5, <1>10, SlottedNode
<1>12. Bytes(m) = B /\ \A c \in B : Find(m, c) = m.childs[n.keys[c]]
  BY <1>3, <1>5, <1>10, <1>11
<1>13. Find(m, b) = child
  BY <1>6, <1>8, <1>12 DEF i
<1>14. \A c \in B \ {b} : Find(m, c) = Find(n, c)
  BY <1>3, <1>7, <1>8, <1>12
<1> QED
  BY <1>5, <1>10, <1>12, <1>13, <1>14 DEF m, B, Replaced

LEMMA SetDirectIs ==
  ASSUME NEW n, NEW C, LayoutIn(n, C), n.kind = "Node256", NEW b \in Bytes(n), NEW child \in C
  PROVE  Replaced(n, b, child, C)
<1> DEFINE m == SetChild(n, b, child)
           B == Bytes(n)
<1>1. /\ n.size = Cardinality(B) /\ B \subseteq Byte /\ IsRecord(n) /\ Null \notin C
  BY SizeType
<1>2. /\ B = DOMAIN n.childs /\ n.childs \in [B -> C] /\ Position(n, b) = b
      /\ \A c \in B : Find(n, c) = n.childs[c]
  BY DirectNode
<1>3. /\ IsRecord(m) /\ m.kind = "Node256" /\ m.prefix = n.prefix /\ m.leaf = n.leaf
      /\ m.size = n.size /\ m.childs = [n.childs EXCEPT ![b] = child]
  BY <1>1, <1>2, SetRecord
<1>4. b \in B
  OBVIOUS
<1> HIDE DEF m, B
<1>5. /\ DOMAIN m.childs = B /\ m.childs \in [B -> C] /\ m.childs[b] = child
      /\ \A c \in B \ {b} : m.childs[c] = n.childs[c]
  BY <1>2, <1>3, <1>4
<1>6. LayoutIn(m, C) /\ Bytes(m) = DOMAIN m.childs
  BY <1>1, <1>3, <1>5, DirectBuilt
<1>7. \A c \in Bytes(m) : Find(m, c) = m.childs[c]
  BY ONLY <1>3, <1>6, DirectNode
<1> QED
  BY <1>2, <1>3, <1>4, <1>5, <1>6, <1>7 DEF m, B, Replaced

-----------------------------------------------------------------------------
(* The bytes of a set in order: the byte of rank r has r bytes below it.   *)
Below(B, b) == {c \in B : c < b}
Rank(B, b) == Cardinality(Below(B, b))

LEMMA RankMonotone ==
  ASSUME NEW B \in SUBSET Byte, NEW b \in B
  PROVE  /\ Rank(B, b) \in 0 .. Cardinality(B) - 1
         /\ \A c \in B : b < c => Rank(B, b) < Rank(B, c)
<1>1. B \subseteq Int /\ IsFiniteSet(B) /\ Cardinality(B) \in Nat
  BY BytesFinite DEF Byte, MaxChilds
<1>2. ASSUME NEW T \in SUBSET B, Below(B, b) \subseteq T, b \in T
      PROVE  Rank(B, b) \in Nat /\ Cardinality(T) \in Nat /\ Rank(B, b) < Cardinality(T)
  <2>1. IsFiniteSet(T) /\ Cardinality(T) \in Nat
    BY <1>1, FS_Subset, FS_CardinalityType
  <2>2. ~(b < b)
    BY <1>1
  <2>3. Below(B, b) # T
    BY <1>2, <2>2 DEF Below
  <2>4. IsFiniteSet(Below(B, b)) /\ Rank(B, b) <= Cardinality(T) /\ Rank(B, b) # Cardinality(T)
    BY <1>2, <2>1, <2>3, FS_Subset DEF Rank
  <2>5. Rank(B, b) \in Nat
    BY <2>4, FS_CardinalityType DEF Rank
  <2> QED
    BY <2>1, <2>4, <2>5
<1>3. Rank(B, b) \in Nat /\ Rank(B, b) < Cardinality(B)
  <2>1. Below(B, b) \subseteq B
    BY DEF Below
  <2> QED
    BY <1>2, <2>1
<1>4. ASSUME NEW c \in B, b < c PROVE Rank(B, b) < Rank(B, c)
  <2>1. Below(B, c) \subseteq B /\ b \in Below(B, c)
    BY <1>4 DEF Below
  <2>2. Below(B, b) \subseteq Below(B, c)
    <3>1. \A x \in B : x < b => x < c
      BY <1>1, <1>4
    <3> QED
      BY <3>1 DEF Below
  <2> QED
    BY <1>2, <2>1, <2>2 DEF Rank
<1> QED
  BY <1>1, <1>3, <1>4

LEMMA RankExists ==
  ASSUME NEW B \in SUBSET Byte, NEW r \in 0 .. Cardinality(B) - 1
  PROVE  \E b \in B : Rank(B, b) = r
<1> DEFINE f == [b \in B |-> Rank(B, b)]
           T == 0 .. Cardinality(B) - 1
<1>1. B \subseteq Int /\ IsFiniteSet(B) /\ Cardinality(B) \in Nat
  BY BytesFinite DEF Byte, MaxChilds
<1>2. f \in [B -> T]
  BY RankMonotone
<1>3. ASSUME NEW b \in B, NEW c \in B, f[b] = f[c] PROVE b = c
  <2>1. Rank(B, b) = Rank(B, c) /\ Rank(B, b) \in Int
    BY <1>3, RankMonotone
  <2>2. ~(b < c) /\ ~(c < b)
    BY <2>1, RankMonotone
  <2> QED
    BY <1>1, <2>2
<1>4. f \in Injection(B, T)
  <2> HIDE DEF f, T
  <2> QED
    BY <1>2, <1>3 DEF Injection, IsInjective
<1>5. IsFiniteSet(T) /\ Cardinality(T) = Cardinality(B)
  <2>1. PICK k \in Int : k = Cardinality(B) - 1
    BY <1>1
  <2>2. IsFiniteSet(0 .. k) /\ Cardinality(0 .. k) = IF 0 > k THEN 0 ELSE k - 0 + 1
    BY FS_Interval
  <2> QED
    BY <1>1, <2>1, <2>2
<1>6. f \in Surjection(B, T)
  <2> HIDE DEF f, T
  <2> QED
    BY <1>4, <1>5, FS_Injection
<1>7. \E b \in B : f[b] = r
  <2> HIDE DEF f
  <2> QED
    BY <1>6 DEF Surjection
<1> QED
  BY <1>7

LEMMA SortedBytesIs ==
  ASSUME NEW n, Bytes(n) \subseteq Byte, n.size = Cardinality(Bytes(n))
  PROVE  /\ SortedBytes(n) \in Seq(Byte) /\ Len(SortedBytes(n)) = n.size /\ Sorted(SortedBytes(n))
         /\ Bytes(n) = {SortedBytes(n)[i] : i \in 1 .. n.size}
<1> DEFINE B == Bytes(n)
           ks == SortedBytes(n)
<1>1. PICK L \in Nat : L = n.size /\ L = Cardinality(B)
  BY BytesFinite
<1>2. ASSUME NEW i \in 1 .. L PROVE ks[i] \in B /\ Rank(B, ks[i]) = i - 1
  <2>1. ks[i] = CHOOSE b \in B : Rank(B, b) = i - 1
    BY <1>1 DEF SortedBytes, Rank, Below
  <2>2. i - 1 \in 0 .. Cardinality(B) - 1
    BY <1>1
  <2> HIDE DEF ks, B
  <2>3. \E b \in B : Rank(B, b) = i - 1
    BY <2>2, RankExists DEF B
  <2> QED
    BY <2>1, <2>3
<1>3. ks = [i \in 1 .. L |-> ks[i]]
  BY <1>1 DEF SortedBytes
<1>4. B \subseteq Byte /\ B \subseteq Int
  BY DEF Byte, MaxChilds
<1> HIDE DEF ks, B
<1>5. ks \in Seq(Byte) /\ Len(ks) = L
  <2>1. \A i \in 1 .. L : ks[i] \in Byte
    BY <1>2, <1>4
  <2> QED
    BY <1>1, <1>3, <2>1
<1>6. ASSUME NEW i \in 1 .. L, NEW j \in 1 .. L, i < j PROVE ks[i] < ks[j]
  <2>1. ks[i] \in B /\ ks[j] \in B /\ Rank(B, ks[i]) = i - 1 /\ Rank(B, ks[j]) = j - 1
    BY <1>2
  <2>2. ks[j] < ks[i] => Rank(B, ks[j]) < Rank(B, ks[i])
    BY <1>4, <2>1, RankMonotone
  <2>3. ~(ks[j] < ks[i])
    BY <1>6, <2>1, <2>2
  <2>4. ks[i] # ks[j]
    BY <1>6, <2>1
  <2>5. ks[i] \in Int /\ ks[j] \in Int
    BY <1>4, <2>1
  <2> QED
    BY <2>3, <2>4, <2>5
<1>7. Sorted(ks)
  BY <1>5, <1>6 DEF Sorted
<1>8. ASSUME NEW b \in B PROVE \E i \in 1 .. L : b = ks[i]
  <2>1. Rank(B, b) \in 0 .. L - 1
    BY <1>1, <1>4, RankMonotone
  <2>2. PICK i \in 1 .. L : i = Rank(B, b) + 1
    BY <2>1
  <2>3. ks[i] \in B /\ Rank(B, ks[i]) = Rank(B, b)
    BY <1>2, <2>1, <2>2
  <2>4. ~(b < ks[i]) /\ ~(ks[i] < b)
    <3>1. Rank(B, b) \in Int
      BY <2>1
    <3>2. b < ks[i] => Rank(B, b) < Rank(B, ks[i])
      BY <1>4, <2>3, RankMonotone
    <3>3. ks[i] < b => Rank(B, ks[i]) < Rank(B, b)
      BY <1>4, <2>3, RankMonotone
    <3> QED
      BY <2>3, <3>1, <3>2, <3>3
  <2>5. b \in Int /\ ks[i] \in Int
    BY <1>4, <2>3
  <2> QED
    BY <2>4, <2>5
<1>9. B = {ks[i] : i \in 1 .. L}
  BY <1>2, <1>8
<1> QED
  BY <1>1, <1>5, <1>7, <1>9 DEF ks, B

-----------------------------------------------------------------------------
(* The conversions: m is n in layout kind. *)
Converted(n, m, kind, C) ==
  /\ LayoutIn(m, C) /\ m.kind = kind /\ m.prefix = n.prefix /\ m.leaf = n.leaf
  /\ m.size = n.size /\ Bytes(m) = Bytes(n) /\ \A c \in Bytes(n) : Find(m, c) = Find(n, c)

LEMMA FindIn ==
  ASSUME NEW n, NEW C, LayoutIn(n, C), NEW b \in Bytes(n)
  PROVE  Find(n, b) \in C
<1>1. CASE IsSorted4(n)
  <2>1. PICK i \in 1 .. n.size : b = n.keys[i]
    BY <1>1, SortedNode
  <2> QED
    BY <1>1, <2>1, SortedNode
<1>2. CASE n.kind = "Node48"
  BY <1>2, SlottedNode
<1>3. CASE n.kind = "Node256"
  BY <1>3, DirectNode
<1> QED
  BY <1>1, <1>2, <1>3, SizeType, KindCases

LEMMA ToSortedIs ==
  ASSUME NEW n, NEW C, LayoutIn(n, C), NEW kind \in {"Node4", "Node16"}, n.size <= Capacity(kind)
  PROVE  Converted(n, ToSorted(n, kind), kind, C)
<1> DEFINE m == ToSorted(n, kind)
           ks == SortedBytes(n)
           cs == [i \in DOMAIN ks |-> Find(n, ks[i])]
<1>1. /\ n.size = Cardinality(Bytes(n)) /\ Bytes(n) \subseteq Byte /\ IsRecord(n) /\ Null \notin C
  BY SizeType
<1>2. PICK L \in Nat : L = n.size
  BY SizeType
<1>3. m = [kind |-> kind, prefix |-> n.prefix, leaf |-> n.leaf, size |-> n.size,
           keys |-> ks, childs |-> cs]
  <2>1. m = [n EXCEPT !.kind = kind, !.keys = ks, !.childs = cs]
    BY DEF ToSorted
  <2> HIDE DEF m, ks, cs
  <2> QED
    BY <1>1, <2>1 DEF IsRecord
<1>4. /\ ks \in Seq(Byte) /\ Len(ks) = L /\ Sorted(ks)
      /\ Bytes(n) = {ks[i] : i \in 1 .. L}
  BY <1>1, <1>2, SortedBytesIs
<1>5. cs = [i \in 1 .. L |-> Find(n, ks[i])]
  BY <1>4
<1> HIDE DEF m, ks, cs
<1>6. cs \in Seq(C) /\ Len(cs) = L /\ \A i \in 1 .. L : cs[i] = Find(n, ks[i])
  <2>1. \A i \in 1 .. L : Find(n, ks[i]) \in C
    BY <1>4, FindIn
  <2> QED
    BY <1>5, <2>1
<1>7. /\ IsRecord(m) /\ m.kind = kind /\ m.prefix = n.prefix /\ m.leaf = n.leaf
      /\ m.size = L /\ m.keys = ks /\ m.childs = cs
  BY <1>2, <1>3 DEF IsRecord
<1>8. IsSorted4(m)
  BY <1>7 DEF IsSorted4
<1>9. LayoutIn(m, C)
  BY <1>1, <1>2, <1>4, <1>6, <1>7, <1>8, SortedBuilt
<1>10. /\ Bytes(m) = {m.keys[j] : j \in 1 .. m.size}
       /\ \A j \in 1 .. m.size : Find(m, m.keys[j]) = m.childs[j]
  BY ONLY <1>8, <1>9, SortedNode
<1>11. Bytes(m) = Bytes(n)
  BY <1>4, <1>7, <1>10
<1>12. ASSUME NEW c \in Bytes(n) PROVE Find(m, c) = Find(n, c)
  <2>1. PICK i \in 1 .. L : c = ks[i]
    BY <1>4
  <2> QED
    BY <1>6, <1>7, <1>10, <2>1
<1> QED
  BY <1>2, <1>7, <1>9, <1>11, <1>12 DEF m, Converted

LEMMA To48Is ==
  ASSUME NEW n, NEW C, LayoutIn(n, C), IsSorted4(n)
  PROVE  Converted(n, To48(n), "Node48", C)
<1> DEFINE m == To48(n)
           B == Bytes(n)
           ks == [b \in B |-> LowerBound(n.keys, b)]
           cs == [i \in 1 .. SIZE48 |-> IF i <= n.size THEN n.childs[i] ELSE Null]
<1>1. /\ n.size = Cardinality(B) /\ B \subseteq Byte /\ IsRecord(n) /\ Null \notin C
  BY SizeType
<1>2. PICK L \in Nat : L = n.size /\ L <= SIZE48
  <2>1. n.size \in Nat /\ n.size <= SIZE16
    BY SizeType, SizeAssumption DEF Capacity, IsSorted4
  <2> QED
    BY <2>1, SizeAssumption
<1>3. /\ n.keys \in Seq(Byte) /\ Sorted(n.keys) /\ n.childs \in Seq(C)
      /\ Len(n.keys) = L /\ Len(n.childs) = L
      /\ B = {n.keys[j] : j \in 1 .. L}
      /\ \A j \in 1 .. L : /\ Find(n, n.keys[j]) = n.childs[j] /\ n.keys[j] \in B
                           /\ n.childs[j] \in C
  BY <1>2, SortedNode
<1>4. m = [kind |-> "Node48", prefix |-> n.prefix, leaf |-> n.leaf, size |-> n.size,
           keys |-> ks, childs |-> cs]
  <2>1. m = [n EXCEPT !.kind = "Node48", !.keys = ks, !.childs = cs]
    BY DEF To48
  <2> HIDE DEF m, ks, cs
  <2> QED
    BY <1>1, <2>1 DEF IsRecord
<1> HIDE DEF m
<1>5. /\ IsRecord(m) /\ m.kind = "Node48" /\ m.prefix = n.prefix /\ m.leaf = n.leaf
      /\ m.size = L /\ m.keys = ks /\ m.childs = cs
  BY <1>2, <1>4 DEF IsRecord
<1>6. \A j \in 1 .. L : LowerBound(n.keys, n.keys[j]) = j
  BY <1>3, LowerBoundAt
<1> HIDE DEF B
<1>7. DOMAIN ks = B /\ \A j \in 1 .. L : ks[n.keys[j]] = j
  BY <1>3, <1>6
<1>8. /\ \A i \in 1 .. L : i \in 1 .. SIZE48 /\ cs[i] = n.childs[i]
      /\ \A i \in 1 .. SIZE48 : i \notin 1 .. L => cs[i] = Null
      /\ cs \in [1 .. SIZE48 -> C \cup {Null}]
  <2>1. \A i \in 1 .. L : i \in 1 .. SIZE48 /\ i <= n.size
    BY <1>2, SizeAssumption
  <2>2. \A i \in 1 .. SIZE48 : i <= n.size <=> i \in 1 .. L
    BY <1>2, SizeAssumption
  <2> QED
    BY <1>3, <2>1, <2>2
<1> HIDE DEF ks, cs
<1>9. ks \in [B -> 1 .. SIZE48]
  <2>1. \A b \in B : ks[b] \in 1 .. SIZE48
    BY <1>3, <1>7, <1>8
  <2>2. ks = [b \in B |-> ks[b]]
    BY <1>7 DEF ks
  <2> QED
    BY <2>1, <2>2
<1>10. \A b, c \in B : ks[b] = ks[c] => b = c
  BY <1>3, <1>7
<1>11. {i \in 1 .. SIZE48 : cs[i] # Null} = {ks[b] : b \in B}
  <2>1. ASSUME NEW i \in 1 .. SIZE48, cs[i] # Null PROVE \E b \in B : i = ks[b]
    <3>1. i \in 1 .. L
      BY <1>8, <2>1
    <3> QED
      BY <1>3, <1>7, <3>1
  <2>2. ASSUME NEW b \in B PROVE ks[b] \in 1 .. SIZE48 /\ cs[ks[b]] # Null
    <3>1. PICK i \in 1 .. L : b = n.keys[i]
      BY <1>3
    <3> QED
      BY <1>1, <1>3, <1>7, <1>8, <3>1
  <2> QED
    BY <2>1, <2>2
<1>12. LayoutIn(m, C) /\ Bytes(m) = DOMAIN m.keys
  <2>1. /\ DOMAIN m.keys = B /\ m.keys \in [DOMAIN m.keys -> 1 .. SIZE48]
        /\ m.childs \in [1 .. SIZE48 -> C \cup {Null}]
        /\ DOMAIN m.keys \subseteq Byte /\ m.size = Cardinality(DOMAIN m.keys) /\ m.size <= SIZE48
    BY <1>1, <1>2, <1>5, <1>7, <1>8, <1>9
  <2>2. /\ \A c, d \in DOMAIN m.keys : m.keys[c] = m.keys[d] => c = d
        /\ {j \in 1 .. SIZE48 : m.childs[j] # Null} = {m.keys[c] : c \in DOMAIN m.keys}
    BY <1>5, <1>7, <1>10, <1>11
  <2> QED
    BY <1>1, <1>5, <2>1, <2>2, SlottedBuilt
<1>13. \A c \in Bytes(m) : Find(m, c) = m.childs[m.keys[c]]
  BY ONLY <1>12, <1>5, SlottedNode
<1>14. Bytes(m) = B /\ \A c \in B : Find(m, c) = cs[ks[c]]
  BY <1>5, <1>7, <1>12, <1>13
<1>15. ASSUME NEW c \in B PROVE Find(m, c) = Find(n, c)
  <2>1. PICK i \in 1 .. L : c = n.keys[i]
    BY <1>3
  <2> QED
    BY <1>3, <1>7, <1>8, <1>14, <2>1
<1> QED
  BY <1>2, <1>5, <1>12, <1>14, <1>15 DEF m, B, Converted

LEMMA To256Is ==
  ASSUME NEW n, NEW C, LayoutIn(n, C)
  PROVE  Converted(n, To256(n), "Node256", C)
<1> DEFINE m == To256(n)
           B == Bytes(n)
           cs == [b \in B |-> Find(n, b)]
<1>1. /\ n.size = Cardinality(B) /\ B \subseteq Byte /\ IsRecord(n) /\ Null \notin C
  BY SizeType
<1>2. m = [kind |-> "Node256", prefix |-> n.prefix, leaf |-> n.leaf, size |-> n.size,
           keys |-> <<>>, childs |-> cs]
  <2>1. m = [n EXCEPT !.kind = "Node256", !.keys = <<>>, !.childs = cs]
    BY DEF To256
  <2> HIDE DEF m, cs
  <2> QED
    BY <1>1, <2>1 DEF IsRecord
<1> HIDE DEF m
<1>3. /\ IsRecord(m) /\ m.kind = "Node256" /\ m.prefix = n.prefix /\ m.leaf = n.leaf
      /\ m.size = n.size /\ m.childs = cs
  BY <1>2 DEF IsRecord
<1>4. cs \in [B -> C] /\ DOMAIN cs = B /\ \A c \in B : cs[c] = Find(n, c)
  BY FindIn
<1> HIDE DEF cs, B
<1>5. LayoutIn(m, C) /\ Bytes(m) = DOMAIN m.childs
  BY <1>1, <1>3, <1>4, DirectBuilt
<1>6. \A c \in Bytes(m) : Find(m, c) = m.childs[c]
  BY ONLY <1>3, <1>5, DirectNode
<1> QED
  BY <1>3, <1>4, <1>5, <1>6 DEF m, B, Converted

-----------------------------------------------------------------------------
(* The set the children are taken from can grow, and shrink to the         *)
(* children themselves.                                                    *)
LEMMA Widen ==
  ASSUME NEW n, NEW C, LayoutIn(n, C), NEW D, C \subseteq D, Null \notin D
  PROVE  LayoutIn(n, D)
<1>1. n.kind \in Kinds
  BY SizeType
<1>2. IsSorted4(n) => SortedLayout(n, D)
  <2>1. SUFFICES ASSUME IsSorted4(n) PROVE SortedLayout(n, D)
    OBVIOUS
  <2>2. SortedLayout(n, C)
    BY <2>1 DEF LayoutIn, IsSorted4
  <2>3. n.childs \in Seq(D)
    BY <2>2 DEF SortedLayout
  <2> QED
    BY <2>2, <2>3 DEF SortedLayout
<1>3. n.kind = "Node48" => SlottedLayout(n, D)
  <2>1. SUFFICES ASSUME n.kind = "Node48" PROVE SlottedLayout(n, D)
    OBVIOUS
  <2>2. SlottedLayout(n, C)
    BY <2>1 DEF LayoutIn, IsSorted4
  <2> QED
    BY <2>2 DEF SlottedLayout
<1>4. n.kind = "Node256" => DirectLayout(n, D)
  BY DEF LayoutIn, DirectLayout, IsSorted4
<1>5. CASE n.kind \in {"Node4", "Node16"}
  BY <1>2, <1>5 DEF LayoutIn, IsSorted4
<1>6. CASE n.kind = "Node48"
  BY <1>3, <1>6 DEF LayoutIn, IsSorted4
<1>7. CASE n.kind = "Node256"
  BY <1>4, <1>7 DEF LayoutIn, IsSorted4
<1> QED
  BY <1>1, <1>5, <1>6, <1>7 DEF Kinds

LEMMA Tighten ==
  ASSUME NEW n, NEW C, LayoutIn(n, C)
  PROVE  LayoutOK(n)
<1> DEFINE D == Childs(n)
<1>1. n.kind \in Kinds /\ Null \notin C
  BY SizeType
<1>2. Null \notin D /\ \A b \in Bytes(n) : Find(n, b) \in D
  BY <1>1, FindIn DEF Childs
<1> HIDE DEF D
<1>3. CASE n.kind \in {"Node4", "Node16"}
  <2>1. IsSorted4(n)
    BY <1>3 DEF IsSorted4
  <2>2. SortedLayout(n, C)
    BY <1>3 DEF LayoutIn, IsSorted4
  <2>3. \A i \in 1 .. n.size : n.childs[i] \in D
    BY <1>2, <2>1, SortedNode
  <2>4. n.childs \in Seq(C) /\ Len(n.childs) = n.size
    BY <2>2 DEF SortedLayout
  <2>5. n.childs \in Seq(D)
    BY <2>3, <2>4
  <2>6. SortedLayout(n, D)
    BY <2>2, <2>5 DEF SortedLayout
  <2>7. LayoutIn(n, D)
    BY <1>2, <1>3, <2>6 DEF LayoutIn, IsSorted4
  <2> QED
    BY <2>7 DEF LayoutOK, D
<1>4. CASE n.kind = "Node48"
  <2>1. /\ n.childs \in [1 .. SIZE48 -> C \cup {Null}]
        /\ {i \in 1 .. SIZE48 : n.childs[i] # Null} = {n.keys[b] : b \in Bytes(n)}
    BY <1>4, SlottedNode DEF SlottedLayout
  <2>2. ASSUME NEW i \in 1 .. SIZE48 PROVE n.childs[i] \in D \cup {Null}
    <3>1. SUFFICES ASSUME n.childs[i] # Null PROVE n.childs[i] \in D
      OBVIOUS
    <3>2. PICK b \in Bytes(n) : i = n.keys[b]
      BY <2>1, <3>1
    <3>3. Find(n, b) = n.childs[i]
      BY <1>4, <3>2, SlottedNode
    <3> QED
      BY <1>2, <3>3
  <2>3. n.childs \in [1 .. SIZE48 -> D \cup {Null}]
    BY <2>1, <2>2
  <2>4. SlottedLayout(n, D)
    BY <1>4, <2>3, SlottedNode DEF SlottedLayout
  <2>5. LayoutIn(n, D)
    BY <1>2, <1>4, <2>4 DEF LayoutIn, IsSorted4
  <2> QED
    BY <2>5 DEF LayoutOK, D
<1>5. CASE n.kind = "Node256"
  <2>1. n.childs \in [Bytes(n) -> C] /\ \A b \in Bytes(n) : n.childs[b] \in D
    BY <1>2, <1>5, DirectNode
  <2>2. DirectLayout(n, D)
    BY <2>1 DEF DirectLayout
  <2>3. LayoutIn(n, D)
    BY <1>2, <1>5, <2>2 DEF LayoutIn, IsSorted4
  <2> QED
    BY <2>3 DEF LayoutOK, D
<1> QED
  BY <1>1, <1>3, <1>4, <1>5 DEF Kinds

LEMMA WithChild ==
  ASSUME NEW n, LayoutOK(n), NEW child, child # Null
  PROVE  LayoutIn(n, Childs(n) \cup {child})
<1>1. LayoutIn(n, Childs(n)) /\ Null \notin Childs(n)
  BY SizeType DEF LayoutOK
<1> QED
  BY <1>1, Widen

-----------------------------------------------------------------------------
(* A new node of any kind is in order, has no children and no leaf. *)
THEOREM NewExact ==
  ASSUME NEW kind \in Kinds, NEW prefix
  PROVE  LET m == NewNode(kind, prefix) IN
         LayoutOK(m) /\ Bytes(m) = {} /\ ~IsFull(m) /\ m.kind = kind /\ m.leaf = Null
<1> DEFINE m == NewNode(kind, prefix)
<1>1. /\ m = [kind |-> kind, prefix |-> prefix, leaf |-> Null, size |-> 0,
              keys |-> <<>>, childs |-> EmptyChilds(kind)]
  BY DEF NewNode
<1> HIDE DEF m
<1>2. /\ IsRecord(m) /\ m.kind = kind /\ m.leaf = Null /\ m.size = 0
      /\ m.keys = <<>> /\ m.childs = EmptyChilds(kind)
  BY <1>1 DEF IsRecord
<1>3. Capacity(kind) \in Nat /\ Capacity(kind) # 0
  BY SizeAssumption DEF Kinds, Capacity, MaxChilds
<1>4. Cardinality({}) = 0 /\ {} \subseteq Byte
  BY FS_EmptySet
<1>5. CASE kind \in {"Node4", "Node16"}
  <2>1. IsSorted4(m) /\ m.childs = <<>>
    BY <1>2, <1>5 DEF IsSorted4, EmptyChilds
  <2>2. /\ m.keys \in Seq(Byte) /\ Sorted(m.keys) /\ m.childs \in Seq({})
        /\ Len(m.keys) = m.size /\ Len(m.childs) = m.size /\ m.size <= Capacity(m.kind)
    BY <1>2, <1>3, <2>1 DEF Sorted
  <2>3. LayoutIn(m, {})
    BY <1>2, <2>1, <2>2, SortedBuilt
  <2>4. Bytes(m) = {}
    BY <1>2, <2>1, <2>3, SortedNode
  <2> QED
    BY <1>2, <1>3, <2>3, <2>4, Tighten DEF m, IsFull
<1>6. CASE kind = "Node48"
  <2>1. m.kind = "Node48" /\ m.childs = [i \in 1 .. SIZE48 |-> Null] /\ DOMAIN m.keys = {}
    BY <1>2, <1>6 DEF EmptyChilds
  <2>2. m.keys \in [DOMAIN m.keys -> 1 .. SIZE48]
    <3>1. m.keys = [b \in {} |-> 0]
      BY <1>2
    <3> QED
      BY <2>1, <3>1
  <2>3. m.childs \in [1 .. SIZE48 -> {} \cup {Null}]
    BY <2>1
  <2>4. \A b, c \in DOMAIN m.keys : m.keys[b] = m.keys[c] => b = c
    BY <2>1
  <2>5. {i \in 1 .. SIZE48 : m.childs[i] # Null} = {m.keys[b] : b \in DOMAIN m.keys}
    BY <2>1
  <2>6. DOMAIN m.keys \subseteq Byte /\ m.size = Cardinality(DOMAIN m.keys) /\ m.size <= SIZE48
    BY <1>2, <1>4, <2>1, SizeAssumption
  <2>7. LayoutIn(m, {}) /\ Bytes(m) = DOMAIN m.keys
    BY <1>2, <2>1, <2>2, <2>3, <2>4, <2>5, <2>6, SlottedBuilt
  <2> QED
    BY <1>2, <1>3, <2>1, <2>7, Tighten DEF m, IsFull
<1>7. CASE kind = "Node256"
  <2>1. m.kind = "Node256" /\ DOMAIN m.childs = {} /\ m.childs \in [DOMAIN m.childs -> {}]
    BY <1>2, <1>7 DEF EmptyChilds
  <2>2. LayoutIn(m, {}) /\ Bytes(m) = {}
    BY <1>2, <1>4, <2>1, DirectBuilt
  <2> QED
    BY <1>2, <1>3, <2>2, Tighten DEF m, IsFull
<1> QED
  BY <1>5, <1>6, <1>7 DEF Kinds

(* insert() of a byte without a child in a node that is not full: the      *)
(* layout is kept, and the children are those of n and the new one.        *)
THEOREM InsertExact ==
  ASSUME NEW n, LayoutOK(n), ~IsFull(n), NEW b \in Byte \ Bytes(n), NEW child, child # Null
  PROVE  LET m == InsertChild(n, b, child) IN
         /\ LayoutOK(m) /\ Children(m) = With(Children(n), b, child)
         /\ m.kind = n.kind /\ m.prefix = n.prefix /\ m.leaf = n.leaf /\ m.size = n.size + 1
<1> DEFINE m == InsertChild(n, b, child)
           C == Childs(n) \cup {child}
<1>1. LayoutIn(n, C) /\ child \in C
  BY WithChild
<1> HIDE DEF m, C
<1>2. n.kind \in Kinds /\ n.size < Capacity(n.kind)
  <2>1. /\ n.kind \in Kinds /\ n.size \in Nat /\ n.size <= Capacity(n.kind)
    BY <1>1, SizeType
  <2>2. Capacity(n.kind) \in Nat
    BY <2>1, CapacityType
  <2> QED
    BY <2>1, <2>2 DEF IsFull
<1>3. Inserted(n, b, child, C)
  <2>1. CASE IsSorted4(n)
    BY <1>1, <1>2, <2>1, InsertSortedIs
  <2>2. CASE n.kind = "Node48"
    BY <1>1, <1>2, <2>2, InsertSlottedIs
  <2>3. CASE n.kind = "Node256"
    BY <1>1, <2>3, InsertDirectIs
  <2> QED
    BY <1>2, <2>1, <2>2, <2>3, KindCases
<1>4. /\ LayoutIn(m, C) /\ m.kind = n.kind /\ m.prefix = n.prefix /\ m.leaf = n.leaf
      /\ m.size = n.size + 1 /\ Bytes(m) = Bytes(n) \cup {b}
      /\ Find(m, b) = child /\ \A c \in Bytes(n) : Find(m, c) = Find(n, c)
  BY <1>3 DEF Inserted, m
<1>5. Children(m) = With(Children(n), b, child)
  BY <1>4 DEF Children, With
<1>6. LayoutOK(m)
  BY <1>4, Tighten
<1> QED
  BY <1>4, <1>5, <1>6 DEF m

(* remove() of a byte that has a child: only that child is gone. *)
THEOREM RemoveExact ==
  ASSUME NEW n, LayoutOK(n), NEW b \in Bytes(n)
  PROVE  LET m == RemoveChild(n, b) IN
         /\ LayoutOK(m) /\ Children(m) = Minus(Children(n), b)
         /\ m.kind = n.kind /\ m.prefix = n.prefix /\ m.leaf = n.leaf /\ m.size = n.size - 1
<1> DEFINE m == RemoveChild(n, b)
           C == Childs(n)
<1>1. LayoutIn(n, C)
  BY DEF LayoutOK
<1> HIDE DEF m, C
<1>2. n.kind \in Kinds
  BY <1>1, SizeType
<1>3. Removed(n, b, C)
  <2>1. CASE IsSorted4(n)
    BY <1>1, <2>1, RemoveSortedIs
  <2>2. CASE n.kind = "Node48"
    BY <1>1, <2>2, RemoveSlottedIs
  <2>3. CASE n.kind = "Node256"
    BY <1>1, <2>3, RemoveDirectIs
  <2> QED
    BY <1>2, <2>1, <2>2, <2>3, KindCases
<1>4. /\ LayoutIn(m, C) /\ m.kind = n.kind /\ m.prefix = n.prefix /\ m.leaf = n.leaf
      /\ m.size = n.size - 1 /\ Bytes(m) = Bytes(n) \ {b}
      /\ \A c \in Bytes(n) \ {b} : Find(m, c) = Find(n, c)
  BY <1>3 DEF Removed, m
<1>5. Children(m) = Minus(Children(n), b)
  BY <1>4 DEF Children, Minus
<1>6. LayoutOK(m)
  BY <1>4, Tighten
<1> QED
  BY <1>4, <1>5, <1>6 DEF m

(* A child replaced through the pointer that find() returns: the others    *)
(* stay, whatever the layout shares between them.                          *)
THEOREM ReplaceExact ==
  ASSUME NEW n, LayoutOK(n), NEW b \in Bytes(n), NEW child, child # Null
  PROVE  LET m == SetChild(n, b, child) IN
         /\ LayoutOK(m) /\ Children(m) = [Children(n) EXCEPT ![b] = child]
         /\ m.kind = n.kind /\ m.prefix = n.prefix /\ m.leaf = n.leaf /\ m.size = n.size
<1> DEFINE m == SetChild(n, b, child)
           C == Childs(n) \cup {child}
<1>1. LayoutIn(n, C) /\ child \in C
  BY WithChild
<1> HIDE DEF m, C
<1>2. n.kind \in Kinds
  BY <1>1, SizeType
<1>3. Replaced(n, b, child, C)
  <2>1. CASE IsSorted4(n)
    BY <1>1, <2>1, SetSortedIs
  <2>2. CASE n.kind = "Node48"
    BY <1>1, <2>2, SetSlottedIs
  <2>3. CASE n.kind = "Node256"
    BY <1>1, <2>3, SetDirectIs
  <2> QED
    BY <1>2, <2>1, <2>2, <2>3, KindCases
<1>4. /\ LayoutIn(m, C) /\ m.kind = n.kind /\ m.prefix = n.prefix /\ m.leaf = n.leaf
      /\ m.size = n.size /\ Bytes(m) = Bytes(n)
      /\ Find(m, b) = child /\ \A c \in Bytes(n) \ {b} : Find(m, c) = Find(n, c)
  BY <1>3 DEF Replaced, m
<1>5. Children(m) = [Children(n) EXCEPT ![b] = child]
  <2>1. Children(m) = [c \in Bytes(n) |-> IF c = b THEN child ELSE Find(n, c)]
    BY <1>4 DEF Children
  <2> QED
    BY <2>1 DEF Children
<1>6. LayoutOK(m)
  BY <1>4, Tighten
<1> QED
  BY <1>4, <1>5, <1>6 DEF m

-----------------------------------------------------------------------------
LEMMA ConvertedExact ==
  ASSUME NEW n, NEW m, NEW kind, NEW C, Converted(n, m, kind, C)
  PROVE  /\ LayoutOK(m) /\ Children(m) = Children(n) /\ Bytes(m) = Bytes(n)
         /\ m.kind = kind /\ m.prefix = n.prefix /\ m.leaf = n.leaf /\ m.size = n.size
BY Tighten DEF Converted, Children

(* grow() of a full node: the next layout has room, and the same children. *)
THEOREM GrowExact ==
  ASSUME NEW n, LayoutOK(n), IsFull(n), n.kind # "Node256"
  PROVE  LET m == Grow(n) IN
         /\ LayoutOK(m) /\ ~IsFull(m) /\ Children(m) = Children(n)
         /\ m.prefix = n.prefix /\ m.leaf = n.leaf /\ m.size = n.size
         /\ m.kind = CASE n.kind = "Node4" -> "Node16" [] n.kind = "Node16" -> "Node48"
                       [] OTHER -> "Node256"
<1>1. LayoutIn(n, Childs(n)) /\ n.kind \in {"Node4", "Node16", "Node48"}
  BY SizeType DEF LayoutOK, Kinds
<1>2. CASE n.kind = "Node4"
  <2>1. Grow(n) = ToSorted(n, "Node16") /\ n.size = SIZE4 /\ Capacity("Node16") = SIZE16
    BY <1>2 DEF Grow, IsFull, Capacity
  <2>2. Converted(n, Grow(n), "Node16", Childs(n))
    BY <1>1, <2>1, ToSortedIs, SizeAssumption
  <2>3. SIZE4 # SIZE16
    BY SizeAssumption
  <2> QED
    BY <1>2, <2>1, <2>2, <2>3, ConvertedExact DEF IsFull
<1>3. CASE n.kind = "Node16"
  <2>1. Grow(n) = To48(n) /\ n.size = SIZE16 /\ Capacity("Node48") = SIZE48 /\ IsSorted4(n)
    BY <1>3 DEF Grow, IsFull, Capacity, IsSorted4
  <2>2. Converted(n, Grow(n), "Node48", Childs(n))
    BY <1>1, <2>1, To48Is
  <2>3. SIZE16 # SIZE48
    BY SizeAssumption
  <2> QED
    BY <1>3, <2>1, <2>2, <2>3, ConvertedExact DEF IsFull
<1>4. CASE n.kind = "Node48"
  <2>1. Grow(n) = To256(n) /\ n.size = SIZE48 /\ Capacity("Node256") = MaxChilds
    BY <1>4 DEF Grow, IsFull, Capacity
  <2>2. Converted(n, Grow(n), "Node256", Childs(n))
    BY <1>1, <2>1, To256Is
  <2>3. SIZE48 # MaxChilds
    BY SizeAssumption DEF MaxChilds
  <2> QED
    BY <1>4, <2>1, <2>2, <2>3, ConvertedExact DEF IsFull
<1> QED
  BY <1>1, <1>2, <1>3, <1>4

(* shrink() of a node that should shrink: the children fit in the smaller  *)
(* layout, free slots and the gaps of the old one are left behind.         *)
THEOREM ShrinkExact ==
  ASSUME NEW n, LayoutOK(n), ShouldShrink(n)
  PROVE  LET m == Shrink(n) IN
         /\ LayoutOK(m) /\ Children(m) = Children(n)
         /\ m.prefix = n.prefix /\ m.leaf = n.leaf /\ m.size = n.size
<1>1. LayoutIn(n, Childs(n)) /\ n.kind \in {"Node16", "Node48", "Node256"}
  BY SizeType DEF LayoutOK, Kinds, ShouldShrink
<1>2. CASE n.kind = "Node16"
  <2>1. Shrink(n) = ToSorted(n, "Node4") /\ n.size <= Capacity("Node4")
    BY <1>2 DEF Shrink, ShouldShrink, Capacity
  <2>2. Converted(n, Shrink(n), "Node4", Childs(n))
    BY <1>1, <2>1, ToSortedIs
  <2> QED
    BY <2>2, ConvertedExact
<1>3. CASE n.kind = "Node48"
  <2>1. Shrink(n) = ToSorted(n, "Node16") /\ n.size <= Capacity("Node16")
    BY <1>3 DEF Shrink, ShouldShrink, Capacity
  <2>2. Converted(n, Shrink(n), "Node16", Childs(n))
    BY <1>1, <2>1, ToSortedIs
  <2> QED
    BY <2>2, ConvertedExact
<1>4. CASE n.kind = "Node256"
  BY <1>4 DEF Shrink
<1> QED
  BY <1>1, <1>2, <1>3, <1>4

(* A child added the way insert() of the tree does, growing a full node    *)
(* first: there is always room, the children are those of n and the new    *)
(* one, and a node that has just grown is not one that should shrink.      *)
THEOREM AddExact ==
  ASSUME NEW n, LayoutOK(n), NEW b \in Byte \ Bytes(n), NEW child, child # Null
  PROVE  LET m == InsertChild(GrowIfFull(n), b, child) IN
         /\ LayoutOK(m) /\ Children(m) = With(Children(n), b, child)
         /\ m.prefix = n.prefix /\ m.leaf = n.leaf /\ m.size = n.size + 1
         /\ IsFull(n) => ~ShouldShrink(m)
<1> DEFINE g == GrowIfFull(n)
<1>1. /\ n.size \in Nat /\ n.size = Cardinality(Bytes(n)) /\ Bytes(n) \subseteq Byte
      /\ n.kind \in Kinds
  BY SizeType DEF LayoutOK
<1>2. IsFull(n) => n.kind # "Node256"
  <2>1. SUFFICES ASSUME n.size = Capacity("Node256") PROVE FALSE
    BY DEF IsFull
  <2>2. Cardinality(Bytes(n)) < MaxChilds
    BY <1>1, BytesFinite
  <2>3. Capacity("Node256") = MaxChilds
    BY DEF Capacity
  <2> QED
    BY <1>1, <2>1, <2>2, <2>3
<1>3. /\ LayoutOK(g) /\ ~IsFull(g) /\ Children(g) = Children(n)
      /\ g.prefix = n.prefix /\ g.leaf = n.leaf /\ g.size = n.size
      /\ IsFull(n) => g.kind = CASE n.kind = "Node4" -> "Node16" [] n.kind = "Node16" -> "Node48"
                                 [] OTHER -> "Node256"
  BY <1>2, GrowExact DEF GrowIfFull
<1>4. b \in Byte \ Bytes(g)
  <2>1. Bytes(g) = Bytes(n)
    BY <1>3 DEF Children
  <2> QED
    BY <2>1
<1> HIDE DEF g
<1>5. LET m == InsertChild(g, b, child) IN
      /\ LayoutOK(m) /\ Children(m) = With(Children(g), b, child)
      /\ m.kind = g.kind /\ m.prefix = g.prefix /\ m.leaf = g.leaf /\ m.size = g.size + 1
  BY <1>3, <1>4, InsertExact
<1>6. ASSUME IsFull(n) PROVE ~ShouldShrink(InsertChild(g, b, child))
  <2> DEFINE m == InsertChild(g, b, child)
  <2> HIDE DEF m
  <2>1. m.kind = g.kind /\ m.size = n.size + 1
    BY <1>3, <1>5 DEF m
  <2>2. CASE n.kind = "Node4"
    <3>1. m.kind = "Node16" /\ n.size = SIZE4
      BY <1>3, <1>6, <2>1, <2>2 DEF IsFull, Capacity
    <3> QED
      BY <2>1, <3>1, SizeAssumption DEF ShouldShrink, m
  <2>3. CASE n.kind = "Node16"
    <3>1. m.kind = "Node48" /\ n.size = SIZE16
      BY <1>3, <1>6, <2>1, <2>3 DEF IsFull, Capacity
    <3> QED
      BY <2>1, <3>1, SizeAssumption DEF ShouldShrink, m
  <2>4. CASE n.kind = "Node48"
    <3>1. m.kind = "Node256" /\ n.size = SIZE48
      BY <1>3, <1>6, <2>1, <2>4 DEF IsFull, Capacity
    <3> QED
      BY <2>1, <3>1, SizeAssumption DEF ShouldShrink, m
  <2> QED
    BY <1>1, <1>2, <1>6, <2>2, <2>3, <2>4 DEF Kinds
<1> QED
  BY <1>3, <1>5, <1>6 DEF g

-----------------------------------------------------------------------------
(* The scan of Node48 and Node256: its equation, and where it stops.       *)
IsScan(n, f) ==
  f = [k \in 0 .. MaxChilds |-> IF k < MaxChilds /\ k \notin Bytes(n) THEN f[k + 1] ELSE k]

LEMMA ScanExists ==
  ASSUME NEW n, Bytes(n) \subseteq Byte
  PROVE  \E f : IsScan(n, f)
<1> DEFINE S(k) == {c \in Bytes(n) \cup {MaxChilds} : c >= k}
           f == [k \in 0 .. MaxChilds |-> Set!Min(S(k))]
<1>1. Bytes(n) \subseteq 0 .. MaxChilds - 1 /\ MaxChilds \in Nat
  BY DEF Byte, MaxChilds
<1>2. ASSUME NEW k \in 0 .. MaxChilds
      PROVE  f[k] = IF k < MaxChilds /\ k \notin Bytes(n) THEN f[k + 1] ELSE k
  <2>1. CASE k < MaxChilds /\ k \notin Bytes(n)
    <3>1. k + 1 \in 0 .. MaxChilds
      BY <1>1, <2>1
    <3>2. S(k) = S(k + 1)
      BY <1>1, <2>1
    <3> HIDE DEF S
    <3> QED
      BY <2>1, <3>1, <3>2
  <2>2. CASE ~(k < MaxChilds /\ k \notin Bytes(n))
    <3>1. S(k) \in SUBSET Nat /\ k \in S(k) /\ \A c \in S(k) : c >= k
      BY <1>1, <2>2
    <3>2. Set!Min(S(k)) \in S(k) /\ Set!Min(S(k)) <= k
      <4> HIDE DEF S
      <4> QED
        BY <3>1, MinIs
    <3>3. Set!Min(S(k)) = k
      <4> HIDE DEF S
      <4> QED
        BY <3>1, <3>2
    <3> QED
      BY <2>2, <3>3
  <2> QED
    BY <2>1, <2>2
<1> HIDE DEF S
<1>3. IsScan(n, f)
  <2>1. f = [k \in 0 .. MaxChilds |-> f[k]]
    OBVIOUS
  <2> HIDE DEF f
  <2> QED
    BY <1>2, <2>1 DEF IsScan
<1> QED
  BY <1>3

LEMMA ScanEquation ==
  ASSUME NEW n, Bytes(n) \subseteq Byte, NEW k \in 0 .. MaxChilds
  PROVE  ScanEnd(n)[k] = IF k < MaxChilds /\ k \notin Bytes(n) THEN ScanEnd(n)[k + 1] ELSE k
<1>1. ScanEnd(n) = CHOOSE f : IsScan(n, f)
  BY DEF ScanEnd, IsScan
<1>2. IsScan(n, ScanEnd(n))
  BY <1>1, ScanExists
<1> QED
  BY <1>2 DEF IsScan

(* From the end of the array down to key: the loop stops at the first byte *)
(* that has a child, or at the end.                                        *)
LEMMA ScanIs ==
  ASSUME NEW n, Bytes(n) \subseteq Byte, NEW key \in 0 .. MaxChilds
  PROVE  /\ ScanEnd(n)[key] \in Bytes(n) \cup {MaxChilds} /\ ScanEnd(n)[key] >= key
         /\ \A c \in Bytes(n) : c >= key => ScanEnd(n)[key] <= c
<1> DEFINE First(k) == /\ ScanEnd(n)[k] \in Bytes(n) \cup {MaxChilds} /\ ScanEnd(n)[k] >= k
                       /\ \A c \in Bytes(n) : c >= k => ScanEnd(n)[k] <= c
           T == {m \in 0 .. MaxChilds : First(MaxChilds - m)}
<1>1. Bytes(n) \subseteq 0 .. MaxChilds - 1 /\ MaxChilds \in Nat
  BY DEF Byte, MaxChilds
<1>2. 0 \in T
  <2>1. ScanEnd(n)[MaxChilds] = MaxChilds
    BY <1>1, ScanEquation
  <2> QED
    BY <1>1, <2>1
<1>3. ASSUME NEW m \in 1 .. MaxChilds, m - 1 \in T PROVE m \in T
  <2>1. PICK k \in 0 .. MaxChilds - 1 : k = MaxChilds - m /\ k + 1 = MaxChilds - (m - 1)
    BY <1>1
  <2>2. First(k + 1)
    BY <1>3, <2>1
  <2>3. ScanEnd(n)[k] = IF k \notin Bytes(n) THEN ScanEnd(n)[k + 1] ELSE k
    BY <1>1, ScanEquation
  <2>4. First(k)
    <3>1. CASE k \in Bytes(n)
      BY <1>1, <2>3, <3>1
    <3>2. CASE k \notin Bytes(n)
      <4>1. \A c \in Bytes(n) : c >= k => c >= k + 1
        BY <1>1, <3>2
      <4>2. ScanEnd(n)[k + 1] >= k
        BY <1>1, <2>2
      <4> QED
        BY <2>2, <2>3, <3>2, <4>1, <4>2
    <3> QED
      BY <3>1, <3>2
  <2> QED
    BY <1>1, <2>1, <2>4
<1>4. 0 .. MaxChilds \subseteq T
  <2> HIDE DEF T
  <2> QED
    BY <1>1, <1>2, <1>3, UpTo
<1>5. MaxChilds - key \in T /\ MaxChilds - (MaxChilds - key) = key
  BY <1>1, <1>4
<1> QED
  BY <1>5

(* Which pair next_or_equal_key(key) should return: the least byte with a  *)
(* child that is not below key and its child, or none.                     *)
IsNext(n, key, next) ==
  IF \E c \in Bytes(n) : c >= key
    THEN /\ next.key \in Bytes(n) /\ next.key >= key /\ next.child = Find(n, next.key)
         /\ \A c \in Bytes(n) : c >= key => next.key <= c
    ELSE next = Null

LEMMA NextSortedIs ==
  ASSUME NEW n, NEW C, LayoutIn(n, C), IsSorted4(n), NEW key \in Nat
  PROVE  IsNext(n, key, NextSorted(n, key))
<1> DEFINE i == LowerBound(n.keys, key)
<1>1. /\ n.keys \in Seq(Byte) /\ Sorted(n.keys) /\ Len(n.keys) = n.size /\ n.size \in Nat
      /\ Bytes(n) = {n.keys[j] : j \in 1 .. n.size}
      /\ \A j \in 1 .. n.size : n.keys[j] \in Bytes(n) /\ Find(n, n.keys[j]) = n.childs[j]
  BY SortedNode, SizeType
<1>2. \A j \in 1 .. n.size : n.keys[j] \in Int
  BY <1>1, KeysType
<1>3. i \in 1 .. n.size + 1 /\ \A j \in 1 .. n.size : n.keys[j] < key <=> j < i
  <2>1. key \in Int
    OBVIOUS
  <2>2. /\ i \in 1 .. Len(n.keys) + 1
        /\ \A j \in 1 .. Len(n.keys) : n.keys[j] < key <=> j < i
    BY <1>1, <2>1, LowerBoundIs
  <2> HIDE DEF i
  <2> QED
    BY <1>1, <2>2
<1> HIDE DEF i
<1>4. CASE i > n.size
  <2>1. NextSorted(n, key) = Null
    BY <1>4 DEF NextSorted, i
  <2>2. ~ \E c \in Bytes(n) : c >= key
    BY <1>1, <1>2, <1>3, <1>4
  <2> QED
    BY <2>1, <2>2 DEF IsNext
<1>5. CASE i <= n.size
  <2>1. NextSorted(n, key) = [child |-> n.childs[i], key |-> n.keys[i]]
    BY <1>1, <1>3, <1>5 DEF NextSorted, i
  <2>2. i \in 1 .. n.size /\ n.keys[i] >= key
    BY <1>1, <1>2, <1>3, <1>5
  <2>3. ASSUME NEW j \in 1 .. n.size, n.keys[j] >= key
        PROVE  n.keys[i] <= n.keys[j]
    <3>1. i <= j
      BY <1>2, <1>3, <2>3
    <3>2. i < j => n.keys[i] < n.keys[j]
      BY <1>1, <2>2 DEF Sorted
    <3> QED
      BY <1>1, <1>2, <1>3, <2>2, <3>1, <3>2
  <2> QED
    BY <1>1, <2>1, <2>2, <2>3 DEF IsNext
<1> QED
  BY <1>1, <1>3, <1>4, <1>5

LEMMA NextScannedIs ==
  ASSUME NEW n, NEW C, LayoutIn(n, C), ~IsSorted4(n), NEW key \in 0 .. MaxChilds
  PROVE  IsNext(n, key, NextScanned(n, key))
<1> DEFINE b == ScanEnd(n)[key]
<1>1. Bytes(n) \subseteq Byte /\ Byte \subseteq 0 .. MaxChilds - 1 /\ MaxChilds \in Nat
  BY SizeType DEF Byte, MaxChilds
<1>2. /\ b \in Bytes(n) \cup {MaxChilds} /\ b >= key
      /\ \A c \in Bytes(n) : c >= key => b <= c
  BY <1>1, ScanIs
<1>3. NextScanned(n, key) = IF b = MaxChilds THEN Null ELSE Pair(n, b)
  BY <1>1 DEF NextScanned
<1> HIDE DEF b
<1>4. CASE b = MaxChilds
  <2>1. ~ \E c \in Bytes(n) : c >= key
    BY <1>1, <1>2, <1>4
  <2> QED
    BY <1>3, <1>4, <2>1 DEF IsNext
<1>5. CASE b # MaxChilds
  <2>1. b \in Bytes(n)
    BY <1>2, <1>5
  <2>2. NextScanned(n, key) = [child |-> Find(n, b), key |-> b]
    BY <1>3, <1>5, <2>1 DEF Pair, Find
  <2> QED
    BY <1>2, <2>1, <2>2 DEF IsNext
<1> QED
  BY <1>4, <1>5

(* next_or_equal_key(): std::lower_bound in the sorted arrays and the loop *)
(* of the others find the same, the least byte with a child that is not    *)
(* below key, with its child, for each key that is in the arrays.          *)
THEOREM NextExact ==
  ASSUME NEW n, LayoutOK(n), NEW key \in Nat, IsSorted4(n) \/ key <= MaxChilds
  PROVE  LET next == NextOrEqual(n, key) IN
         IF \E c \in Bytes(n) : c >= key
           THEN /\ next.key \in Bytes(n) /\ next.key >= key /\ next.child = Find(n, next.key)
                /\ \A c \in Bytes(n) : c >= key => next.key <= c
           ELSE next = Null
<1>1. LayoutIn(n, Childs(n))
  BY DEF LayoutOK
<1>2. IsNext(n, key, NextOrEqual(n, key))
  <2>1. CASE IsSorted4(n)
    BY <1>1, <2>1, NextSortedIs DEF NextOrEqual
  <2>2. CASE ~IsSorted4(n)
    <3>1. key \in 0 .. MaxChilds
      BY <2>2 DEF MaxChilds
    <3> QED
      BY <1>1, <2>2, <3>1, NextScannedIs DEF NextOrEqual
  <2> QED
    BY <2>1, <2>2
<1> QED
  BY <1>2 DEF IsNext

(* first_key(), by which remove() finds the child to merge with: where the *)
(* iterator starts, in every layout.                                       *)
THEOREM FirstExact ==
  ASSUME NEW n, LayoutOK(n)
  PROVE  FirstKey(n) = NextOrEqual(n, 0)
<1>1. LayoutIn(n, Childs(n))
  BY DEF LayoutOK
<1>2. CASE IsSorted4(n)
  <2>1. n.keys \in Seq(Byte) /\ Sorted(n.keys) /\ Len(n.keys) = n.size /\ n.size \in Nat
    BY <1>1, <1>2, SortedNode, SizeType
  <2>2. \A j \in 1 .. n.size : n.keys[j] \in 0 .. MaxChilds - 1
    BY <2>1, KeysType DEF Byte
  <2>3. LowerBound(n.keys, 0) = 1
    <3> DEFINE i == LowerBound(n.keys, 0)
    <3>1. 0 \in Int
      OBVIOUS
    <3>2. i \in 1 .. Len(n.keys) + 1 /\ \A j \in 1 .. Len(n.keys) : n.keys[j] < 0 <=> j < i
      BY <2>1, <3>1, LowerBoundIs
    <3> HIDE DEF i
    <3>3. ~(1 < i)
      <4>1. SUFFICES ASSUME 1 < i PROVE FALSE
        OBVIOUS
      <4>2. 1 \in 1 .. n.size /\ n.keys[1] < 0
        BY <2>1, <3>2, <4>1
      <4>3. n.keys[1] \in 0 .. MaxChilds - 1
        BY <2>2, <4>2
      <4> QED
        BY <4>2, <4>3 DEF MaxChilds
    <3>4. i = 1
      BY <2>1, <3>2, <3>3
    <3> QED
      BY <3>4 DEF i
  <2>4. NextOrEqual(n, 0) = IF 1 > n.size THEN Null ELSE [child |-> n.childs[1], key |-> n.keys[1]]
    BY <1>2, <2>3 DEF NextOrEqual, NextSorted
  <2> QED
    BY <1>2, <2>1, <2>4 DEF FirstKey
<1>3. CASE ~IsSorted4(n)
  BY <1>3 DEF FirstKey
<1> QED
  BY <1>2, <1>3
=============================================================================
