----------------------- MODULE HttpConnection_proofs -----------------------
(***************************************************************************)
(* Theorems about HttpConnection for every sequence of requests, however   *)
(* the client's stream is cut into reads.                                  *)
(***************************************************************************)
EXTENDS HttpConnection, SequenceTheorems, WellFoundedInduction, TLAPS

N == Len(Messages)
HeadParts == {Spans[i] : i \in 1 .. 5}
AllUnits == [msg : 1 .. N, part : HeadParts \cup {"end", "body"}, k : Nat]

-----------------------------------------------------------------------------
(* Induction up to n: a set that has 0 and the successors of its elements. *)
LEMMA UpTo ==
  ASSUME NEW n \in Nat, NEW T, 0 \in T, \A m \in 1 .. n : m - 1 \in T => m \in T
  PROVE  0 .. n \subseteq T
<1> DEFINE R == {p \in Nat \X Nat : p[1] < p[2]}
           B == (0 .. n) \ T
<1>1. SUFFICES ASSUME B # {} PROVE FALSE
  OBVIOUS
<1>2. PICK m \in B : \A y \in B : ~ (<<y, m>> \in R)
  <2>1. IsWellFoundedOn(R, Nat)
    BY NatLessThanWellFounded DEF OpToRel
  <2>2. B \subseteq Nat
    OBVIOUS
  <2> HIDE DEF R, B
  <2> QED
    BY <1>1, <2>1, <2>2, WFMin
<1>3. m \in 1 .. n /\ m - 1 \in 0 .. n
  OBVIOUS
<1>4. m - 1 \in B
  BY <1>3
<1>5. <<m - 1, m>> \in R
  BY <1>3
<1> QED
  BY <1>2, <1>4, <1>5

-----------------------------------------------------------------------------
(* The units of a message *)
LEMMA MessagesType ==
  /\ N \in Nat \ {0} /\ DOMAIN Messages = 1 .. N
  /\ \A m \in 1 .. N : Messages[m].body \in Nat /\ Size(m) \in Nat /\ Size(m) > HeadLen
  /\ SpanLen \in Nat \ {0} /\ HeadLen \in Nat \ {0}
<1>1. Messages \in Seq([version : {"1.0", "1.1"}, body : Nat]) /\ Messages # <<>>
  BY ConnectionAssumption
<1>2. N \in Nat \ {0} /\ DOMAIN Messages = 1 .. N
  BY <1>1 DEF N
<1>3. ASSUME NEW m \in 1 .. N PROVE Messages[m].body \in Nat
  <2>1. Messages[m] \in [version : {"1.0", "1.1"}, body : Nat]
    BY <1>1, ElementOfSeq DEF N
  <2> QED
    BY <2>1
<1>4. SpanLen \in Nat \ {0}
  BY ConnectionAssumption
<1> QED
  BY <1>2, <1>3, <1>4 DEF HeadLen, Size

LEMMA SpanBounds ==
  ASSUME NEW k \in 1 .. HeadLen
  PROVE  /\ Span(k) \in 1 .. 5
         /\ k - (Span(k) - 1) * SpanLen \in 1 .. SpanLen
<1>1. \E i \in 1 .. 5 : (i - 1) * SpanLen < k /\ k <= i * SpanLen
  <2>1. CASE k <= SpanLen
    BY <2>1, MessagesType
  <2>2. CASE SpanLen < k /\ k <= 2 * SpanLen
    BY <2>2, MessagesType
  <2>3. CASE 2 * SpanLen < k /\ k <= 3 * SpanLen
    BY <2>3, MessagesType
  <2>4. CASE 3 * SpanLen < k /\ k <= 4 * SpanLen
    BY <2>4, MessagesType
  <2>5. CASE 4 * SpanLen < k /\ k <= 5 * SpanLen
    BY <2>5, MessagesType
  <2> QED
    BY <2>1, <2>2, <2>3, <2>4, <2>5, MessagesType DEF HeadLen
<1>2. Span(k) \in 1 .. 5 /\ (Span(k) - 1) * SpanLen < k /\ k <= Span(k) * SpanLen
  BY <1>1 DEF Span
<1> DEFINE i == Span(k)
<1>3. /\ i \in 1 .. 5 /\ k \in Int /\ SpanLen \in Int
      /\ (i - 1) * SpanLen < k /\ k <= i * SpanLen
  BY <1>2, MessagesType
<1> HIDE DEF i
<1>4. i * SpanLen = (i - 1) * SpanLen + SpanLen
  BY <1>3
<1> QED
  BY <1>2, <1>3, <1>4 DEF i

LEMMA UnitType ==
  ASSUME NEW m \in 1 .. N, NEW k \in 1 .. Size(m)
  PROVE  /\ Unit(m, k) \in AllUnits
         /\ Unit(m, k).msg = m
         /\ k <= HeadLen => Unit(m, k).part \in HeadParts /\ Unit(m, k).k \in 1 .. SpanLen
         /\ k = HeadLen + 1 => Unit(m, k).part = "end"
         /\ k > HeadLen + 1 => /\ Unit(m, k).part = "body"
                               /\ Unit(m, k).k = k - HeadLen - 1
<1>0. k \in Nat /\ HeadLen \in Nat /\ SpanLen \in Nat
  BY MessagesType
<1>1. CASE k <= HeadLen
  <2> DEFINE i == Span(k)
             o == k - (Span(k) - 1) * SpanLen
  <2>1. i \in 1 .. 5 /\ o \in 1 .. SpanLen
    BY <1>0, <1>1, SpanBounds
  <2>2. Unit(m, k) = [msg |-> m, part |-> Spans[i], k |-> o]
    BY <1>1 DEF Unit
  <2> HIDE DEF i, o
  <2>3. Spans[i] \in HeadParts /\ o \in Nat
    BY <1>0, <2>1 DEF HeadParts
  <2> QED
    BY <1>0, <1>1, <2>1, <2>2, <2>3 DEF AllUnits
<1>2. CASE k = HeadLen + 1
  BY <1>0, <1>2 DEF Unit, AllUnits
<1>3. CASE k > HeadLen + 1
  <2>1. Unit(m, k) = [msg |-> m, part |-> "body", k |-> k - HeadLen - 1]
    BY <1>0, <1>3 DEF Unit
  <2> QED
    BY <1>0, <1>3, <2>1 DEF AllUnits
<1> QED
  BY <1>0, <1>1, <1>2, <1>3

-----------------------------------------------------------------------------
(* The stream is well defined: the equation of its definition holds.       *)
IsStream(s, n) ==
  s = [m \in 0 .. n |-> IF m = 0 THEN <<>> ELSE s[m - 1] \o MessageUnits(m)]

LEMMA StreamExists == \E s : IsStream(s, N)
<1> DEFINE T == {n \in 0 .. N : \E s : IsStream(s, n)}
<1>1. 0 \in T
  <2>1. IsStream([m \in 0 .. 0 |-> <<>>], 0)
    BY DEF IsStream
  <2> QED
    BY <2>1, MessagesType
<1>2. ASSUME NEW n \in 1 .. N, n - 1 \in T PROVE n \in T
  <2>1. PICK s : IsStream(s, n - 1)
    BY <1>2
  <2> DEFINE t == [m \in 0 .. n |-> IF m < n THEN s[m] ELSE s[n - 1] \o MessageUnits(n)]
  <2>2. ASSUME NEW m \in 0 .. n
        PROVE  t[m] = IF m = 0 THEN <<>> ELSE t[m - 1] \o MessageUnits(m)
    <3>1. CASE m = n
      <4>1. t[m - 1] = s[n - 1] /\ t[m] = s[n - 1] \o MessageUnits(n) /\ m # 0
        BY <3>1, MessagesType
      <4> QED
        BY <3>1, <4>1
    <3>2. CASE m < n
      <4>1. m \in 0 .. n - 1 /\ t[m] = s[m] /\ (m # 0 => t[m - 1] = s[m - 1])
        BY <3>2, MessagesType
      <4>2. s[m] = IF m = 0 THEN <<>> ELSE s[m - 1] \o MessageUnits(m)
        <5>1. s = [i \in 0 .. n - 1 |-> IF i = 0 THEN <<>> ELSE s[i - 1] \o MessageUnits(i)]
          BY <2>1 DEF IsStream
        <5> QED
          BY <4>1, <5>1
      <4> QED
        BY <4>1, <4>2
    <3> QED
      BY <3>1, <3>2, MessagesType
  <2>3. t = [m \in 0 .. n |-> IF m = 0 THEN <<>> ELSE t[m - 1] \o MessageUnits(m)]
    <3>1. t = [m \in 0 .. n |-> t[m]]
      OBVIOUS
    <3> HIDE DEF t
    <3> QED
      BY <2>2, <3>1
  <2> HIDE DEF t
  <2>4. IsStream(t, n)
    BY <2>3 DEF IsStream
  <2> QED
    BY <2>4, MessagesType
<1> HIDE DEF T
<1>3. 0 .. N \subseteq T
  BY <1>1, <1>2, UpTo, MessagesType
<1>4. N \in T
  BY <1>3, MessagesType
<1> QED
  BY <1>4 DEF T

LEMMA StreamEquation ==
  \A m \in 0 .. N : Stream[m] = IF m = 0 THEN <<>> ELSE Stream[m - 1] \o MessageUnits(m)
<1>1. Stream = CHOOSE s : IsStream(s, N)
  BY DEF Stream, IsStream, N
<1>2. IsStream(Stream, N)
  BY <1>1, StreamExists
<1> QED
  BY <1>2 DEF IsStream

LEMMA StreamType ==
  /\ \A m \in 0 .. N : Stream[m] \in Seq(AllUnits)
  /\ Stream[0] = <<>>
  /\ \A m \in 1 .. N : /\ Stream[m] = Stream[m - 1] \o MessageUnits(m)
                       /\ MessageUnits(m) \in Seq(AllUnits)
                       /\ Len(MessageUnits(m)) = Size(m)
<1>1. ASSUME NEW m \in 1 .. N
      PROVE  MessageUnits(m) \in Seq(AllUnits) /\ Len(MessageUnits(m)) = Size(m)
  <2>1. Size(m) \in Nat
    BY MessagesType
  <2>2. \A k \in 1 .. Size(m) : Unit(m, k) \in AllUnits
    BY UnitType
  <2> QED
    BY <2>1, <2>2 DEF MessageUnits
<1>2. /\ Stream[0] = <<>>
      /\ \A m \in 1 .. N : Stream[m] = Stream[m - 1] \o MessageUnits(m)
  <2>1. 0 \in 0 .. N /\ \A m \in 1 .. N : m \in 0 .. N /\ m # 0
    BY MessagesType
  <2> QED
    BY <2>1, StreamEquation, Zenon
<1> DEFINE T == {m \in 0 .. N : Stream[m] \in Seq(AllUnits)}
<1>3. 0 \in T
  <2>1. <<>> \in Seq(AllUnits) /\ 0 \in 0 .. N
    BY MessagesType
  <2> QED
    BY <1>2, <2>1, Zenon
<1>4. ASSUME NEW m \in 1 .. N, m - 1 \in T PROVE m \in T
  <2>1. Stream[m - 1] \in Seq(AllUnits)
    BY <1>4
  <2>2. Stream[m - 1] \o MessageUnits(m) \in Seq(AllUnits)
    BY <1>1, <2>1, ConcatProperties, Zenon
  <2>3. Stream[m] \in Seq(AllUnits)
    BY <1>2, <2>2, Zenon
  <2> QED
    BY <2>3, MessagesType
<1>5. 0 .. N \subseteq T
  <2> HIDE DEF T
  <2> QED
    BY <1>3, <1>4, UpTo, MessagesType
<1> QED
  BY <1>1, <1>2, <1>5

(* Where message m ends in the stream. *)
LEMMA EndsType ==
  /\ Ends(0) = 0
  /\ \A m \in 0 .. N : Ends(m) \in Nat
  /\ \A m \in 1 .. N : Ends(m) = Ends(m - 1) + Size(m)
<1>1. ASSUME NEW m \in 1 .. N PROVE Ends(m) = Ends(m - 1) + Size(m)
  <2>1. Stream[m - 1] \in Seq(AllUnits)
    BY StreamType, MessagesType
  <2>2. Len(Stream[m - 1] \o MessageUnits(m)) = Len(Stream[m - 1]) + Size(m)
    <3>1. Len(Stream[m - 1] \o MessageUnits(m)) = Len(Stream[m - 1]) + Len(MessageUnits(m))
      BY <2>1, StreamType, ConcatProperties, Zenon
    <3> QED
      BY <3>1, StreamType, Zenon
  <2> QED
    BY <2>2, StreamType DEF Ends
<1>2. \A m \in 0 .. N : Ends(m) \in Nat
  BY StreamType, LenProperties DEF Ends
<1>3. Ends(0) = 0
  BY StreamType DEF Ends
<1> QED
  BY <1>1, <1>2, <1>3

LEMMA EndsMonotonic ==
  ASSUME NEW m \in 0 .. N, NEW n \in 0 .. N, m <= n
  PROVE  Ends(m) <= Ends(n)
<1> DEFINE T == {i \in 0 .. N : m <= i => Ends(m) <= Ends(i)}
<1>1. 0 \in T
  BY MessagesType, EndsType
<1>2. ASSUME NEW i \in 1 .. N, i - 1 \in T PROVE i \in T
  <2>1. Ends(i) = Ends(i - 1) + Size(i) /\ Size(i) \in Nat /\ Ends(i - 1) \in Nat /\ Ends(m) \in Nat
    BY EndsType, MessagesType
  <2>2. CASE m <= i - 1
    BY <1>2, <2>1, <2>2
  <2>3. CASE m = i
    BY <2>1, <2>3
  <2>4. CASE m > i
    BY <2>4
  <2> QED
    BY <2>2, <2>3, <2>4, MessagesType
<1>3. 0 .. N \subseteq T
  <2> HIDE DEF T
  <2> QED
    BY <1>1, <1>2, UpTo, MessagesType
<1> QED
  BY <1>3

(* Unit k of message m is where it has to be, in every longer stream. *)
LEMMA StreamAt ==
  ASSUME NEW n \in 0 .. N
  PROVE  \A m \in 1 .. n : \A k \in 1 .. Size(m) :
           /\ Ends(m - 1) + k \in 1 .. Ends(n)
           /\ Stream[n][Ends(m - 1) + k] = Unit(m, k)
<1> DEFINE At(i, m, k) == /\ Ends(m - 1) + k \in 1 .. Ends(i)
                          /\ Stream[i][Ends(m - 1) + k] = Unit(m, k)
           T == {i \in 0 .. N : \A m \in 1 .. i : \A k \in 1 .. Size(m) : At(i, m, k)}
<1>1. 0 \in T
  BY MessagesType
<1>2. ASSUME NEW i \in 1 .. N, i - 1 \in T PROVE i \in T
  <2>1. ASSUME NEW m \in 1 .. i, NEW k \in 1 .. Size(m) PROVE At(i, m, k)
    <3>1. /\ Ends(i) = Ends(i - 1) + Size(i) /\ Size(i) \in Nat /\ Ends(i - 1) \in Nat
          /\ Stream[i - 1] \in Seq(AllUnits) /\ Len(Stream[i - 1]) = Ends(i - 1)
          /\ MessageUnits(i) \in Seq(AllUnits) /\ Len(MessageUnits(i)) = Size(i)
          /\ Stream[i] = Stream[i - 1] \o MessageUnits(i)
      <4>1. i - 1 \in 0 .. N
        BY MessagesType
      <4>2. Ends(i) = Ends(i - 1) + Size(i) /\ Size(i) \in Nat /\ Ends(i - 1) \in Nat
        BY <4>1, EndsType, MessagesType
      <4>3. Stream[i - 1] \in Seq(AllUnits) /\ Len(Stream[i - 1]) = Ends(i - 1)
        BY <4>1, StreamType, Zenon DEF Ends
      <4> QED
        BY <4>2, <4>3, StreamType, Zenon
    <3>2. \A x \in 1 .. Ends(i) : Stream[i][x] = IF x <= Ends(i - 1) THEN Stream[i - 1][x]
                                                ELSE MessageUnits(i)[x - Ends(i - 1)]
      <4>1. \A x \in 1 .. Len(Stream[i - 1]) + Len(MessageUnits(i)) :
              (Stream[i - 1] \o MessageUnits(i))[x] =
                IF x <= Len(Stream[i - 1]) THEN Stream[i - 1][x]
                ELSE MessageUnits(i)[x - Len(Stream[i - 1])]
        BY <3>1, ConcatProperties, Zenon
      <4> QED
        BY <3>1, <4>1, Zenon
    <3>3. CASE m = i
      <4>1. k \in 1 .. Size(i) /\ Ends(i - 1) + k \in 1 .. Ends(i)
        BY <3>1, <3>3
      <4>2. Stream[i][Ends(i - 1) + k] = MessageUnits(i)[k]
        <5>1. ~(Ends(i - 1) + k <= Ends(i - 1)) /\ (Ends(i - 1) + k) - Ends(i - 1) = k
          BY <3>1, <4>1
        <5> QED
          BY <3>2, <4>1, <5>1, Zenon
      <4> QED
        BY <3>3, <4>1, <4>2 DEF MessageUnits
    <3>4. CASE m < i
      <4>1. m \in 1 .. i - 1
        BY <3>4
      <4>2. At(i - 1, m, k)
        BY <1>2, <4>1
      <4>3. Ends(m - 1) + k \in 1 .. Ends(i) /\ Ends(m - 1) + k <= Ends(i - 1)
        BY <3>1, <4>2
      <4> QED
        BY <3>2, <4>2, <4>3
    <3> QED
      BY <3>3, <3>4
  <2> QED
    BY <2>1
<1>3. 0 .. N \subseteq T
  <2> HIDE DEF T
  <2> QED
    BY <1>1, <1>2, UpTo, MessagesType
<1> QED
  BY <1>3

(* Every unit of the stream is one of a message. *)
LEMMA StreamCovered ==
  ASSUME NEW n \in 0 .. N
  PROVE  \A x \in 1 .. Ends(n) :
           \E m \in 1 .. n : x > Ends(m - 1) /\ x <= Ends(m)
<1> DEFINE T == {i \in 0 .. N : \A x \in 1 .. Ends(i) :
                                   \E m \in 1 .. i : x > Ends(m - 1) /\ x <= Ends(m)}
<1>1. 0 \in T
  BY MessagesType, EndsType
<1>2. ASSUME NEW i \in 1 .. N, i - 1 \in T PROVE i \in T
  <2>1. ASSUME NEW x \in 1 .. Ends(i)
        PROVE  \E m \in 1 .. i : x > Ends(m - 1) /\ x <= Ends(m)
    <3>0. Ends(i - 1) \in Nat /\ Ends(i) \in Nat
      BY EndsType, MessagesType
    <3>1. CASE x <= Ends(i - 1)
      <4>1. x \in 1 .. Ends(i - 1)
        BY <3>0, <3>1
      <4>2. PICK m \in 1 .. i - 1 : x > Ends(m - 1) /\ x <= Ends(m)
        BY <1>2, <4>1
      <4> QED
        BY <4>2
    <3>2. CASE x > Ends(i - 1)
      BY <3>0, <3>2
    <3> QED
      BY <3>0, <3>1, <3>2
  <2> QED
    BY <2>1
<1>3. 0 .. N \subseteq T
  <2> HIDE DEF T
  <2> QED
    BY <1>1, <1>2, UpTo, MessagesType
<1> QED
  BY <1>3

(* The wire holds unit k of message m at its place, and nothing else. *)
LEMMA WireAt ==
  /\ Wire \in Seq(AllUnits) /\ Len(Wire) = Ends(N)
  /\ \A m \in 1 .. N : \A k \in 1 .. Size(m) :
       /\ Ends(m - 1) + k \in 1 .. Len(Wire)
       /\ Wire[Ends(m - 1) + k] = Unit(m, k)
<1>1. Wire = Stream[N] /\ N \in 0 .. N
  BY MessagesType DEF Wire, N
<1>2. Len(Wire) = Ends(N)
  BY <1>1 DEF Ends
<1> QED
  BY <1>1, <1>2, StreamType, StreamAt

LEMMA WireCovered ==
  ASSUME NEW x \in 1 .. Len(Wire)
  PROVE  \E m \in 1 .. N : /\ x > Ends(m - 1) /\ x <= Ends(m)
                           /\ Wire[x] = Unit(m, x - Ends(m - 1))
                           /\ Wire[x].msg = m
<1>1. N \in 0 .. N /\ x \in 1 .. Ends(N)
  BY WireAt, MessagesType
<1>2. PICK m \in 1 .. N : x > Ends(m - 1) /\ x <= Ends(m)
  BY <1>1, StreamCovered
<1>3. Ends(m - 1) \in Nat /\ Ends(m) = Ends(m - 1) + Size(m) /\ Size(m) \in Nat
  BY EndsType, MessagesType
<1>4. x - Ends(m - 1) \in 1 .. Size(m) /\ Ends(m - 1) + (x - Ends(m - 1)) = x
  BY <1>2, <1>3
<1>5. Wire[x] = Unit(m, x - Ends(m - 1))
  BY <1>4, WireAt
<1> QED
  BY <1>2, <1>4, <1>5, UnitType

(* The units up to the end of message m are those of messages up to m. *)
LEMMA WireBefore ==
  ASSUME NEW x \in 1 .. Len(Wire), NEW m \in 0 .. N
  PROVE  Wire[x].msg <= m <=> x <= Ends(m)
<1>1. PICK i \in 1 .. N : x > Ends(i - 1) /\ x <= Ends(i) /\ Wire[x].msg = i
  BY WireCovered
<1>2. /\ Ends(i - 1) \in Nat /\ Ends(i) \in Nat /\ Ends(m) \in Nat /\ i - 1 \in 0 .. N /\ i \in 0 .. N
      /\ x \in Nat /\ m \in Nat
  BY EndsType, WireAt, MessagesType
<1>3. CASE i <= m
  <2>1. Ends(i) <= Ends(m)
    BY <1>2, <1>3, EndsMonotonic
  <2> QED
    BY <1>1, <1>2, <1>3, <2>1
<1>4. CASE i > m
  <2>1. Ends(m) <= Ends(i - 1)
    BY <1>2, <1>4, EndsMonotonic
  <2> QED
    BY <1>1, <1>2, <1>4, <2>1
<1> QED
  BY <1>2, <1>3, <1>4

-----------------------------------------------------------------------------
(* The inductive invariant. handle() has handed the first Consumed units   *)
(* of the stream to callbacks, Offset of them of the current message.      *)
Consumed == taken - Len(chunk)
Offset == Consumed - Ends(message - 1)
Finished == IF Offset = Size(message) THEN message ELSE message - 1

Requests == [method : Fields, url : Fields, version : Fields,
             headers : SUBSET (Fields \X Fields), body : Seq(AllUnits)]

StreamInv ==
  /\ sent \in 0 .. Len(Wire) /\ taken \in 0 .. sent
  /\ chunk \in Seq(AllUnits) /\ Len(chunk) <= taken
  /\ \A i \in 1 .. Len(chunk) : chunk[i] = Wire[Consumed + i]
  /\ message \in 1 .. N
  /\ pc \in {"reading", "parsing", "closed", "terminated"}
  /\ pc # "closed" => Offset \in 0 .. Size(message)
  /\ chunk # <<>> => pc \in {"parsing", "terminated"}

RequestInv ==
  /\ req \in Requests /\ last_header_field \in Fields
  /\ content_length \in Nat /\ Len(req.body) <= content_length
  /\ pc # "closed" =>
       /\ Offset <= HeadLen \/ Offset = Size(message) => req.body = <<>>
       /\ HeadLen < Offset /\ Offset < Size(message) =>
            /\ Len(req.body) = Offset - HeadLen - 1
            /\ content_length = Messages[message].body

ReplyInv ==
  /\ writer \subseteq Requests /\ responses \in Seq(Requests)
  /\ {eof, stop} \subseteq BOOLEAN
  /\ Len(responses) <= N
  /\ writer # {} => pc # "closed"
  /\ pc # "closed" =>
       /\ Len(responses) <= Finished
       /\ writer # {} => Len(responses) < Finished

Inv == StreamInv /\ RequestInv /\ ReplyInv

(* A client that waits for each answer *)
InTurnInv ==
  /\ Len(responses) < N => sent <= Ends(Len(responses) + 1)
  /\ pc # "closed" => lost = {}

(* What the parser has built of the current message, where no span is cut. *)
ParsedInv ==
  /\ last_header_field = IF Offset = 4 THEN Part(message, "field") ELSE <<>>
  /\ 1 <= Offset => req.method = Part(message, "method")
  /\ 3 <= Offset => req.version = Part(message, "version")
  /\ Offset < Size(message) =>
       /\ 2 <= Offset => req.url = Part(message, "url")
       /\ req.headers = IF Offset < 5 THEN {} ELSE Meant(message).headers
       /\ 6 < Offset => req.body = Units(message, "body", Offset - 6)

AnsweredInv ==
  /\ AnswersMatch
  /\ \A r \in writer : r = Meant(Len(responses) + 1)

MatchInv == AnsweredInv /\ (pc # "closed" => ParsedInv)

-----------------------------------------------------------------------------
(* What llhttp hands to a callback *)
LEMMA PartNames ==
  /\ HeadParts = {"method", "url", "version", "field", "value"}
  /\ "end" \notin HeadParts /\ "body" \notin HeadParts
<1>1. HeadParts = {"method", "url", "version", "field", "value"}
  BY DEF HeadParts, Spans
<1> QED
  BY <1>1

LEMMA FieldsIs == Fields = Seq([msg : 1 .. N, part : HeadParts, k : 1 .. SpanLen])
BY MessagesType DEF Fields, HeadParts

LEMMA PieceLenIs ==
  ASSUME chunk \in Seq(AllUnits), chunk # <<>>
  PROVE  /\ PieceLen \in 1 .. Len(chunk)
         /\ \A k \in 1 .. PieceLen : SamePart(chunk[k], chunk[1])
         /\ PieceLen < Len(chunk) => ~SamePart(chunk[PieceLen + 1], chunk[1])
<1> DEFINE IsPieceLen(n) == /\ \A k \in 1 .. n : SamePart(chunk[k], chunk[1])
                            /\ n < Len(chunk) => ~SamePart(chunk[n + 1], chunk[1])
           T == {m \in 0 .. Len(chunk) : \A k \in 1 .. m : SamePart(chunk[k], chunk[1])}
<1>1. Len(chunk) \in Nat \ {0}
  BY EmptySeq
<1>2. \E n \in 1 .. Len(chunk) : IsPieceLen(n)
  <2>1. SUFFICES ASSUME \A n \in 1 .. Len(chunk) : ~IsPieceLen(n) PROVE FALSE
    OBVIOUS
  <2>2. 0 \in T
    BY <1>1
  <2>3. ASSUME NEW m \in 1 .. Len(chunk), m - 1 \in T PROVE m \in T
    <3>1. SamePart(chunk[m], chunk[1])
      <4>1. CASE m = 1
        BY <4>1 DEF SamePart
      <4>2. CASE m # 1
        <5>1. m - 1 \in 1 .. Len(chunk) /\ m - 1 < Len(chunk) /\ (m - 1) + 1 = m
          BY <1>1, <4>2
        <5>2. ~IsPieceLen(m - 1)
          BY <2>1, <5>1
        <5> QED
          BY <2>3, <5>1, <5>2
      <4> QED
        BY <4>1, <4>2
    <3>2. \A k \in 1 .. m : k = m \/ k \in 1 .. m - 1
      BY <1>1
    <3> QED
      BY <1>1, <2>3, <3>1, <3>2
  <2>4. 0 .. Len(chunk) \subseteq T
    <3> HIDE DEF T
    <3> QED
      BY <1>1, <2>2, <2>3, UpTo
  <2>5. IsPieceLen(Len(chunk))
    BY <1>1, <2>4
  <2> QED
    BY <1>1, <2>1, <2>5
<1>3. PieceLen = CHOOSE n \in 1 .. Len(chunk) : IsPieceLen(n)
  BY DEF PieceLen
<1> HIDE DEF T
<1>4. PieceLen \in 1 .. Len(chunk) /\ IsPieceLen(PieceLen)
  <2> HIDE DEF IsPieceLen
  <2> QED
    BY <1>2, <1>3
<1> QED
  BY <1>4

(* The chunk goes on where the current message stands. *)
LEMMA ChunkIs ==
  ASSUME StreamInv, pc # "closed"
  PROVE  /\ Offset \in 0 .. Size(message) /\ Size(message) \in Nat /\ Size(message) > HeadLen
         /\ Len(chunk) \in Nat
         /\ \A i \in 1 .. Len(chunk) : Offset + i <= Size(message) => chunk[i] = Unit(message, Offset + i)
         /\ \A i \in 1 .. Len(chunk) : chunk[i].msg = message => Offset + i <= Size(message)
         /\ \A i \in 1 .. Len(chunk) : chunk[i].msg \in 1 .. N
         /\ chunk # <<>> /\ Offset < Size(message) => chunk[1].msg = message
         /\ chunk # <<>> /\ Offset = Size(message) =>
              message + 1 \in 1 .. N /\ chunk[1] = Unit(message + 1, 1) /\ chunk[1].msg = message + 1
<1>1. /\ message \in 1 .. N /\ message - 1 \in 0 .. N /\ Offset \in 0 .. Size(message)
      /\ Size(message) \in Nat /\ Size(message) > HeadLen /\ HeadLen \in Nat /\ N \in Nat
  BY MessagesType DEF StreamInv
<1>2. /\ Ends(message - 1) \in Nat /\ Ends(message) = Ends(message - 1) + Size(message)
  BY <1>1, EndsType
<1>3. /\ Len(chunk) \in Nat /\ Len(Wire) \in Nat /\ taken \in 0 .. Len(Wire)
      /\ chunk \in Seq(AllUnits) /\ Len(chunk) <= taken
  BY WireAt DEF StreamInv
<1>4. Consumed = Ends(message - 1) + Offset /\ Consumed \in Nat /\ Consumed + Len(chunk) = taken
  BY <1>1, <1>2, <1>3 DEF Offset, Consumed
<1>5. ASSUME NEW i \in 1 .. Len(chunk)
      PROVE  /\ chunk[i] = Wire[Ends(message - 1) + Offset + i]
             /\ Ends(message - 1) + Offset + i \in 1 .. Len(Wire)
  <2>1. chunk[i] = Wire[Consumed + i]
    BY DEF StreamInv
  <2>2. Consumed + i \in 1 .. Len(Wire)
    BY <1>3, <1>4
  <2> QED
    BY <1>4, <2>1, <2>2
<1>6. ASSUME NEW i \in 1 .. Len(chunk), Offset + i <= Size(message)
      PROVE  chunk[i] = Unit(message, Offset + i)
  <2>1. Offset + i \in 1 .. Size(message)
    BY <1>1, <1>3, <1>6
  <2>2. Wire[Ends(message - 1) + (Offset + i)] = Unit(message, Offset + i)
    BY <1>1, <2>1, WireAt
  <2>3. Ends(message - 1) + (Offset + i) = Ends(message - 1) + Offset + i
    BY <1>1, <1>2, <1>3
  <2> QED
    BY <1>5, <2>2, <2>3
<1>7. ASSUME NEW i \in 1 .. Len(chunk), chunk[i].msg = message
      PROVE  Offset + i <= Size(message)
  <2>1. Ends(message - 1) + Offset + i <= Ends(message)
    BY <1>1, <1>5, <1>7, WireBefore, SMTT(30)
  <2> QED
    BY <1>1, <1>2, <1>3, <2>1
<1>8. ASSUME chunk # <<>>, Offset < Size(message) PROVE chunk[1].msg = message
  <2>1. 1 \in 1 .. Len(chunk) /\ Offset + 1 \in 1 .. Size(message)
    BY <1>1, <1>3, <1>8
  <2>2. chunk[1] = Unit(message, Offset + 1)
    BY <1>6, <2>1
  <2> QED
    BY <1>1, <2>1, <2>2, UnitType
<1>9. ASSUME chunk # <<>>, Offset = Size(message)
      PROVE  message + 1 \in 1 .. N /\ chunk[1] = Unit(message + 1, 1) /\ chunk[1].msg = message + 1
  <2>1. 1 \in 1 .. Len(chunk)
    BY <1>3, <1>9
  <2>2. chunk[1] = Wire[Ends(message) + 1] /\ Ends(message) + 1 \in 1 .. Len(Wire)
    BY <1>2, <1>5, <1>9, <2>1
  <2>3. message # N
    <3>1. Len(Wire) = Ends(N) /\ Ends(N) \in Nat
      BY WireAt, EndsType, MessagesType
    <3> QED
      BY <2>2, <3>1
  <2>4. message + 1 \in 1 .. N /\ (message + 1) - 1 = message
    BY <1>1, <2>3
  <2>5. 1 \in 1 .. Size(message + 1)
    BY <2>4, MessagesType
  <2>6. Wire[Ends(message) + 1] = Unit(message + 1, 1)
    BY <2>4, <2>5, WireAt
  <2> QED
    BY <2>2, <2>4, <2>5, <2>6, UnitType
<1>10. \A i \in 1 .. Len(chunk) : chunk[i].msg \in 1 .. N
  <2>1. \A i \in 1 .. Len(chunk) : chunk[i] \in AllUnits
    BY <1>3
  <2> QED
    BY <2>1 DEF AllUnits
<1> QED
  BY <1>1, <1>3, <1>6, <1>7, <1>8, <1>9, <1>10

(* A callback takes units of one part of the current message. *)
LEMMA CallbackEffect ==
  ASSUME StreamInv, NEW part, Callback(part)
  PROVE  /\ PieceLen \in Nat \ {0} /\ Offset' = Offset + PieceLen
         /\ Offset \in Nat /\ Offset + PieceLen <= Size(message)
         /\ Piece \in Seq(AllUnits) /\ Len(Piece) = PieceLen
         /\ \A i \in 1 .. PieceLen : /\ Offset + i \in 1 .. Size(message)
                                     /\ Piece[i] = Unit(message, Offset + i)
                                     /\ Unit(message, Offset + i).part = part
         /\ message' = message /\ message \in 1 .. N /\ pc = "parsing"
         /\ chunk' \in Seq(AllUnits) /\ Len(chunk') <= taken'
         /\ \A i \in 1 .. Len(chunk') : chunk'[i] = Wire[Consumed' + i]
         /\ sent' \in 0 .. Len(Wire) /\ taken' \in 0 .. sent'
<1>1. /\ pc = "parsing" /\ chunk # <<>> /\ chunk[1].msg = message /\ chunk[1].part = part
      /\ chunk' = SubSeq(chunk, PieceLen + 1, Len(chunk))
      /\ UNCHANGED <<sent, eof, taken, message>>
  BY DEF Callback, AtPart, client
<1>2. /\ chunk \in Seq(AllUnits) /\ Len(chunk) \in Nat /\ message \in 1 .. N
      /\ Len(chunk) <= taken /\ taken \in Nat
  BY MessagesType, WireAt DEF StreamInv
<1> DEFINE n == PieceLen
           L == Len(chunk)
<1>3. /\ n \in 1 .. L
      /\ \A k \in 1 .. n : chunk[k].msg = message /\ chunk[k].part = part
  BY <1>1, <1>2, PieceLenIs DEF SamePart
<1>4. /\ Offset \in 0 .. Size(message) /\ Size(message) \in Nat
      /\ \A i \in 1 .. L : Offset + i <= Size(message) => chunk[i] = Unit(message, Offset + i)
      /\ \A i \in 1 .. L : chunk[i].msg = message => Offset + i <= Size(message)
  BY <1>1, ChunkIs
<1> HIDE DEF n, L
<1>5. \A i \in 1 .. n : /\ i \in 1 .. L /\ Offset + i \in 1 .. Size(message)
                        /\ chunk[i] = Unit(message, Offset + i)
                        /\ Unit(message, Offset + i).part = part
  BY <1>2, <1>3, <1>4 DEF L
<1>6. n \in Nat \ {0} /\ n <= L /\ L \in Nat
  BY <1>2, <1>3 DEF L
<1>7. /\ Piece \in Seq(AllUnits) /\ Len(Piece) = n
      /\ \A i \in 1 .. n : Piece[i] = chunk[i]
  <2>1. \A i \in 1 .. n : chunk[i] \in AllUnits
    BY <1>2, <1>6, ElementOfSeq DEF L
  <2>2. /\ SubSeq(chunk, 1, n) \in Seq(AllUnits)
        /\ Len(SubSeq(chunk, 1, n)) = IF 1 <= n THEN n - 1 + 1 ELSE 0
        /\ \A i \in 1 .. n - 1 + 1 : SubSeq(chunk, 1, n)[i] = chunk[1 + i - 1]
    BY <1>6, <2>1, SubSeqProperties
  <2>3. Piece = SubSeq(chunk, 1, n)
    BY DEF Piece, n
  <2> QED
    BY <1>6, <2>2, <2>3
<1>8. /\ chunk' \in Seq(AllUnits) /\ Len(chunk') = L - n
      /\ \A i \in 1 .. L - n : chunk'[i] = chunk[n + i]
  <2>1. \A i \in n + 1 .. L : chunk[i] \in AllUnits
    BY <1>2, <1>6, ElementOfSeq DEF L
  <2>2. /\ SubSeq(chunk, n + 1, L) \in Seq(AllUnits)
        /\ Len(SubSeq(chunk, n + 1, L)) = IF n + 1 <= L THEN L - (n + 1) + 1 ELSE 0
        /\ \A i \in 1 .. L - (n + 1) + 1 : SubSeq(chunk, n + 1, L)[i] = chunk[(n + 1) + i - 1]
    BY <1>6, <2>1, SubSeqProperties
  <2>3. chunk' = SubSeq(chunk, n + 1, L)
    BY <1>1 DEF n, L
  <2> QED
    BY <1>6, <2>2, <2>3
<1>9. Consumed' = Consumed + n /\ Consumed \in Nat
  <2>1. Consumed' = taken - (L - n) /\ Consumed = taken - L
    BY <1>1, <1>8 DEF Consumed, L
  <2>2. L <= taken
    BY <1>2 DEF L
  <2> QED
    BY <1>2, <1>6, <2>1, <2>2
<1>10. Offset' = Offset + n
  <2>1. Ends(message - 1) \in Nat
    BY <1>2, EndsType, MessagesType
  <2>2. Offset' = Consumed' - Ends(message - 1)
    BY <1>1 DEF Offset, Ends
  <2> QED
    BY <1>6, <1>9, <2>1, <2>2 DEF Offset
<1>11. \A i \in 1 .. Len(chunk') : chunk'[i] = Wire[Consumed' + i]
  <2>1. ASSUME NEW i \in 1 .. L - n PROVE chunk'[i] = Wire[Consumed + n + i]
    <3>1. n + i \in 1 .. L /\ Consumed + (n + i) = Consumed + n + i
      BY <1>6, <1>9
    <3>2. chunk[n + i] = Wire[Consumed + (n + i)]
      BY <3>1 DEF StreamInv, L
    <3> QED
      BY <1>8, <3>1, <3>2
  <2> QED
    BY <1>8, <1>9, <2>1
<1>12. Len(chunk') <= taken'
  BY <1>1, <1>2, <1>6, <1>8 DEF L
<1>13. Offset + n <= Size(message)
  BY <1>4, <1>5, <1>6
<1>14. sent' \in 0 .. Len(Wire) /\ taken' \in 0 .. sent'
  BY <1>1 DEF StreamInv
<1>15. \A i \in 1 .. n : /\ Offset + i \in 1 .. Size(message)
                         /\ Piece[i] = Unit(message, Offset + i)
                         /\ Unit(message, Offset + i).part = part
  BY <1>5, <1>7
<1>16. Offset \in Nat
  BY <1>4
<1> QED
  BY <1>1, <1>2, <1>6, <1>7, <1>8, <1>10, <1>11, <1>12, <1>13, <1>14, <1>15, <1>16, Zenon DEF n

LEMMA SeqOf ==
  ASSUME NEW S, NEW T, NEW s \in Seq(S), \A i \in 1 .. Len(s) : s[i] \in T
  PROVE  s \in Seq(T)
<1>1. s = [i \in 1 .. Len(s) |-> s[i]] /\ Len(s) \in Nat
  OBVIOUS
<1> QED
  BY <1>1

LEMMA HeadPiece ==
  ASSUME StreamInv, NEW part \in HeadParts, Callback(part)
  PROVE  Offset + PieceLen <= HeadLen /\ Piece \in Fields
<1>1. /\ PieceLen \in Nat \ {0} /\ Offset \in Nat /\ message \in 1 .. N
      /\ Piece \in Seq(AllUnits) /\ Len(Piece) = PieceLen
      /\ \A i \in 1 .. PieceLen : /\ Offset + i \in 1 .. Size(message)
                                  /\ Piece[i] = Unit(message, Offset + i)
                                  /\ Unit(message, Offset + i).part = part
  BY CallbackEffect
<1>2. HeadLen \in Nat
  BY MessagesType
<1>3. ASSUME NEW i \in 1 .. PieceLen
      PROVE  /\ Offset + i <= HeadLen
             /\ Piece[i] \in [msg : 1 .. N, part : HeadParts, k : 1 .. SpanLen]
  <2>1. /\ Offset + i \in 1 .. Size(message) /\ Piece[i] = Unit(message, Offset + i)
        /\ Unit(message, Offset + i).part = part
    BY <1>1
  <2>2. Offset + i <= HeadLen
    <3>1. CASE Offset + i = HeadLen + 1
      BY <1>1, <2>1, <3>1, UnitType, PartNames
    <3>2. CASE Offset + i > HeadLen + 1
      BY <1>1, <2>1, <3>2, UnitType, PartNames
    <3> QED
      BY <1>1, <1>2, <3>1, <3>2
  <2>3. /\ Unit(message, Offset + i) \in AllUnits /\ Unit(message, Offset + i).msg = message
        /\ Unit(message, Offset + i).part \in HeadParts
        /\ Unit(message, Offset + i).k \in 1 .. SpanLen
    BY <1>1, <2>1, <2>2, UnitType
  <2> QED
    BY <1>1, <2>1, <2>2, <2>3 DEF AllUnits
<1>4. Offset + PieceLen <= HeadLen
  BY <1>1, <1>3
<1>5. Piece \in Fields
  BY <1>1, <1>3, FieldsIs, SeqOf
<1> QED
  BY <1>4, <1>5

LEMMA EndPiece ==
  ASSUME StreamInv, Callback("end")
  PROVE  Offset = HeadLen /\ PieceLen = 1
<1>1. /\ PieceLen \in Nat \ {0} /\ Offset \in Nat /\ message \in 1 .. N
      /\ \A i \in 1 .. PieceLen : /\ Offset + i \in 1 .. Size(message)
                                  /\ Unit(message, Offset + i).part = "end"
  BY CallbackEffect
<1>2. HeadLen \in Nat
  BY MessagesType
<1>3. ASSUME NEW i \in 1 .. PieceLen PROVE Offset + i = HeadLen + 1
  <2>1. CASE Offset + i <= HeadLen
    BY <1>1, <2>1, UnitType, PartNames
  <2>2. CASE Offset + i > HeadLen + 1
    BY <1>1, <2>2, UnitType
  <2> QED
    BY <1>1, <1>2, <2>1, <2>2
<1>4. Offset + 1 = HeadLen + 1 /\ Offset + PieceLen = HeadLen + 1
  BY <1>1, <1>3
<1> QED
  BY <1>1, <1>2, <1>4

LEMMA BodyPiece ==
  ASSUME StreamInv, Callback("body")
  PROVE  HeadLen < Offset
<1>1. /\ PieceLen \in Nat \ {0} /\ Offset \in Nat /\ message \in 1 .. N
      /\ 1 \in 1 .. PieceLen
      /\ \A i \in 1 .. PieceLen : /\ Offset + i \in 1 .. Size(message)
                                  /\ Unit(message, Offset + i).part = "body"
  BY CallbackEffect
<1>2. HeadLen \in Nat
  BY MessagesType
<1>3. CASE Offset + 1 <= HeadLen
  BY <1>1, <1>3, UnitType, PartNames
<1>4. CASE Offset + 1 = HeadLen + 1
  BY <1>1, <1>4, UnitType
<1> QED
  BY <1>1, <1>2, <1>3, <1>4

(* A span of one unit reaches its callback whole. *)
LEMMA WholePiece ==
  ASSUME StreamInv, NEW part \in HeadParts, Callback(part), SpanLen = 1
  PROVE  /\ PieceLen = 1 /\ Offset \in 0 .. 4
         /\ part = Spans[Offset + 1] /\ Piece = Part(message, part)
<1>1. /\ PieceLen \in Nat \ {0} /\ Offset \in Nat /\ message \in 1 .. N
      /\ Piece \in Seq(AllUnits) /\ Len(Piece) = PieceLen
      /\ \A i \in 1 .. PieceLen : /\ Piece[i] = Unit(message, Offset + i)
                                  /\ Unit(message, Offset + i).part = part
  BY CallbackEffect
<1>2. Offset + PieceLen <= 5 /\ HeadLen = 5
  BY HeadPiece DEF HeadLen
<1>3. ASSUME NEW k \in 1 .. 5
      PROVE  Unit(message, k) = [msg |-> message, part |-> Spans[k], k |-> 1]
  <2>1. Span(k) \in 1 .. 5 /\ k - (Span(k) - 1) * SpanLen \in 1 .. SpanLen
    BY <1>2, SpanBounds
  <2>2. (Span(k) - 1) * SpanLen = Span(k) - 1
    BY <2>1
  <2>3. Span(k) = k /\ k - (Span(k) - 1) * SpanLen = 1
    BY <2>1, <2>2
  <2> QED
    BY <1>2, <2>3 DEF Unit
<1>4. Offset \in 0 .. 4 /\ Offset + 1 \in 1 .. 5
  BY <1>1, <1>2
<1>5. part = Spans[Offset + 1]
  <2>1. Unit(message, Offset + 1).part = Spans[Offset + 1]
    BY <1>3, <1>4
  <2> QED
    BY <1>1, <2>1
<1>6. PieceLen = 1
  <2>1. SUFFICES ASSUME PieceLen # 1 PROVE FALSE
    OBVIOUS
  <2>2. 2 \in 1 .. PieceLen /\ Offset + 2 \in 1 .. 5 /\ Offset \in {0, 1, 2, 3}
    BY <1>1, <1>2, <2>1
  <2>3. Unit(message, Offset + 2).part = Spans[Offset + 2]
    BY <1>3, <2>2
  <2>4. Spans[Offset + 1] = Spans[Offset + 2]
    BY <1>1, <1>5, <2>2, <2>3
  <2> QED
    BY <2>2, <2>4 DEF Spans
<1>7. Piece = Part(message, part)
  <2>1. Piece[1] = [msg |-> message, part |-> part, k |-> 1]
    BY <1>1, <1>3, <1>4, <1>5
  <2>2. Piece = [k \in 1 .. 1 |-> Piece[k]]
    BY <1>1, <1>6
  <2> QED
    BY <2>1, <2>2 DEF Part, Units
<1> QED
  BY <1>4, <1>5, <1>6, <1>7

-----------------------------------------------------------------------------
(* StreamInv *)
LEMMA CallbackStream ==
  ASSUME StreamInv, NEW part, Callback(part), pc' \in {"parsing", "terminated"}
  PROVE  StreamInv'
<1>1. /\ Offset' = Offset + PieceLen /\ PieceLen \in Nat \ {0} /\ Offset \in Nat
      /\ Offset + PieceLen <= Size(message) /\ Size(message) \in Nat
      /\ message' = message /\ message \in 1 .. N
  BY CallbackEffect, MessagesType
<1>2. Offset' \in 0 .. Size(message')
  BY <1>1
<1>3. /\ chunk' \in Seq(AllUnits) /\ Len(chunk') <= taken'
      /\ \A i \in 1 .. Len(chunk') : chunk'[i] = Wire[Consumed' + i]
      /\ sent' \in 0 .. Len(Wire) /\ taken' \in 0 .. sent'
  BY CallbackEffect
<1> QED
  BY <1>1, <1>2, <1>3 DEF StreamInv

LEMMA EndStream ==
  ASSUME StreamInv, EndConnection
  PROVE  StreamInv'
<1>1. /\ pc' = "closed" /\ chunk' = <<>>
      /\ sent' = sent /\ taken' = taken /\ message' = message
  BY DEF EndConnection, client, parser
<1>2. taken \in Nat /\ <<>> \in Seq(AllUnits) /\ Len(<<>>) = 0
  BY WireAt DEF StreamInv
<1>3. \A i \in 1 .. Len(chunk') : FALSE
  BY <1>1, <1>2
<1> QED
  BY <1>1, <1>2, <1>3 DEF StreamInv

LEMMA ReadEffect ==
  ASSUME StreamInv, Read
  PROVE  /\ StreamInv' /\ Offset' = Offset /\ message' = message
<1>1. /\ pc = "reading" /\ taken < sent /\ chunk' = SubSeq(Wire, taken + 1, sent)
      /\ taken' = sent /\ sent' = sent /\ message' = message /\ pc' = "parsing"
  BY DEF Read, client, parser
<1>2. chunk = <<>> /\ Len(chunk) = 0
  BY <1>1 DEF StreamInv
<1>3. /\ taken \in Nat /\ sent \in Nat /\ sent <= Len(Wire) /\ Len(Wire) \in Nat
      /\ Wire \in Seq(AllUnits)
  BY WireAt, LenProperties DEF StreamInv
<1>4. /\ SubSeq(Wire, taken + 1, sent) \in Seq(AllUnits)
      /\ Len(SubSeq(Wire, taken + 1, sent)) = sent - taken
      /\ \A i \in 1 .. sent - taken : SubSeq(Wire, taken + 1, sent)[i] = Wire[taken + i]
  <2>1. \A i \in taken + 1 .. sent : Wire[i] \in AllUnits
    BY <1>3, ElementOfSeq
  <2>2. /\ SubSeq(Wire, taken + 1, sent) \in Seq(AllUnits)
        /\ Len(SubSeq(Wire, taken + 1, sent)) = IF taken + 1 <= sent THEN sent - (taken + 1) + 1 ELSE 0
        /\ \A i \in 1 .. sent - (taken + 1) + 1 :
             SubSeq(Wire, taken + 1, sent)[i] = Wire[(taken + 1) + i - 1]
    BY <1>3, <2>1, SubSeqProperties
  <2> QED
    BY <1>1, <1>3, <2>2
<1>5. Consumed' = taken /\ Consumed = taken
  BY <1>1, <1>2, <1>3, <1>4 DEF Consumed
<1>6. Offset' = Offset
  BY <1>1, <1>5 DEF Offset
<1>7. Len(chunk') <= taken' /\ chunk' \in Seq(AllUnits)
  BY <1>1, <1>3, <1>4
<1>8. \A i \in 1 .. Len(chunk') : chunk'[i] = Wire[Consumed' + i]
  BY <1>1, <1>4, <1>5
<1>9. sent' \in 0 .. Len(Wire) /\ taken' \in 0 .. sent' /\ message' \in 1 .. N
  BY <1>1, <1>3 DEF StreamInv
<1>10. Offset' \in 0 .. Size(message')
  BY <1>1, <1>6 DEF StreamInv
<1>11. StreamInv'
  BY <1>1, <1>7, <1>8, <1>9, <1>10 DEF StreamInv
<1> QED
  BY <1>1, <1>6, <1>11

(* A reset takes nothing: the message before it was parsed to its end. *)
LEMMA ResetEffect ==
  ASSUME StreamInv, OnReset
  PROVE  /\ StreamInv' /\ Offset = Size(message) /\ Offset' = 0
         /\ message' = message + 1 /\ message \in Nat
<1>1. /\ pc = "parsing" /\ chunk # <<>> /\ chunk[1].msg # message
      /\ message' = chunk[1].msg /\ pc' = pc
      /\ sent' = sent /\ taken' = taken /\ chunk' = chunk
  BY DEF OnReset, client
<1>2. Offset \in 0 .. Size(message) /\ Size(message) \in Nat
  BY <1>1, ChunkIs
<1>3. Offset = Size(message) /\ message + 1 \in 1 .. N /\ message' = message + 1
  BY <1>1, <1>2, ChunkIs
<1>4. message \in 1 .. N /\ Ends(message - 1) \in Nat
      /\ Ends(message) = Ends(message - 1) + Size(message) /\ (message + 1) - 1 = message
  BY EndsType, MessagesType DEF StreamInv
<1>5. Consumed' = Consumed /\ Consumed \in Int
  <2>1. Len(chunk) \in Nat /\ taken \in Nat
    BY WireAt DEF StreamInv
  <2> QED
    BY <1>1, <2>1 DEF Consumed
<1>6. Offset' = 0
  <2>1. Offset' = Consumed - Ends(message)
    BY <1>3, <1>4, <1>5 DEF Offset, Ends
  <2> QED
    BY <1>2, <1>3, <1>4, <1>5, <2>1 DEF Offset
<1>7. Size(message + 1) \in Nat
  BY <1>3, MessagesType
<1>8. Offset' \in 0 .. Size(message')
  BY <1>3, <1>6, <1>7
<1>9. \A i \in 1 .. Len(chunk') : chunk'[i] = Wire[Consumed' + i]
  BY <1>1, <1>5 DEF StreamInv
<1>10. StreamInv'
  BY <1>1, <1>3, <1>8, <1>9 DEF StreamInv
<1> QED
  BY <1>3, <1>4, <1>6, <1>10

(* A step that takes nothing *)
LEMMA StreamStays ==
  ASSUME StreamInv, UNCHANGED <<taken, chunk, message, pc>>, sent' \in sent .. Len(Wire)
  PROVE  StreamInv' /\ Offset' = Offset /\ Finished' = Finished
<1>1. Consumed' = Consumed
  BY DEF Consumed
<1>2. Offset' = Offset
  BY <1>1 DEF Offset
<1>3. Finished' = Finished
  BY <1>2 DEF Finished
<1>4. sent' \in 0 .. Len(Wire) /\ taken' \in 0 .. sent'
  BY WireAt, LenProperties DEF StreamInv
<1>5. Offset' \in 0 .. Size(message') \/ pc = "closed"
  BY <1>2 DEF StreamInv
<1>6. StreamInv'
  BY <1>1, <1>4, <1>5 DEF StreamInv
<1> QED
  BY <1>2, <1>3, <1>6

LEMMA ReadAgain ==
  ASSUME StreamInv, pc = "parsing", chunk = <<>>,
         pc' = "reading", UNCHANGED <<client, taken, chunk, parser, replies>>
  PROVE  StreamInv' /\ Offset' = Offset /\ Finished' = Finished
<1>1. UNCHANGED <<sent, taken, chunk, message>>
  BY DEF client, parser
<1>2. Consumed' = Consumed
  BY <1>1 DEF Consumed
<1>3. Offset' = Offset
  BY <1>1, <1>2 DEF Offset
<1>4. Finished' = Finished
  BY <1>1, <1>3 DEF Finished
<1>5. Offset' \in 0 .. Size(message')
  BY <1>1, <1>3 DEF StreamInv
<1>6. StreamInv'
  BY <1>1, <1>2, <1>5 DEF StreamInv
<1> QED
  BY <1>3, <1>4, <1>6

LEMMA StreamStep ==
  ASSUME StreamInv, [Next]_vars
  PROVE  StreamInv'
<1>1. CASE Send
  <2>1. UNCHANGED <<taken, chunk, message, pc>> /\ sent' = sent + 1 /\ sent < Len(Wire)
    BY <1>1 DEF Send, parser
  <2>2. sent' \in sent .. Len(Wire)
    BY <2>1, WireAt, LenProperties DEF StreamInv
  <2> QED
    BY <2>1, <2>2, StreamStays
<1>2. CASE UNCHANGED <<sent, taken, chunk, message, pc>>
  <2>1. sent' \in sent .. Len(Wire)
    BY <1>2, WireAt, LenProperties DEF StreamInv
  <2> QED
    BY <1>2, <2>1, StreamStays
<1>3. CASE Leave
  BY <1>2, <1>3 DEF Leave, parser
<1>4. CASE Read
  BY <1>4, ReadEffect
<1>5. CASE EndConnection
  BY <1>5, EndStream
<1>6. CASE ReadEof \/ ReadTimesOut
  BY <1>5, <1>6 DEF ReadEof, ReadTimesOut
<1>7. CASE ParseEnds
  <2>1. CASE stop
    BY <1>5, <1>7, <2>1 DEF ParseEnds
  <2>2. CASE ~stop
    BY <1>7, <2>2, ReadAgain DEF ParseEnds
  <2> QED
    BY <2>1, <2>2
<1>8. CASE OnReset
  BY <1>8, ResetEffect
<1>9. CASE OnMethod
  <2>1. Callback("method") /\ pc' \in {"parsing", "terminated"}
    BY <1>9 DEF OnMethod, Callback, AtPart
  <2> QED
    BY <2>1, CallbackStream
<1>10. CASE OnVersion
  <2>1. Callback("version") /\ pc' \in {"parsing", "terminated"}
    BY <1>10 DEF OnVersion, Callback, AtPart
  <2> QED
    BY <2>1, CallbackStream
<1>11. CASE OnUrl
  <2>1. Callback("url") /\ pc' \in {"parsing", "terminated"}
    BY <1>11 DEF OnUrl, Callback, AtPart
  <2> QED
    BY <2>1, CallbackStream
<1>12. CASE OnHeaderField
  <2>1. Callback("field") /\ pc' \in {"parsing", "terminated"}
    BY <1>12 DEF OnHeaderField, Callback, AtPart
  <2> QED
    BY <2>1, CallbackStream
<1>13. CASE OnHeaderValue
  <2>1. CASE last_header_field = <<>>
    BY <1>5, <1>13, <2>1 DEF OnHeaderValue
  <2>2. CASE last_header_field # <<>>
    <3>1. Callback("value") /\ pc' \in {"parsing", "terminated"}
      BY <1>13, <2>2 DEF OnHeaderValue, Callback, AtPart
    <3> QED
      BY <3>1, CallbackStream
  <2> QED
    BY <2>1, <2>2
<1>14. CASE OnHeadersComplete
  <2>1. Callback("end") /\ pc' \in {"parsing", "terminated"}
    BY <1>14 DEF OnHeadersComplete, Callback, AtPart
  <2> QED
    BY <2>1, CallbackStream
<1>15. CASE OnBody
  <2>1. Callback("body") /\ pc' \in {"parsing", "terminated"}
    BY <1>15 DEF OnBody, Callback, AtPart
  <2> QED
    BY <2>1, CallbackStream
<1>16. CASE Write \/ WriteFails
  BY <1>2, <1>16 DEF Write, WriteFails, client, parser
<1>17. CASE UNCHANGED vars
  BY <1>2, <1>17 DEF vars, client, parser
<1> QED
  BY <1>1, <1>3, <1>4, <1>6, <1>7, <1>8, <1>9, <1>10, <1>11, <1>12, <1>13, <1>14, <1>15,
     <1>16, <1>17 DEF Next, Handle, Respond, Parse

-----------------------------------------------------------------------------
(* RequestInv *)
LEMMA HeadCallback ==
  ASSUME StreamInv, NEW part \in HeadParts, Callback(part)
  PROVE  /\ Offset \in Nat /\ Offset' \in Nat /\ Offset < Offset' /\ Offset' <= HeadLen
         /\ message' = message /\ message \in 1 .. N
         /\ Finished = message - 1 /\ Finished' = message - 1
<1>1. /\ Offset' = Offset + PieceLen /\ PieceLen \in Nat \ {0} /\ Offset \in Nat
      /\ message' = message /\ message \in 1 .. N
  BY CallbackEffect
<1>2. Offset + PieceLen <= HeadLen
  BY HeadPiece
<1>3. Size(message) \in Nat /\ Size(message) > HeadLen /\ HeadLen \in Nat
  BY <1>1, MessagesType
<1>4. Offset < Size(message) /\ Offset' < Size(message) /\ Size(message') = Size(message)
  BY <1>1, <1>2, <1>3
<1> QED
  BY <1>1, <1>2, <1>4 DEF Finished

LEMMA EndCallback ==
  ASSUME StreamInv, Callback("end")
  PROVE  /\ Offset = HeadLen /\ Offset' = HeadLen + 1 /\ message' = message
         /\ message \in 1 .. N /\ Finished = message - 1
         /\ Finished' = IF Messages[message].body = 0 THEN message ELSE message - 1
<1>1. /\ Offset' = Offset + PieceLen /\ message' = message /\ message \in 1 .. N
  BY CallbackEffect
<1>2. Offset = HeadLen /\ PieceLen = 1
  BY EndPiece
<1>3. /\ Size(message) = HeadLen + 1 + Messages[message].body /\ HeadLen \in Nat
      /\ Messages[message].body \in Nat /\ Size(message') = Size(message)
  BY <1>1, MessagesType DEF Size
<1>4. /\ Offset # Size(message)
      /\ Offset' = Size(message') <=> Messages[message].body = 0
  BY <1>1, <1>2, <1>3
<1>5. Finished = message - 1
  BY <1>4 DEF Finished
<1>6. Finished' = IF Messages[message].body = 0 THEN message ELSE message - 1
  BY <1>1, <1>4 DEF Finished
<1> QED
  BY <1>1, <1>2, <1>5, <1>6

(* Each piece of a body is appended; the last one makes it whole. *)
LEMMA BodyCallback ==
  ASSUME StreamInv, RequestInv, Callback("body")
  PROVE  LET r == [req EXCEPT !.body = @ \o Piece] IN
         /\ r \in Requests /\ Len(r.body) = Offset' - HeadLen - 1
         /\ r.body = req.body \o Piece
         /\ HeadLen < Offset /\ Offset < Size(message)
         /\ Offset \in Nat /\ Offset' \in Nat /\ Offset < Offset' /\ Offset' <= Size(message)
         /\ message' = message /\ message \in 1 .. N
         /\ content_length = Messages[message].body
         /\ Finished = message - 1
         /\ Finished' = IF HasBody(r) THEN message ELSE message - 1
         /\ HasBody(r) <=> Offset' = Size(message)
<1> DEFINE r == [req EXCEPT !.body = @ \o Piece]
<1>1. /\ Offset' = Offset + PieceLen /\ PieceLen \in Nat \ {0} /\ Offset \in Nat
      /\ Offset + PieceLen <= Size(message)
      /\ message' = message /\ message \in 1 .. N /\ pc = "parsing"
      /\ Piece \in Seq(AllUnits) /\ Len(Piece) = PieceLen
  BY CallbackEffect
<1>2. HeadLen < Offset
  BY BodyPiece
<1>3. /\ Size(message) = HeadLen + 1 + Messages[message].body /\ HeadLen \in Nat
      /\ Messages[message].body \in Nat /\ Size(message') = Size(message)
  BY <1>1, MessagesType DEF Size
<1>4. HeadLen < Offset /\ Offset < Size(message)
  BY <1>1, <1>2, <1>3
<1>5. /\ req \in Requests /\ Len(req.body) = Offset - HeadLen - 1
      /\ content_length = Messages[message].body
  BY <1>1, <1>4 DEF RequestInv
<1>6. req.body \in Seq(AllUnits)
  BY <1>5 DEF Requests
<1>7. /\ req.body \o Piece \in Seq(AllUnits)
      /\ Len(req.body \o Piece) = Len(req.body) + Len(Piece)
  BY <1>1, <1>6, ConcatProperties
<1>8. r \in Requests /\ r.body = req.body \o Piece
  BY <1>5, <1>7 DEF Requests
<1> HIDE DEF r
<1>9. Len(r.body) = Offset' - HeadLen - 1
  BY <1>1, <1>3, <1>5, <1>7, <1>8
<1>10. HasBody(r) <=> Offset' = Size(message)
  BY <1>1, <1>3, <1>5, <1>9 DEF HasBody
<1>11. Finished = message - 1
  BY <1>1, <1>4 DEF Finished
<1>12. Finished' = IF HasBody(r) THEN message ELSE message - 1
  BY <1>1, <1>3, <1>10 DEF Finished
<1>13. Offset' \in Nat /\ Offset < Offset' /\ Offset' <= Size(message)
  BY <1>1
<1> QED
  BY <1>1, <1>4, <1>5, <1>8, <1>9, <1>10, <1>11, <1>12, <1>13 DEF r

LEMMA EmptiedType ==
  ASSUME NEW r \in Requests
  PROVE  Emptied(r) \in Requests /\ Emptied(r).body = <<>> /\ Len(Emptied(r).body) = 0
         /\ Emptied(r).method = r.method /\ Emptied(r).version = r.version
         /\ Emptied(r).headers = {}
<1>1. <<>> \in Fields /\ <<>> \in Seq(AllUnits) /\ {} \in SUBSET (Fields \X Fields)
  BY FieldsIs
<1>2. Len(<<>>) = 0
  OBVIOUS
<1> QED
  BY <1>1, <1>2 DEF Emptied, Requests

LEMMA RequestStays ==
  ASSUME StreamInv, RequestInv, UNCHANGED <<req, last_header_field, content_length>>,
         pc' = "closed" \/ (pc # "closed" /\ Offset' = Offset /\ message' = message)
  PROVE  RequestInv'
BY DEF RequestInv

LEMMA HeadRequest ==
  ASSUME StreamInv, RequestInv, NEW part \in HeadParts, Callback(part),
         req' \in Requests, req'.body = req.body, last_header_field' \in Fields,
         content_length' = content_length
  PROVE  RequestInv'
<1>1. /\ Offset \in Nat /\ Offset' \in Nat /\ Offset < Offset' /\ Offset' <= HeadLen
      /\ message' = message /\ message \in 1 .. N
  BY HeadCallback
<1>2. pc # "closed" /\ Size(message) > HeadLen /\ Size(message) \in Nat /\ HeadLen \in Nat
  BY <1>1, MessagesType DEF Callback, AtPart
<1>3. Offset <= HeadLen
  BY <1>1, <1>2
<1>4. req.body = <<>> /\ content_length \in Nat /\ Len(req.body) <= content_length
  BY <1>2, <1>3 DEF RequestInv
<1>5. ~(HeadLen < Offset')
  BY <1>1, <1>2
<1> QED
  BY <1>4, <1>5 DEF RequestInv

LEMMA RequestStep ==
  ASSUME StreamInv, RequestInv, [Next]_vars
  PROVE  RequestInv'
<1>0. req \in Requests /\ last_header_field \in Fields /\ content_length \in Nat
      /\ Len(req.body) <= content_length
  BY DEF RequestInv
<1> DEFINE Stays == UNCHANGED <<req, last_header_field, content_length, message>>
<1>1. CASE Stays /\ UNCHANGED <<sent, taken, chunk, pc>>
  <2>1. sent' \in sent .. Len(Wire)
    BY <1>1, WireAt, LenProperties DEF StreamInv
  <2> QED
    BY <1>1, <2>1, StreamStays, RequestStays DEF RequestInv
<1>2. CASE Send
  <2>1. /\ UNCHANGED <<req, last_header_field, content_length, taken, chunk, message, pc>>
        /\ sent' = sent + 1 /\ sent < Len(Wire)
    BY <1>2 DEF Send, parser
  <2>2. sent' \in sent .. Len(Wire)
    BY <2>1, WireAt, LenProperties DEF StreamInv
  <2>3. Offset' = Offset
    BY <2>1, <2>2, StreamStays
  <2> QED
    BY <2>1, <2>3 DEF RequestInv
<1>3. CASE Leave
  BY <1>1, <1>3 DEF Leave, parser
<1>4. CASE Read
  <2>1. Stays /\ pc # "closed"
    BY <1>4 DEF Read, parser
  <2>2. Offset' = Offset
    BY <1>4, ReadEffect
  <2> QED
    BY <2>1, <2>2, RequestStays
<1>5. CASE EndConnection
  BY <1>5, RequestStays DEF EndConnection, parser
<1>6. CASE ReadEof \/ ReadTimesOut
  BY <1>5, <1>6 DEF ReadEof, ReadTimesOut
<1>7. CASE ParseEnds
  <2>1. CASE stop
    BY <1>5, <1>7, <2>1 DEF ParseEnds
  <2>2. CASE ~stop
    <3>1. Stays /\ pc # "closed"
      BY <1>7, <2>2 DEF ParseEnds, parser
    <3>2. Offset' = Offset
      BY <1>7, <2>2, ReadAgain DEF ParseEnds
    <3> QED
      BY <3>1, <3>2, RequestStays
  <2> QED
    BY <2>1, <2>2
<1>8. CASE OnReset
  <2>1. Offset' = 0 /\ HeadLen \in Nat \ {0}
    BY <1>8, ResetEffect, MessagesType
  <2>2. req' = Emptied(req) /\ last_header_field' = <<>> /\ content_length' = 0
    BY <1>8 DEF OnReset
  <2>3. req' \in Requests /\ req'.body = <<>> /\ Len(req'.body) = 0 /\ <<>> \in Fields
    BY <1>0, <2>2, EmptiedType, FieldsIs
  <2>4. ~(HeadLen < Offset')
    BY <2>1
  <2> QED
    BY <2>2, <2>3, <2>4 DEF RequestInv
<1>9. CASE OnMethod
  <2>1. "method" \in HeadParts /\ Callback("method")
    BY <1>9, PartNames DEF OnMethod
  <2>2. Piece \in Fields
    BY <2>1, HeadPiece
  <2>3. req' \in Requests /\ req'.body = req.body /\ UNCHANGED <<last_header_field, content_length>>
    BY <1>0, <1>9, <2>2 DEF OnMethod, Requests
  <2> QED
    BY <1>0, <2>1, <2>3, HeadRequest
<1>10. CASE OnVersion
  <2>1. "version" \in HeadParts /\ Callback("version")
    BY <1>10, PartNames DEF OnVersion
  <2>2. Piece \in Fields
    BY <2>1, HeadPiece
  <2>3. req' \in Requests /\ req'.body = req.body /\ UNCHANGED <<last_header_field, content_length>>
    BY <1>0, <1>10, <2>2 DEF OnVersion, Requests
  <2> QED
    BY <1>0, <2>1, <2>3, HeadRequest
<1>11. CASE OnUrl
  <2>1. "url" \in HeadParts /\ Callback("url")
    BY <1>11, PartNames DEF OnUrl
  <2>2. Piece \in Fields
    BY <2>1, HeadPiece
  <2>3. req' \in Requests /\ req'.body = req.body /\ UNCHANGED <<last_header_field, content_length>>
    BY <1>0, <1>11, <2>2 DEF OnUrl, Requests
  <2> QED
    BY <1>0, <2>1, <2>3, HeadRequest
<1>12. CASE OnHeaderField
  <2>1. "field" \in HeadParts /\ Callback("field")
    BY <1>12, PartNames DEF OnHeaderField
  <2>2. last_header_field' \in Fields
    BY <1>12, <2>1, HeadPiece DEF OnHeaderField
  <2>3. UNCHANGED <<req, content_length>>
    BY <1>12 DEF OnHeaderField
  <2> QED
    BY <1>0, <2>1, <2>2, <2>3, HeadRequest
<1>13. CASE OnHeaderValue
  <2>1. CASE last_header_field = <<>>
    BY <1>5, <1>13, <2>1 DEF OnHeaderValue
  <2>2. CASE last_header_field # <<>>
    <3>1. "value" \in HeadParts /\ Callback("value")
      BY <1>13, <2>2, PartNames DEF OnHeaderValue
    <3>2. Piece \in Fields
      BY <3>1, HeadPiece
    <3>3. /\ req' = [req EXCEPT !.headers =
                       {h \in @ : h[1] # last_header_field} \cup {<<last_header_field, Piece>>}]
          /\ last_header_field' = <<>> /\ UNCHANGED content_length
      BY <1>13, <2>2 DEF OnHeaderValue
    <3>4. {h \in req.headers : h[1] # last_header_field} \cup {<<last_header_field, Piece>>}
            \in SUBSET (Fields \X Fields)
      BY <1>0, <3>2 DEF Requests
    <3>5. req' \in Requests /\ req'.body = req.body
      BY <1>0, <3>3, <3>4 DEF Requests
    <3>6. last_header_field' \in Fields
      BY <3>3, FieldsIs
    <3> QED
      BY <3>1, <3>3, <3>5, <3>6, HeadRequest
  <2> QED
    BY <2>1, <2>2
<1>14. CASE OnHeadersComplete
  <2>1. /\ Callback("end") /\ pc # "closed" /\ UNCHANGED last_header_field
        /\ IF Messages[message].body = 0
           THEN req' = Emptied(req) /\ UNCHANGED content_length
           ELSE content_length' = Messages[message].body /\ UNCHANGED req
    BY <1>14 DEF OnHeadersComplete, Callback, AtPart, Complete, replies
  <2>2. /\ Offset = HeadLen /\ Offset' = HeadLen + 1 /\ message' = message
        /\ message \in 1 .. N
    BY <2>1, EndCallback
  <2>3. /\ Size(message') = HeadLen + 1 + Messages[message].body
        /\ HeadLen \in Nat /\ Messages[message].body \in Nat
    BY <2>2, MessagesType DEF Size
  <2>4. req.body = <<>> /\ Len(req.body) = 0
    BY <2>1, <2>2, <2>3 DEF RequestInv
  <2>5. CASE Messages[message].body = 0
    <3>1. req' \in Requests /\ req'.body = <<>> /\ Len(req'.body) = 0
      BY <1>0, <2>1, <2>5, EmptiedType
    <3>2. ~(Offset' < Size(message')) /\ content_length' \in Nat /\ 0 <= content_length'
      BY <1>0, <2>1, <2>2, <2>3, <2>5
    <3> QED
      BY <1>0, <2>1, <3>1, <3>2 DEF RequestInv
  <2>6. CASE Messages[message].body # 0
    <3>1. req' = req /\ content_length' = Messages[message].body
      BY <2>1, <2>6
    <3>2. Len(req'.body) = Offset' - HeadLen - 1 /\ Len(req'.body) <= content_length'
      BY <2>2, <2>3, <2>4, <3>1
    <3> QED
      BY <1>0, <2>1, <2>2, <2>3, <2>4, <3>1, <3>2 DEF RequestInv
  <2> QED
    BY <2>5, <2>6
<1>15. CASE OnBody
  <2> DEFINE r == [req EXCEPT !.body = @ \o Piece]
  <2>1. /\ Callback("body") /\ UNCHANGED <<last_header_field, content_length>>
        /\ req' = IF HasBody(r) THEN Emptied(r) ELSE r
    BY <1>15 DEF OnBody, Complete
  <2>2. /\ r \in Requests /\ Len(r.body) = Offset' - HeadLen - 1
        /\ Offset \in Nat /\ Offset' \in Nat /\ HeadLen < Offset /\ Offset < Offset'
        /\ Offset' <= Size(message)
        /\ message' = message /\ message \in 1 .. N
        /\ content_length = Messages[message].body
        /\ HasBody(r) <=> Offset' = Size(message)
    BY <2>1, BodyCallback
  <2> HIDE DEF r
  <2>3. /\ Size(message') = HeadLen + 1 + Messages[message].body
        /\ Size(message') = Size(message)
        /\ HeadLen \in Nat /\ Messages[message].body \in Nat
    BY <2>2, MessagesType DEF Size
  <2>4. CASE HasBody(r)
    <3>1. req' \in Requests /\ req'.body = <<>> /\ Len(req'.body) = 0
      BY <2>1, <2>2, <2>4, EmptiedType
    <3>2. ~(Offset' < Size(message')) /\ 0 <= content_length'
      BY <1>0, <2>1, <2>2, <2>3, <2>4
    <3> QED
      BY <1>0, <2>1, <3>1, <3>2 DEF RequestInv
  <2>5. CASE ~HasBody(r)
    <3>1. req' = r /\ content_length' = Messages[message'].body
      BY <2>1, <2>2, <2>5
    <3>2. /\ Len(req'.body) = Offset' - HeadLen - 1 /\ Len(req'.body) <= content_length'
          /\ ~(Offset' <= HeadLen \/ Offset' = Size(message'))
      BY <2>1, <2>2, <2>3, <2>5, <3>1
    <3> QED
      BY <1>0, <2>1, <2>2, <3>1, <3>2 DEF RequestInv
  <2> QED
    BY <2>4, <2>5
<1>16. CASE Write \/ WriteFails
  BY <1>1, <1>16 DEF Write, WriteFails, client, parser
<1>17. CASE UNCHANGED vars
  BY <1>1, <1>17 DEF vars, client, parser
<1> QED
  BY <1>2, <1>3, <1>4, <1>6, <1>7, <1>8, <1>9, <1>10, <1>11, <1>12, <1>13, <1>14, <1>15,
     <1>16, <1>17 DEF Next, Handle, Respond, Parse

-----------------------------------------------------------------------------
(* ReplyInv *)
LEMMA FinishedType ==
  /\ StreamInv => Finished \in 0 .. N
  /\ StreamInv' => Finished' \in 0 .. N
BY MessagesType, SMTT(30) DEF StreamInv, Finished

LEMMA ReplyStays ==
  ASSUME StreamInv, StreamInv', ReplyInv, UNCHANGED <<writer, responses, stop>>,
         eof' \in BOOLEAN, pc # "closed", pc' # "closed", Finished <= Finished'
  PROVE  ReplyInv'
<1>1. Finished \in 0 .. N /\ Finished' \in 0 .. N /\ Len(responses) \in Nat
  BY FinishedType DEF ReplyInv
<1>2. Len(responses) <= Finished' /\ (writer # {} => Len(responses) < Finished')
  <2>1. Len(responses) <= Finished /\ (writer # {} => Len(responses) < Finished)
    BY DEF ReplyInv
  <2> QED
    BY <1>1, <2>1
<1> QED
  BY <1>2 DEF ReplyInv

LEMMA ReplyRests ==
  ASSUME StreamInv, StreamInv', ReplyInv, UNCHANGED <<writer, responses, stop>>,
         eof' \in BOOLEAN, pc' = pc, Finished' = Finished
  PROVE  ReplyInv'
BY DEF ReplyInv

LEMMA CompleteReply ==
  ASSUME StreamInv, StreamInv', ReplyInv, NEW r \in Requests, Complete(r),
         eof' = eof, pc # "closed", pc' # "closed", Finished < Finished'
  PROVE  ReplyInv'
<1>1. Finished \in 0 .. N /\ Finished' \in 0 .. N /\ Len(responses) \in Nat
  BY FinishedType DEF ReplyInv
<1>2. writer' = {r} /\ responses' = responses /\ stop' = stop
  BY DEF Complete
<1>3. Len(responses') <= Finished' /\ Len(responses') < Finished'
  BY <1>1, <1>2 DEF ReplyInv
<1>4. writer' \subseteq Requests
  BY <1>2
<1> QED
  BY <1>2, <1>3, <1>4 DEF ReplyInv

LEMMA EndReply ==
  ASSUME ReplyInv, EndConnection
  PROVE  ReplyInv'
BY DEF ReplyInv, EndConnection, CloseFile, client

LEMMA HeadReply ==
  ASSUME StreamInv, StreamInv', ReplyInv, NEW part \in HeadParts, Callback(part),
         UNCHANGED replies, pc' # "closed"
  PROVE  ReplyInv'
<1>1. Finished' = Finished
  BY HeadCallback
<1>2. UNCHANGED <<writer, responses, stop, eof>> /\ pc = "parsing"
  BY DEF replies, Callback, AtPart, client
<1>3. eof' \in BOOLEAN
  BY <1>2 DEF ReplyInv
<1>4. Finished <= Finished'
  BY <1>1, FinishedType
<1> QED
  BY <1>2, <1>3, <1>4, ReplyStays

LEMMA ReplyStep ==
  ASSUME Inv, [Next]_vars
  PROVE  ReplyInv'
<1>0. StreamInv /\ StreamInv' /\ RequestInv /\ ReplyInv
  BY StreamStep DEF Inv
<1>1. ASSUME UNCHANGED <<writer, responses, stop, taken, chunk, message, pc>>,
             eof' \in BOOLEAN, sent' \in sent .. Len(Wire)
      PROVE  ReplyInv'
  BY <1>0, <1>1, StreamStays, ReplyRests
<1>2. sent \in sent .. Len(Wire) /\ eof \in BOOLEAN
  BY <1>0, WireAt, LenProperties DEF StreamInv, ReplyInv
<1>3. CASE Send
  <2>1. /\ UNCHANGED <<writer, responses, stop, taken, chunk, message, pc, eof>>
        /\ sent' = sent + 1 /\ sent < Len(Wire)
    BY <1>3 DEF Send, parser, replies
  <2>2. sent' \in sent .. Len(Wire)
    BY <1>0, <2>1, WireAt, LenProperties DEF StreamInv
  <2> QED
    BY <1>1, <1>2, <2>1, <2>2
<1>4. CASE Leave
  BY <1>1, <1>2, <1>4 DEF Leave, parser, replies
<1>5. CASE Read
  <2>1. UNCHANGED <<writer, responses, stop, eof>> /\ pc # "closed" /\ pc' # "closed"
    BY <1>5 DEF Read, client, replies
  <2>2. Finished' = Finished
    BY <1>0, <1>5, ReadEffect DEF Finished
  <2>3. Finished <= Finished'
    BY <1>0, <2>2, FinishedType
  <2> QED
    BY <1>0, <1>2, <2>1, <2>3, ReplyStays
<1>6. CASE EndConnection
  BY <1>0, <1>6, EndReply
<1>7. CASE ReadEof \/ ReadTimesOut
  BY <1>6, <1>7 DEF ReadEof, ReadTimesOut
<1>8. CASE ParseEnds
  <2>1. CASE stop
    BY <1>6, <1>8, <2>1 DEF ParseEnds
  <2>2. CASE ~stop
    <3>1. UNCHANGED <<writer, responses, stop, eof>> /\ pc # "closed" /\ pc' # "closed"
      BY <1>8, <2>2 DEF ParseEnds, client, replies
    <3>2. Finished' = Finished
      BY <1>0, <1>8, <2>2, ReadAgain DEF ParseEnds
    <3>3. Finished <= Finished'
      BY <1>0, <3>2, FinishedType
    <3> QED
      BY <1>0, <1>2, <3>1, <3>3, ReplyStays
  <2> QED
    BY <2>1, <2>2
<1>9. CASE OnReset
  <2>1. UNCHANGED <<writer, responses, stop, eof>> /\ pc # "closed" /\ pc' # "closed"
    BY <1>9 DEF OnReset, client, replies
  <2>2. Offset = Size(message) /\ Offset' = 0 /\ message' = message + 1 /\ message \in Nat
    BY <1>0, <1>9, ResetEffect
  <2>3. Size(message') > 0
    BY <1>0, MessagesType DEF StreamInv
  <2>4. Finished = message /\ Finished' = message
    BY <2>2, <2>3 DEF Finished
  <2>5. Finished <= Finished'
    BY <2>2, <2>4
  <2> QED
    BY <1>0, <1>2, <2>1, <2>5, ReplyStays
<1>10. CASE OnMethod
  BY <1>0, <1>10, HeadReply, PartNames DEF OnMethod, Callback, AtPart
<1>11. CASE OnVersion
  BY <1>0, <1>11, HeadReply, PartNames DEF OnVersion, Callback, AtPart
<1>12. CASE OnUrl
  BY <1>0, <1>12, HeadReply, PartNames DEF OnUrl, Callback, AtPart
<1>13. CASE OnHeaderField
  BY <1>0, <1>13, HeadReply, PartNames DEF OnHeaderField, Callback, AtPart
<1>14. CASE OnHeaderValue
  <2>1. CASE last_header_field = <<>>
    BY <1>6, <1>14, <2>1 DEF OnHeaderValue
  <2>2. CASE last_header_field # <<>>
    BY <1>0, <1>14, <2>2, HeadReply, PartNames DEF OnHeaderValue, Callback, AtPart
  <2> QED
    BY <2>1, <2>2
<1>15. CASE OnHeadersComplete
  <2>1. /\ Callback("end") /\ pc = "parsing" /\ pc' = pc /\ eof' = eof
        /\ IF Messages[message].body = 0 THEN Complete(req) ELSE UNCHANGED replies
    BY <1>15 DEF OnHeadersComplete, Callback, AtPart, client
  <2>2. /\ message \in 1 .. N /\ Finished = message - 1
        /\ Finished' = IF Messages[message].body = 0 THEN message ELSE message - 1
    BY <1>0, <2>1, EndCallback
  <2>3. CASE Messages[message].body = 0
    <3>1. Finished < Finished'
      BY <2>2, <2>3
    <3>2. req \in Requests
      BY <1>0 DEF RequestInv
    <3> QED
      BY <1>0, <2>1, <2>3, <3>1, <3>2, CompleteReply
  <2>4. CASE Messages[message].body # 0
    <3>1. Finished <= Finished'
      BY <2>2, <2>4
    <3> QED
      BY <1>0, <1>2, <2>1, <2>4, <3>1, ReplyStays DEF replies
  <2> QED
    BY <2>3, <2>4
<1>16. CASE OnBody
  <2> DEFINE r == [req EXCEPT !.body = @ \o Piece]
  <2>1. /\ Callback("body") /\ pc = "parsing" /\ pc' = pc /\ eof' = eof
        /\ IF HasBody(r) THEN Complete(r) ELSE UNCHANGED replies
    BY <1>16 DEF OnBody, Callback, AtPart, client
  <2>2. /\ r \in Requests /\ message \in 1 .. N /\ Finished = message - 1
        /\ Finished' = IF HasBody(r) THEN message ELSE message - 1
    BY <1>0, <2>1, BodyCallback
  <2> HIDE DEF r
  <2>3. CASE HasBody(r)
    <3>1. Finished < Finished'
      BY <2>2, <2>3
    <3> QED
      BY <1>0, <2>1, <2>2, <2>3, <3>1, CompleteReply
  <2>4. CASE ~HasBody(r)
    <3>1. Finished <= Finished'
      BY <2>2, <2>4
    <3> QED
      BY <1>0, <1>2, <2>1, <2>4, <3>1, ReplyStays DEF replies
  <2> QED
    BY <2>3, <2>4
<1>17. CASE Write
  <2>1. PICK r \in writer : /\ responses' = Append(responses, r)
                            /\ stop' = (stop \/ ~KeepAlive(r))
    BY <1>17 DEF Write
  <2>2. /\ writer' = {} /\ pc = "reading" /\ pc' = pc
        /\ UNCHANGED <<sent, eof, taken, chunk, message>>
    BY <1>17 DEF Write, FrameEnds, client, parser
  <2>3. Finished' = Finished /\ Finished \in 0 .. N
    BY <1>0, <1>2, <2>2, StreamStays, FinishedType
  <2>4. responses \in Seq(Requests) /\ r \in Requests /\ Len(responses) < Finished
    BY <1>0, <2>1, <2>2 DEF ReplyInv
  <2>5. responses' \in Seq(Requests) /\ Len(responses') = Len(responses) + 1
    BY <2>1, <2>4, AppendProperties
  <2>6. Len(responses') <= Finished' /\ Len(responses') <= N
    <3>1. Len(responses) \in Nat /\ N \in Nat
      BY <2>4, MessagesType
    <3> QED
      BY <2>3, <2>4, <2>5, <3>1
  <2>7. {eof', stop'} \subseteq BOOLEAN
    BY <1>2, <2>1, <2>2
  <2> QED
    BY <2>2, <2>5, <2>6, <2>7 DEF ReplyInv
<1>18. CASE WriteFails
  <2>1. /\ writer' = {} /\ pc = "reading" /\ pc' = pc /\ stop' = TRUE
        /\ UNCHANGED <<sent, eof, taken, chunk, message, responses>>
    BY <1>18 DEF WriteFails, FrameEnds, client, parser
  <2>2. Finished' = Finished
    BY <1>0, <1>2, <2>1, StreamStays
  <2> QED
    BY <1>0, <2>1, <2>2 DEF ReplyInv
<1>19. CASE UNCHANGED vars
  BY <1>1, <1>2, <1>19 DEF vars, client, parser, replies
<1> QED
  BY <1>3, <1>4, <1>5, <1>7, <1>8, <1>9, <1>10, <1>11, <1>12, <1>13, <1>14, <1>15,
     <1>16, <1>17, <1>18, <1>19 DEF Next, Handle, Respond, Parse

-----------------------------------------------------------------------------
(* Initially nothing has been sent. *)
LEMMA InitInv ==
  ASSUME Init
  PROVE  Inv /\ Offset = 0 /\ Finished = 0
<1>1. Len(chunk) = 0 /\ chunk \in Seq(AllUnits) /\ <<>> \in Fields /\ <<>> \in Seq(AllUnits)
  BY FieldsIs DEF Init
<1>2. Consumed = 0
  <2>1. taken = 0
    BY DEF Init
  <2> QED
    BY <1>1, <2>1 DEF Consumed
<1>3. Offset = 0
  BY <1>2, EndsType DEF Init, Offset
<1>4. Size(message) \in Nat \ {0} /\ HeadLen \in Nat \ {0} /\ N \in Nat \ {0} /\ 1 \in 1 .. N
  BY MessagesType DEF Init
<1>5. Finished = 0
  BY <1>3, <1>4 DEF Init, Finished
<1>6. Len(Wire) \in Nat
  BY WireAt, LenProperties
<1>7. StreamInv
  BY <1>1, <1>2, <1>3, <1>4, <1>6 DEF Init, StreamInv
<1>8. /\ req = NoRequest /\ last_header_field = <<>> /\ content_length = 0 /\ pc = "reading"
      /\ NoRequest \in Requests /\ NoRequest.body = <<>> /\ Len(NoRequest.body) = 0
  BY <1>1 DEF Init, NoRequest, Requests
<1>9. ~(HeadLen < Offset)
  BY <1>3, <1>4
<1>10. RequestInv
  BY <1>1, <1>8, <1>9 DEF RequestInv
<1>11. ReplyInv
  <2>1. <<>> \in Seq(Requests) /\ Len(<<>>) = 0
    OBVIOUS
  <2>2. responses = <<>> /\ writer = {} /\ eof = FALSE /\ stop = FALSE
    BY DEF Init
  <2>3. responses \in Seq(Requests) /\ Len(responses) = 0
    BY <2>1, <2>2
  <2>4. Len(responses) <= N /\ Len(responses) <= Finished
    BY <1>4, <1>5, <2>3
  <2>5. writer \subseteq Requests /\ ~(writer # {}) /\ {eof, stop} \subseteq BOOLEAN
    BY <2>2
  <2> QED
    BY <2>3, <2>4, <2>5, Zenon DEF ReplyInv
<1> QED
  BY <1>3, <1>5, <1>7, <1>10, <1>11 DEF Inv

LEMMA InvStep ==
  ASSUME Inv, [Next]_vars
  PROVE  Inv'
<1>1. StreamInv' /\ RequestInv' /\ ReplyInv'
  BY StreamStep, RequestStep, ReplyStep DEF Inv
<1> QED
  BY <1>1 DEF Inv

LEMMA InvType ==
  ASSUME Inv
  PROVE  TypeOK
<1>1. sent \in 0 .. Len(Wire) /\ taken \in 0 .. sent
  BY DEF Inv, StreamInv
<1>2. /\ req \in Requests /\ last_header_field \in Fields /\ Len(req.body) <= content_length
  BY DEF Inv, RequestInv
<1>3. req.method \in Fields /\ req.url \in Fields /\ req.version \in Fields
  BY <1>2 DEF Requests
<1>4. /\ {eof, stop} \subseteq BOOLEAN /\ Len(responses) <= N
      /\ writer # {} => pc # "closed"
  BY DEF Inv, ReplyInv
<1>5. /\ message \in 1 .. N /\ pc \in {"reading", "parsing", "closed", "terminated"}
      /\ chunk # <<>> => pc \in {"parsing", "terminated"}
  BY DEF Inv, StreamInv
<1> QED
  BY <1>1, <1>2, <1>3, <1>4, <1>5 DEF TypeOK, N

(* The type invariant: whatever the client sends and however reads cut it, *)
(* the parser's fields hold units of their kind, a body is never longer    *)
(* than the length announced, and only an open connection has a frame      *)
(* that waits to write.                                                    *)
THEOREM TypeCorrect == Spec => []TypeOK
<1>1. Init => Inv
  BY InitInv
<1>2. Inv /\ [Next]_vars => Inv'
  BY InvStep
<1>3. Inv => TypeOK
  BY InvType
<1> QED
  BY <1>1, <1>2, <1>3, PTL DEF Spec

-----------------------------------------------------------------------------
(* A client that waits for each answer: a frame is started only when the   *)
(* one before it has ended.                                                *)
LEMMA AnsweredBefore ==
  ASSUME Inv, InTurnInv, NEW part, Callback(part), Finished = message - 1
  PROVE  Len(responses) = message - 1 /\ writer = {}
<1>1. StreamInv /\ ReplyInv /\ pc # "closed"
  BY DEF Inv, Callback, AtPart
<1>2. /\ message \in 1 .. N /\ Offset \in Nat /\ PieceLen \in Nat \ {0}
      /\ PieceLen \in 1 .. Len(chunk) /\ Len(chunk) \in Nat
  <2>1. chunk \in Seq(AllUnits) /\ chunk # <<>>
    BY <1>1 DEF StreamInv, Callback, AtPart
  <2> QED
    BY <1>1, <2>1, CallbackEffect, PieceLenIs
<1>3. /\ Ends(message - 1) \in Nat /\ message - 1 \in 0 .. N /\ N \in Nat
      /\ Len(responses) \in Nat /\ sent \in Nat /\ taken \in Nat /\ taken <= sent
  BY <1>1, <1>2, EndsType, MessagesType, WireAt, LenProperties DEF StreamInv, ReplyInv
<1>4. sent > Ends(message - 1)
  <2>1. Offset = taken - Len(chunk) - Ends(message - 1)
    BY DEF Offset, Consumed
  <2> QED
    BY <1>2, <1>3, <2>1
<1>5. Len(responses) <= message - 1 /\ (writer # {} => Len(responses) < message - 1)
  BY <1>1 DEF ReplyInv
<1>6. ~(Len(responses) < message - 1)
  <2>1. SUFFICES ASSUME Len(responses) < message - 1 PROVE FALSE
    OBVIOUS
  <2>2. Len(responses) < N /\ Len(responses) + 1 \in 0 .. N /\ Len(responses) + 1 <= message - 1
    BY <1>2, <1>3, <2>1
  <2>3. Ends(Len(responses) + 1) <= Ends(message - 1) /\ Ends(Len(responses) + 1) \in Nat
    BY <1>3, <2>2, EndsMonotonic, EndsType
  <2>4. sent <= Ends(Len(responses) + 1)
    BY <2>2 DEF InTurnInv
  <2> QED
    BY <1>3, <1>4, <2>3, <2>4
<1> QED
  BY <1>2, <1>3, <1>5, <1>6

LEMMA InTurnStep ==
  ASSUME ~Pipelines, Inv, InTurnInv, [Next]_vars
  PROVE  InTurnInv'
<1>0. StreamInv /\ RequestInv /\ ReplyInv /\ Len(responses) \in Nat /\ N \in Nat
  BY MessagesType DEF Inv, ReplyInv
<1>1. ASSUME UNCHANGED <<sent, responses>>, pc' = "closed" \/ (pc # "closed" /\ lost' = lost)
      PROVE  InTurnInv'
  BY <1>1 DEF InTurnInv, Ends
<1>2. ASSUME UNCHANGED <<client, replies>>, pc # "closed"
      PROVE  InTurnInv'
  BY <1>1, <1>2 DEF client, replies
<1>3. CASE Send
  <2>1. /\ sent < Len(Wire) /\ Wire[sent + 1].msg <= Len(responses) + 1
        /\ sent' = sent + 1 /\ UNCHANGED <<responses, lost, pc>>
    BY <1>3 DEF Send, replies
  <2>2. ASSUME Len(responses) < N PROVE sent + 1 <= Ends(Len(responses) + 1)
    <3>1. sent + 1 \in 1 .. Len(Wire)
      BY <1>0, <2>1, WireAt, LenProperties DEF StreamInv
    <3>2. Len(responses) + 1 \in 0 .. N
      BY <1>0, <2>2
    <3> QED
      BY <2>1, <3>1, <3>2, WireBefore
  <2> QED
    BY <2>1, <2>2 DEF InTurnInv, Ends
<1>4. CASE Leave
  <2>1. UNCHANGED <<sent, responses, lost, pc>>
    BY <1>4 DEF Leave, replies
  <2> QED
    BY <2>1 DEF InTurnInv, Ends
<1>5. CASE EndConnection
  <2>1. pc' = "closed" /\ UNCHANGED <<sent, responses>>
    BY <1>5 DEF EndConnection, client
  <2> QED
    BY <1>1, <2>1
<1>6. CASE ReadEof \/ ReadTimesOut
  BY <1>5, <1>6 DEF ReadEof, ReadTimesOut
<1>7. CASE Read
  BY <1>2, <1>7 DEF Read
<1>8. CASE ParseEnds
  <2>1. CASE stop
    BY <1>5, <1>8, <2>1 DEF ParseEnds
  <2>2. CASE ~stop
    BY <1>2, <1>8, <2>2 DEF ParseEnds
  <2> QED
    BY <2>1, <2>2
<1>9. CASE OnReset
  BY <1>2, <1>9 DEF OnReset
<1>10. CASE OnMethod \/ OnVersion \/ OnUrl \/ OnHeaderField
  BY <1>2, <1>10 DEF OnMethod, OnVersion, OnUrl, OnHeaderField, Callback, AtPart
<1>11. CASE OnHeaderValue
  <2>1. CASE last_header_field = <<>>
    BY <1>5, <1>11, <2>1 DEF OnHeaderValue
  <2>2. CASE last_header_field # <<>>
    BY <1>2, <1>11, <2>2 DEF OnHeaderValue, Callback, AtPart
  <2> QED
    BY <2>1, <2>2
<1>12. ASSUME NEW part, Callback(part), Finished = message - 1, NEW r, Complete(r)
       PROVE  InTurnInv'
  <2>1. writer = {}
    BY <1>12, AnsweredBefore
  <2>2. UNCHANGED <<sent, responses, lost>> /\ pc # "closed"
    BY <1>12, <2>1 DEF Complete, Callback, AtPart, client
  <2> QED
    BY <1>1, <2>2
<1>13. CASE OnHeadersComplete
  <2>1. Callback("end") /\ (Complete(req) \/ UNCHANGED replies)
    BY <1>13 DEF OnHeadersComplete
  <2>2. Finished = message - 1 /\ UNCHANGED client /\ pc # "closed"
    BY <1>0, <2>1, EndCallback DEF Callback, AtPart
  <2> QED
    BY <1>2, <1>12, <2>1, <2>2
<1>14. CASE OnBody
  <2> DEFINE r == [req EXCEPT !.body = @ \o Piece]
  <2>1. Callback("body") /\ (Complete(r) \/ UNCHANGED replies)
    BY <1>14 DEF OnBody
  <2>2. Finished = message - 1 /\ UNCHANGED client /\ pc # "closed"
    BY <1>0, <2>1, BodyCallback DEF Callback, AtPart
  <2> HIDE DEF r
  <2> QED
    BY <1>2, <1>12, <2>1, <2>2
<1>15. CASE Write
  <2>1. PICK r \in writer : responses' = Append(responses, r)
    BY <1>15 DEF Write
  <2>2. sent' = sent /\ lost' = lost /\ pc' = pc
    BY <1>15 DEF Write, client
  <2>3. responses \in Seq(Requests) /\ r \in Requests
    BY <1>0, <2>1 DEF ReplyInv
  <2>4. Len(responses') = Len(responses) + 1
    BY <2>1, <2>3, AppendProperties
  <2>5. ASSUME Len(responses') < N PROVE sent' <= Ends(Len(responses') + 1)
    <3>1. /\ Len(responses) < N /\ Len(responses) + 1 \in 0 .. N
          /\ Len(responses) + 2 \in 0 .. N /\ Len(responses) + 1 <= Len(responses) + 2
          /\ Len(responses') + 1 = Len(responses) + 2
      BY <1>0, <2>4, <2>5
    <3>2. sent <= Ends(Len(responses) + 1)
      BY <3>1 DEF InTurnInv
    <3>3. /\ Ends(Len(responses) + 1) <= Ends(Len(responses) + 2)
          /\ Ends(Len(responses) + 1) \in Nat /\ Ends(Len(responses) + 2) \in Nat
      BY <3>1, EndsMonotonic, EndsType
    <3>4. sent \in Nat
      BY <1>0, WireAt, LenProperties DEF StreamInv
    <3>5. sent <= Ends(Len(responses) + 2)
      BY <3>2, <3>3, <3>4
    <3> QED
      BY <2>2, <3>1, <3>5
  <2> QED
    BY <2>2, <2>5 DEF InTurnInv, Ends
<1>16. CASE WriteFails
  <2>1. UNCHANGED <<sent, responses, lost, pc>>
    BY <1>16 DEF WriteFails, client
  <2> QED
    BY <2>1 DEF InTurnInv, Ends
<1>17. CASE UNCHANGED vars
  BY <1>17 DEF vars, client, replies, InTurnInv, Ends
<1> QED
  BY <1>3, <1>4, <1>6, <1>7, <1>8, <1>9, <1>10, <1>11, <1>13, <1>14, <1>15,
     <1>16, <1>17 DEF Next, Handle, Respond, Parse

(* A client that waits for each answer never has a frame dropped from the  *)
(* poller while its connection is open.                                    *)
THEOREM NoFrameLostInTurn == ~Pipelines /\ Spec => []NoFrameLost
<1>1. CASE ~Pipelines
  <2>1. Init => Inv /\ InTurnInv
    <3>1. ASSUME Init PROVE InTurnInv
      <4>1. sent = 0 /\ lost = {} /\ responses = <<>> /\ Len(responses) = 0
        BY <3>1 DEF Init
      <4>2. Ends(1) \in Nat
        BY EndsType, MessagesType
      <4>3. sent <= Ends(Len(responses) + 1)
        BY <4>1, <4>2
      <4> QED
        BY <4>1, <4>3 DEF InTurnInv
    <3> QED
      BY <3>1, InitInv
  <2>2. (Inv /\ InTurnInv) /\ [Next]_vars => (Inv /\ InTurnInv)'
    BY <1>1, InvStep, InTurnStep
  <2>3. Inv /\ InTurnInv => NoFrameLost
    BY DEF InTurnInv, NoFrameLost
  <2> QED
    BY <2>1, <2>2, <2>3, PTL DEF Spec
<1> QED
  BY <1>1

-----------------------------------------------------------------------------
(* Where no span is cut and the client waits for each answer, every        *)
(* request is answered as it was meant.                                    *)
LEMMA HeadParsed ==
  ASSUME SpanLen = 1, StreamInv, RequestInv, ParsedInv, NEW part \in HeadParts, Callback(part)
  PROVE  /\ Offset \in 0 .. 4 /\ Offset' = Offset + 1 /\ part = Spans[Offset + 1]
         /\ Piece = Part(message, part) /\ message' = message
         /\ HeadLen = 5 /\ Offset < Size(message) /\ Offset' < Size(message')
         /\ Offset' \in 1 .. 5
<1>1. /\ PieceLen = 1 /\ Offset \in 0 .. 4 /\ part = Spans[Offset + 1]
      /\ Piece = Part(message, part)
  BY WholePiece
<1>2. Offset' = Offset + 1 /\ message' = message /\ message \in 1 .. N
  BY <1>1, CallbackEffect
<1>3. HeadLen = 5 /\ Size(message) \in Nat /\ Size(message) > 5 /\ Size(message') = Size(message)
  BY <1>2, MessagesType DEF HeadLen
<1> QED
  BY <1>1, <1>2, <1>3

LEMMA PartIs ==
  ASSUME SpanLen = 1, NEW m, NEW part
  PROVE  Part(m, part) # <<>>
<1>1. Part(m, part)[1] = [msg |-> m, part |-> part, k |-> 1] /\ Len(Part(m, part)) = 1
  BY DEF Part, Units
<1> QED
  BY <1>1

LEMMA HeadersParsed ==
  ASSUME SpanLen = 1, StreamInv, RequestInv, ParsedInv,
         OnMethod \/ OnUrl \/ OnVersion \/ OnHeaderField \/ OnHeaderValue,
         pc' # "closed"
  PROVE  ParsedInv'
<1>0. req \in Requests
  BY DEF RequestInv
<1>1. CASE OnMethod
  <2>1. "method" \in HeadParts /\ Callback("method")
    BY <1>1, PartNames DEF OnMethod
  <2>2. /\ Offset \in 0 .. 4 /\ Offset' = Offset + 1 /\ "method" = Spans[Offset + 1]
        /\ Piece = Part(message, "method") /\ message' = message /\ Offset < Size(message)
    BY <2>1, HeadParsed
  <2>3. Offset = 0 /\ Offset' = 1
    BY <2>2 DEF Spans
  <2>4. /\ req' = [req EXCEPT !.method = Piece] /\ last_header_field' = last_header_field
    BY <1>1 DEF OnMethod
  <2>5. req'.method = Part(message', "method") /\ req'.headers = req.headers
    BY <1>0, <2>2, <2>4 DEF Requests
  <2>6. last_header_field = <<>> /\ req.headers = {}
    BY <2>2, <2>3 DEF ParsedInv
  <2> QED
    BY <2>3, <2>4, <2>5, <2>6 DEF ParsedInv
<1>2. CASE OnUrl
  <2>1. "url" \in HeadParts /\ Callback("url")
    BY <1>2, PartNames DEF OnUrl
  <2>2. /\ Offset \in 0 .. 4 /\ Offset' = Offset + 1 /\ "url" = Spans[Offset + 1]
        /\ Piece = Part(message, "url") /\ message' = message /\ Offset < Size(message)
    BY <2>1, HeadParsed
  <2>3. Offset = 1 /\ Offset' = 2
    BY <2>2 DEF Spans
  <2>4. /\ req' = [req EXCEPT !.url = Piece] /\ last_header_field' = last_header_field
    BY <1>2 DEF OnUrl
  <2>5. req'.url = Part(message', "url") /\ req'.headers = req.headers /\ req'.method = req.method
    BY <1>0, <2>2, <2>4 DEF Requests
  <2>6. last_header_field = <<>> /\ req.headers = {} /\ req.method = Part(message, "method")
    BY <2>2, <2>3 DEF ParsedInv
  <2> QED
    BY <2>2, <2>3, <2>4, <2>5, <2>6 DEF ParsedInv, Part, Units
<1>3. CASE OnVersion
  <2>1. "version" \in HeadParts /\ Callback("version")
    BY <1>3, PartNames DEF OnVersion
  <2>2. /\ Offset \in 0 .. 4 /\ Offset' = Offset + 1 /\ "version" = Spans[Offset + 1]
        /\ Piece = Part(message, "version") /\ message' = message /\ Offset < Size(message)
    BY <2>1, HeadParsed
  <2>3. Offset = 2 /\ Offset' = 3
    BY <2>2 DEF Spans
  <2>4. /\ req' = [req EXCEPT !.version = Piece] /\ last_header_field' = last_header_field
    BY <1>3 DEF OnVersion
  <2>5. /\ req'.version = Part(message', "version") /\ req'.headers = req.headers
        /\ req'.method = req.method /\ req'.url = req.url
    BY <1>0, <2>2, <2>4 DEF Requests
  <2>6. /\ last_header_field = <<>> /\ req.headers = {} /\ req.method = Part(message, "method")
        /\ req.url = Part(message, "url")
    BY <2>2, <2>3 DEF ParsedInv
  <2> QED
    BY <2>2, <2>3, <2>4, <2>5, <2>6 DEF ParsedInv, Part, Units
<1>4. CASE OnHeaderField
  <2>1. "field" \in HeadParts /\ Callback("field")
    BY <1>4, PartNames DEF OnHeaderField
  <2>2. /\ Offset \in 0 .. 4 /\ Offset' = Offset + 1 /\ "field" = Spans[Offset + 1]
        /\ Piece = Part(message, "field") /\ message' = message /\ Offset < Size(message)
    BY <2>1, HeadParsed
  <2>3. Offset = 3 /\ Offset' = 4
    BY <2>2 DEF Spans
  <2>4. req' = req /\ last_header_field' = Piece
    BY <1>4 DEF OnHeaderField
  <2>5. /\ req.headers = {} /\ req.method = Part(message, "method")
        /\ req.url = Part(message, "url") /\ req.version = Part(message, "version")
    BY <2>2, <2>3 DEF ParsedInv
  <2> QED
    BY <2>2, <2>3, <2>4, <2>5 DEF ParsedInv, Part, Units
<1>5. CASE OnHeaderValue
  <2>0. last_header_field # <<>>
    BY <1>5 DEF OnHeaderValue, EndConnection
  <2>1. "value" \in HeadParts /\ Callback("value")
    BY <1>5, <2>0, PartNames DEF OnHeaderValue
  <2>2. /\ Offset \in 0 .. 4 /\ Offset' = Offset + 1 /\ "value" = Spans[Offset + 1]
        /\ Piece = Part(message, "value") /\ message' = message /\ Offset < Size(message)
    BY <2>1, HeadParsed
  <2>3. Offset = 4 /\ Offset' = 5
    BY <2>2 DEF Spans
  <2>4. /\ req' = [req EXCEPT !.headers =
                     {h \in @ : h[1] # last_header_field} \cup {<<last_header_field, Piece>>}]
        /\ last_header_field' = <<>>
    BY <1>5, <2>0 DEF OnHeaderValue
  <2>5. /\ last_header_field = Part(message, "field") /\ req.headers = {}
        /\ req.method = Part(message, "method")
        /\ req.url = Part(message, "url") /\ req.version = Part(message, "version")
    BY <2>2, <2>3 DEF ParsedInv
  <2>6. /\ req'.headers = {<<Part(message, "field"), Part(message, "value")>>}
        /\ req'.method = req.method /\ req'.url = req.url /\ req'.version = req.version
    BY <1>0, <2>2, <2>4, <2>5 DEF Requests
  <2>7. req'.headers = Meant(message').headers
    BY <2>2, <2>6 DEF Meant
  <2> QED
    BY <2>2, <2>3, <2>4, <2>5, <2>6, <2>7 DEF ParsedInv, Part, Units
<1> QED
  BY <1>1, <1>2, <1>3, <1>4, <1>5

(* The request that the frame takes is the one the client meant. *)
LEMMA Whole ==
  ASSUME NEW m \in 1 .. N, NEW r \in Requests,
         r.method = Part(m, "method"), r.url = Part(m, "url"), r.version = Part(m, "version"),
         r.headers = Meant(m).headers, r.body = Units(m, "body", Messages[m].body)
  PROVE  r = Meant(m)
<1>1. r = [method |-> r.method, url |-> r.url, version |-> r.version,
           headers |-> r.headers, body |-> r.body]
  BY DEF Requests
<1>2. Meant(m).headers = {<<Part(m, "field"), Part(m, "value")>>}
  BY DEF Meant
<1> QED
  BY <1>1, <1>2 DEF Meant

LEMMA MatchComplete ==
  ASSUME Inv, InTurnInv, AnsweredInv, NEW part, Callback(part), Finished = message - 1,
         NEW r, Complete(r), r = Meant(message)
  PROVE  AnsweredInv'
<1>1. Len(responses) = message - 1 /\ message \in 1 .. N
  BY AnsweredBefore DEF Inv, StreamInv
<1>2. writer' = {r} /\ responses' = responses
  BY DEF Complete
<1>3. Len(responses) + 1 = message
  BY <1>1
<1> QED
  BY <1>2, <1>3 DEF AnsweredInv, AnswersMatch, Meant, Part, Units

LEMMA EndMatch ==
  ASSUME SpanLen = 1, Inv, InTurnInv, MatchInv, OnHeadersComplete
  PROVE  MatchInv'
<1>1. /\ StreamInv /\ RequestInv /\ AnsweredInv /\ Callback("end") /\ pc = "parsing"
      /\ ParsedInv /\ last_header_field' = last_header_field /\ req \in Requests
  BY DEF Inv, MatchInv, OnHeadersComplete, Callback, AtPart, RequestInv
<1>2. /\ Offset = 5 /\ Offset' = 6 /\ message' = message /\ message \in 1 .. N
      /\ Finished = message - 1
  <2>1. HeadLen = 5
    BY DEF HeadLen
  <2> QED
    BY <1>1, <2>1, EndCallback
<1>3. /\ Size(message) = 6 + Messages[message].body /\ Messages[message].body \in Nat
      /\ Size(message') = Size(message)
  BY <1>2, MessagesType DEF Size, HeadLen
<1>4. /\ last_header_field = <<>> /\ req.method = Part(message, "method")
      /\ req.url = Part(message, "url") /\ req.version = Part(message, "version")
      /\ req.headers = Meant(message).headers
  BY <1>1, <1>2, <1>3 DEF ParsedInv
<1>5. CASE Messages[message].body = 0
  <2>1. Complete(req) /\ req' = Emptied(req)
    BY <1>5 DEF OnHeadersComplete, Complete
  <2>2. req.body = Units(message, "body", Messages[message].body)
    <3>1. req.body = <<>>
      BY <1>1, <1>2 DEF RequestInv, HeadLen
    <3>2. Units(message, "body", 0) = <<>>
      BY DEF Units
    <3> QED
      BY <1>5, <3>1, <3>2
  <2>3. req = Meant(message)
    BY <1>1, <1>2, <1>4, <2>2, Whole
  <2>4. AnsweredInv'
    BY <1>1, <1>2, <2>1, <2>3, MatchComplete
  <2>5. req'.method = req.method /\ req'.version = req.version
    BY <1>1, <2>1, EmptiedType
  <2>6. ~(Offset' < Size(message')) /\ Offset' # 4
    BY <1>2, <1>3, <1>5
  <2>7. ParsedInv'
    BY <1>1, <1>2, <1>4, <2>5, <2>6 DEF ParsedInv, Part, Units
  <2> QED
    BY <2>4, <2>7 DEF MatchInv
<1>6. CASE Messages[message].body # 0
  <2>1. UNCHANGED <<req, replies>>
    BY <1>6 DEF OnHeadersComplete
  <2>2. AnsweredInv'
    BY <1>1, <2>1 DEF AnsweredInv, AnswersMatch, replies, Meant, Part, Units
  <2>3. ~(6 < Offset') /\ Offset' # 4 /\ ~(Offset' < 5)
    BY <1>2
  <2>4. ParsedInv'
    BY <1>1, <1>2, <1>4, <2>1, <2>3 DEF ParsedInv, Part, Units, Meant
  <2> QED
    BY <2>2, <2>4 DEF MatchInv
<1> QED
  BY <1>5, <1>6

LEMMA BodyMatch ==
  ASSUME SpanLen = 1, Inv, InTurnInv, MatchInv, OnBody
  PROVE  MatchInv'
<1> DEFINE r == [req EXCEPT !.body = @ \o Piece]
<1>1. /\ StreamInv /\ RequestInv /\ AnsweredInv /\ Callback("body") /\ pc = "parsing"
      /\ ParsedInv /\ last_header_field' = last_header_field /\ req \in Requests
  BY DEF Inv, MatchInv, OnBody, Callback, AtPart, RequestInv
<1>2. /\ r \in Requests /\ Len(r.body) = Offset' - HeadLen - 1 /\ r.body = req.body \o Piece
      /\ HeadLen < Offset /\ Offset < Size(message) /\ Offset \in Nat /\ Offset' \in Nat
      /\ Offset < Offset' /\ Offset' <= Size(message)
      /\ message' = message /\ message \in 1 .. N /\ Finished = message - 1
      /\ HasBody(r) <=> Offset' = Size(message)
  BY <1>1, BodyCallback
<1>3. HeadLen = 5 /\ Size(message) = 6 + Messages[message].body /\ Messages[message].body \in Nat
      /\ Size(message') = Size(message) /\ Size(message) \in Nat
  BY <1>2, MessagesType DEF Size, HeadLen
<1>4. /\ last_header_field = <<>> /\ req.method = Part(message, "method")
      /\ req.url = Part(message, "url") /\ req.version = Part(message, "version")
      /\ req.headers = Meant(message).headers
      /\ 6 < Offset => req.body = Units(message, "body", Offset - 6)
  BY <1>1, <1>2, <1>3 DEF ParsedInv
<1>5. /\ r.method = req.method /\ r.url = req.url /\ r.version = req.version
      /\ r.headers = req.headers
  BY <1>1 DEF Requests
<1>6. r.body = Units(message, "body", Offset' - 6)
  <2>1. /\ PieceLen \in Nat \ {0} /\ Offset' = Offset + PieceLen
        /\ Piece \in Seq(AllUnits) /\ Len(Piece) = PieceLen
        /\ \A i \in 1 .. PieceLen : /\ Offset + i \in 1 .. Size(message)
                                    /\ Piece[i] = Unit(message, Offset + i)
    BY <1>1, CallbackEffect
  <2>2. req.body \in Seq(AllUnits) /\ Len(req.body) = Offset - 6
    <3>1. req.body \in Seq(AllUnits)
      BY <1>1 DEF Requests
    <3>2. Len(req.body) = Offset - HeadLen - 1
      BY <1>1, <1>2 DEF RequestInv
    <3> QED
      BY <1>2, <1>3, <3>1, <3>2
  <2>3. ASSUME NEW k \in 1 .. Offset' - 6
        PROVE  (req.body \o Piece)[k] = [msg |-> message, part |-> "body", k |-> k]
    <3>1. (req.body \o Piece)[k] = IF k <= Len(req.body) THEN req.body[k]
                                   ELSE Piece[k - Len(req.body)]
      <4>1. k \in 1 .. Len(req.body) + Len(Piece)
        BY <1>2, <1>3, <2>1, <2>2
      <4> QED
        BY <2>1, <2>2, <4>1, ConcatProperties
    <3>2. CASE k <= Offset - 6
      <4>1. 6 < Offset /\ k \in 1 .. Offset - 6
        BY <1>2, <3>2
      <4>2. req.body[k] = [msg |-> message, part |-> "body", k |-> k]
        BY <1>4, <4>1 DEF Units
      <4> QED
        BY <2>2, <3>1, <3>2, <4>2
    <3>3. CASE k > Offset - 6
      <4>1. /\ k - (Offset - 6) \in 1 .. PieceLen /\ Offset + (k - (Offset - 6)) = k + 6
            /\ ~(k <= Offset - 6) /\ k \in Nat
        BY <1>2, <2>1, <3>3
      <4>2. Piece[k - (Offset - 6)] = Unit(message, k + 6)
        BY <2>1, <4>1
      <4>3. Unit(message, k + 6) = [msg |-> message, part |-> "body", k |-> k]
        BY <1>3, <4>1 DEF Unit
      <4>4. (req.body \o Piece)[k] = Piece[k - (Offset - 6)]
        BY <2>2, <3>1, <4>1, Zenon
      <4> QED
        BY <4>2, <4>3, <4>4, Zenon
    <3>4. k <= Offset - 6 \/ k > Offset - 6
      BY <1>2
    <3> QED
      BY <3>2, <3>3, <3>4, Zenon
  <2>4. req.body \o Piece \in Seq(AllUnits) /\ Len(req.body \o Piece) = Offset' - 6
    BY <1>2, <1>3, <2>1, <2>2, ConcatProperties
  <2>5. req.body \o Piece = [k \in 1 .. Offset' - 6 |-> (req.body \o Piece)[k]]
    BY <2>4
  <2> QED
    BY <1>2, <2>3, <2>5, Zenon DEF Units
<1>7. IF HasBody(r) THEN Complete(r) /\ req' = Emptied(r) ELSE req' = r /\ UNCHANGED replies
  BY DEF OnBody, Complete
<1> HIDE DEF r
<1>8. CASE HasBody(r)
  <2>1. Complete(r) /\ req' = Emptied(r) /\ Offset' - 6 = Messages[message].body
    BY <1>2, <1>3, <1>7, <1>8
  <2>2. r = Meant(message)
    BY <1>2, <1>4, <1>5, <1>6, <2>1, Whole
  <2>3. AnsweredInv'
    BY <1>1, <1>2, <2>1, <2>2, MatchComplete
  <2>4. req'.method = req.method /\ req'.version = req.version
    BY <1>2, <1>5, <2>1, EmptiedType
  <2>5. ~(Offset' < Size(message')) /\ Offset' # 4
    BY <1>2, <1>3, <1>8
  <2>6. ParsedInv'
    BY <1>1, <1>2, <1>4, <2>4, <2>5 DEF ParsedInv, Part, Units
  <2> QED
    BY <2>3, <2>6 DEF MatchInv
<1>9. CASE ~HasBody(r)
  <2>1. req' = r /\ UNCHANGED replies
    BY <1>7, <1>9
  <2>2. AnsweredInv'
    BY <1>1, <2>1 DEF AnsweredInv, AnswersMatch, replies, Meant, Part, Units
  <2>3. Offset' # 4 /\ ~(Offset' < 5)
    BY <1>2, <1>3
  <2>4. ParsedInv'
    BY <1>1, <1>2, <1>4, <1>5, <1>6, <2>1, <2>3 DEF ParsedInv, Part, Units, Meant
  <2> QED
    BY <2>2, <2>4 DEF MatchInv
<1> QED
  BY <1>8, <1>9

LEMMA MatchStep ==
  ASSUME SpanLen = 1, Inv, InTurnInv, MatchInv, [Next]_vars
  PROVE  MatchInv'
<1>0. /\ StreamInv /\ RequestInv /\ ReplyInv /\ AnsweredInv /\ req \in Requests
      /\ sent \in sent .. Len(Wire)
  BY WireAt, LenProperties DEF Inv, MatchInv, RequestInv, StreamInv
<1>1. ASSUME UNCHANGED <<responses, writer>> PROVE AnsweredInv'
  BY <1>0, <1>1 DEF AnsweredInv, AnswersMatch, Meant, Part, Units
<1>2. ASSUME pc # "closed", UNCHANGED parser, Offset' = Offset PROVE ParsedInv'
  <2>1. UNCHANGED <<message, req, last_header_field>> /\ ParsedInv
    BY <1>2 DEF parser, MatchInv
  <2> QED
    BY <1>2, <2>1 DEF ParsedInv, Part, Units, Meant, Size, HeadLen
<1>3. ASSUME UNCHANGED <<parser, taken, chunk, pc>>, sent' \in sent .. Len(Wire)
      PROVE  pc' # "closed" => ParsedInv'
  <2>1. Offset' = Offset
    BY <1>0, <1>3, StreamStays DEF parser
  <2> QED
    BY <1>2, <1>3, <2>1
<1>4. CASE Send
  <2>1. /\ sent' = sent + 1 /\ sent < Len(Wire) /\ UNCHANGED <<taken, chunk, parser, pc>>
        /\ UNCHANGED <<responses, writer>>
    BY <1>4 DEF Send, replies
  <2>2. sent' \in sent .. Len(Wire)
    BY <1>0, <2>1, WireAt, LenProperties DEF StreamInv
  <2> QED
    BY <1>1, <1>3, <2>1, <2>2 DEF MatchInv
<1>5. CASE Leave
  BY <1>0, <1>1, <1>3, <1>5 DEF Leave, replies, MatchInv
<1>6. CASE EndConnection
  <2>1. pc' = "closed" /\ writer' = {} /\ responses' = responses
    BY <1>6 DEF EndConnection, CloseFile
  <2> QED
    BY <1>0, <2>1 DEF MatchInv, AnsweredInv, AnswersMatch, Meant, Part, Units
<1>7. CASE ReadEof \/ ReadTimesOut
  BY <1>6, <1>7 DEF ReadEof, ReadTimesOut
<1>8. CASE Read
  <2>1. Offset' = Offset /\ UNCHANGED <<parser, responses, writer>> /\ pc # "closed"
    BY <1>0, <1>8, ReadEffect DEF Read, replies
  <2> QED
    BY <1>1, <1>2, <2>1 DEF MatchInv
<1>9. CASE ParseEnds
  <2>1. CASE stop
    BY <1>6, <1>9, <2>1 DEF ParseEnds
  <2>2. CASE ~stop
    <3>1. Offset' = Offset /\ UNCHANGED <<parser, responses, writer>> /\ pc # "closed"
      BY <1>0, <1>9, <2>2, ReadAgain DEF ParseEnds, replies
    <3> QED
      BY <1>1, <1>2, <3>1 DEF MatchInv
  <2> QED
    BY <2>1, <2>2
<1>10. CASE OnReset
  <2>1. Offset' = 0 /\ UNCHANGED <<responses, writer>>
    BY <1>0, <1>10, ResetEffect DEF OnReset, replies
  <2>2. req' = Emptied(req) /\ last_header_field' = <<>>
    BY <1>10 DEF OnReset
  <2>3. req'.headers = {}
    BY <1>0, <2>2, EmptiedType
  <2> QED
    BY <1>1, <2>1, <2>2, <2>3 DEF MatchInv, ParsedInv
<1>11. CASE OnMethod \/ OnUrl \/ OnVersion \/ OnHeaderField \/ OnHeaderValue
  <2>1. CASE pc' = "closed"
    <3>1. EndConnection
      BY <1>11, <2>1 DEF OnMethod, OnUrl, OnVersion, OnHeaderField, OnHeaderValue, Callback, AtPart
    <3> QED
      BY <1>6, <3>1
  <2>2. CASE pc' # "closed"
    <3>1. pc # "closed" /\ UNCHANGED replies
      BY <1>11, <2>2 DEF OnMethod, OnUrl, OnVersion, OnHeaderField, OnHeaderValue,
                         Callback, AtPart, EndConnection
    <3>2. ParsedInv'
      BY <1>0, <1>11, <2>2, <3>1, HeadersParsed DEF MatchInv
    <3> QED
      BY <1>1, <3>1, <3>2 DEF MatchInv, replies
  <2> QED
    BY <2>1, <2>2
<1>12. CASE OnHeadersComplete
  BY <1>12, EndMatch
<1>13. CASE OnBody
  BY <1>13, BodyMatch
<1>14. CASE Write
  <2>1. PICK r \in writer : responses' = Append(responses, r)
    BY <1>14 DEF Write
  <2>2. writer' = {} /\ UNCHANGED <<parser, taken, chunk, pc, sent>>
    BY <1>14 DEF Write, FrameEnds, client
  <2>3. responses \in Seq(Requests) /\ r \in Requests /\ r = Meant(Len(responses) + 1)
    BY <1>0, <2>1 DEF ReplyInv, AnsweredInv
  <2>4. /\ Len(responses') = Len(responses) + 1 /\ responses' \in Seq(Requests)
        /\ \A i \in 1 .. Len(responses) : responses'[i] = responses[i]
        /\ responses'[Len(responses) + 1] = r /\ Len(responses) \in Nat
    BY <2>1, <2>3, AppendProperties
  <2>5. ASSUME NEW i \in DOMAIN responses' PROVE responses'[i] = Meant(i)
    <3>1. i \in 1 .. Len(responses) + 1
      BY <2>4, <2>5
    <3>2. CASE i = Len(responses) + 1
      BY <2>3, <2>4, <3>2
    <3>3. CASE i \in 1 .. Len(responses)
      <4>1. responses[i] = Meant(i)
        BY <1>0, <2>3, <3>3 DEF AnsweredInv, AnswersMatch
      <4> QED
        BY <2>4, <3>3, <4>1
    <3> QED
      BY <2>4, <3>1, <3>2, <3>3
  <2>6. AnsweredInv'
    BY <2>2, <2>5 DEF AnsweredInv, AnswersMatch, Meant, Part, Units
  <2>7. pc' # "closed" => ParsedInv'
    BY <1>0, <1>3, <2>2
  <2> QED
    BY <2>6, <2>7 DEF MatchInv
<1>15. CASE WriteFails
  <2>1. writer' = {} /\ responses' = responses /\ UNCHANGED <<parser, taken, chunk, pc, sent>>
    BY <1>15 DEF WriteFails, FrameEnds, client
  <2>2. AnsweredInv'
    BY <1>0, <2>1 DEF AnsweredInv, AnswersMatch, Meant, Part, Units
  <2>3. pc' # "closed" => ParsedInv'
    BY <1>0, <1>3, <2>1
  <2> QED
    BY <2>2, <2>3 DEF MatchInv
<1>16. CASE UNCHANGED vars
  BY <1>0, <1>1, <1>3, <1>16 DEF vars, client, replies, MatchInv
<1> QED
  BY <1>4, <1>5, <1>7, <1>8, <1>9, <1>10, <1>11, <1>12, <1>13, <1>14, <1>15, <1>16
  DEF Next, Handle, Respond, Parse

(* The answers are those to the client's requests, in order, and each      *)
(* request reached the router as the client meant it, as long as no span   *)
(* is cut and the client waits for each answer; bodies may be cut anywhere.*)
THEOREM AnswersMatchInTurn == ~Pipelines /\ SpanLen = 1 /\ Spec => []AnswersMatch
<1> DEFINE I == Inv /\ InTurnInv /\ MatchInv
<1>1. CASE ~Pipelines /\ SpanLen = 1
  <2>1. Init => I
    <3>1. ASSUME Init PROVE I
      <4>1. sent = 0 /\ lost = {} /\ responses = <<>> /\ Len(responses) = 0 /\ writer = {}
        BY <3>1 DEF Init
      <4>2. Ends(1) \in Nat
        BY EndsType, MessagesType
      <4>3. sent <= Ends(Len(responses) + 1)
        BY <4>1, <4>2
      <4>4. InTurnInv
        BY <4>1, <4>3 DEF InTurnInv
      <4>5. Offset = 0 /\ Inv
        BY <3>1, InitInv
      <4>6. last_header_field = <<>> /\ req.headers = {}
        BY <3>1 DEF Init, NoRequest
      <4>7. ParsedInv
        BY <4>5, <4>6 DEF ParsedInv
      <4>8. AnsweredInv
        BY <4>1 DEF AnsweredInv, AnswersMatch
      <4> QED
        BY <4>4, <4>5, <4>7, <4>8 DEF MatchInv
    <3> QED
      BY <3>1
  <2>2. I /\ [Next]_vars => I'
    BY <1>1, InvStep, InTurnStep, MatchStep
  <2>3. I => AnswersMatch
    BY DEF MatchInv, AnsweredInv
  <2> QED
    BY <2>1, <2>2, <2>3, PTL DEF Spec
<1> QED
  BY <1>1
=============================================================================
