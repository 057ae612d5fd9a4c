----------------------------- MODULE OrderedMap -----------------------------
(***************************************************************************)
(* What AdaptiveRadixTree promises: an ordered map, here the set of its    *)
(* pairs of key and value. A key is a sequence of bytes, in the order of   *)
(* std::string.                                                            *)
(***************************************************************************)
EXTENDS Integers, Sequences

Without(pairs, k) == {p \in pairs : p[1] # k}
Put(pairs, k, v) == Without(pairs, k) \cup {<<k, v>>}

Present(pairs) == {p[1] : p \in pairs}
Values(pairs, k) == {p[2] : p \in {q \in pairs : q[1] = k}}

(* s comes before t: a proper prefix of it, or less at the first difference *)
Before(s, t) ==
  \/ /\ Len(s) < Len(t)
     /\ \A i \in 1 .. Len(s) : s[i] = t[i]
  \/ \E i \in 1 .. Len(s) : /\ i <= Len(t)
                            /\ s[i] < t[i]
                            /\ \A j \in 1 .. i - 1 : s[j] = t[j]

(* seq lists each of the keys once, in their order. *)
Lists(seq, keys) ==
  /\ {seq[i] : i \in DOMAIN seq} = keys
  /\ \A i, j \in DOMAIN seq : i < j => Before(seq[i], seq[j])
=============================================================================
