------------------------ MODULE MCAdaptiveRadixTree ------------------------
(* Small instances of AdaptiveRadixTree for TLC.                           *)
EXTENDS AdaptiveRadixTree

(* Six first bytes reach a scaled Node256, by way of a Node48 that loses   *)
(* and gets a child; the long keys split and merge, and one key is         *)
(* inserted again with another value. 0 and 127 are where the scans of an  *)
(* iterator begin and the last byte after which its next key is right.     *)
ShortKeys == {<<>>, <<0>>, <<2>>, <<3>>, <<4>>, <<127>>}
LongKeys == {<<6, 1>>, <<6, 1, 1>>, <<6, 1, 2>>}
MCEntries == (ShortKeys \cup LongKeys) \X {1} \cup {<<6, 1>>} \X {2}

(* Bytes of UTF-8 text. *)
HighEntries == {<<97>>, <<195, 164>>, <<195, 188>>, <<226>>, <<255>>} \X {1}
=============================================================================
