-------------------------- MODULE MCHttpConnection --------------------------
(* Small instances of HttpConnection for TLC.                              *)
EXTENDS HttpConnection

(* With a body, without, with one again; the last one of HTTP/1.0. *)
MCMessages == <<[version |-> "1.1", body |-> 2],
                [version |-> "1.1", body |-> 0],
                [version |-> "1.0", body |-> 3]>>
TwoGets == <<[version |-> "1.1", body |-> 0], [version |-> "1.1", body |-> 0]>>
=============================================================================
