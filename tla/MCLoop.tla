------------------------------ MODULE MCLoop ------------------------------
(* Small instances of Loop, with either poller, for TLC.                   *)
EXTENDS Loop

CONSTANTS f1, f2, f3

MCFds == {1, 2}
MCFrames == {f1, f2, f3}
MCSelectFrames == {f1, f2}
=============================================================================
