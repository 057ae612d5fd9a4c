-------------------------- MODULE MCSelectPoller --------------------------
(* Small instances of SelectPoller for TLC.                                *)
EXTENDS SelectPoller

CONSTANTS f1, f2, f3

MCFds == {1, 2, 3}
MCFrames == {f1, f2, f3}
=============================================================================
