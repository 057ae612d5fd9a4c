--------------------------- MODULE MCTimerContext ---------------------------
(* Small instances of TimerContext for TLC.                                *)
EXTENDS TimerContext

CONSTANTS f1, f2

MCFrames == {f1, f2}
MCDeadlines == {1, 2}
(* stop() between polls, as from a coroutine resumed by another fd. *)
StopBetweenPolls == {"waiting", "done"}
(* stop() from a coroutine that a timer resumed. *)
StopFromSleeper == {"callback"}
NoStop == {}
=============================================================================
