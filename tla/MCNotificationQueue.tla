------------------------ MODULE MCNotificationQueue ------------------------
(* Small instances of NotificationQueue for TLC.                           *)
EXTENDS NotificationQueue

CONSTANTS t1, t2, t3, i1, i2

MCThreads == {t1, t2, t3}
MCItems == {i1, i2}
=============================================================================
