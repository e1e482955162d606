---------------------------- MODULE MCLogBridge ----------------------------
(* Small instances of LogBridge for TLC. *)
EXTENDS LogBridge

CONSTANTS c1, c2, t1, t2

OneThread == {t1}
TwoThreads == {t1, t2}
TwoClusters == {c1, c2}
=============================================================================
