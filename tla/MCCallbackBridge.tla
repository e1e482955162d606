-------------------------- MODULE MCCallbackBridge --------------------------
(* Small instances of CallbackBridge for TLC. *)
EXTENDS CallbackBridge

CONSTANTS r1, r2, r3, t1, t2

TwoRequests == {r1, r2}
ThreeRequests == {r1, r2, r3}
TwoThreads == {t1, t2}
=============================================================================
