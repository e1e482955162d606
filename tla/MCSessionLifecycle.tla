------------------------- MODULE MCSessionLifecycle -------------------------
(* A small instance of SessionLifecycle for TLC. *)
EXTENDS SessionLifecycle

CONSTANTS a, b, c, d, ks1, ks2

FourTasks == {a, b, c, d}
TwoKeyspaces == {ks1, ks2}
=============================================================================
