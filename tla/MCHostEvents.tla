---------------------------- MODULE MCHostEvents ----------------------------
(* A small instance of HostEvents for TLC. *)
EXTENDS HostEvents

CONSTANT s1

OneSession == {s1}
=============================================================================
