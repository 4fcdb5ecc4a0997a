---------------------------- MODULE MCLifecycle ----------------------------
(* An instance of the life cycle of the server small enough for TLC. *)
EXTENDS ServerLifecycle, TLC

CONSTANTS a, b

TwoWorkers == {a, b}
=============================================================================
