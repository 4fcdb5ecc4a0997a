------------------------------ MODULE MCQueue ------------------------------
(* An instance of the lock-free queue in which a node is recycled in time. *)
EXTENDS QueueProperties, TLC

CONSTANTS p1, p2, c1

TwoProducers == {p1, p2}
OneConsumer  == {c1}

\* Enough calls for a node to come back under an Enqueue that stalls.
NodeReused == { [p \in Producers |-> IF p = p1 THEN 2 ELSE 3] }
=============================================================================
