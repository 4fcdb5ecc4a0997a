------------------------------ MODULE KeyStack ------------------------------
(***************************************************************************)
(* What LockFreeStack promises its users: a key is on the stack or with the *)
(* program, it changes sides in one step, and the last one pushed comes     *)
(* back first.                                                             *)
(***************************************************************************)
EXTENDS Sequences

CONSTANT Keys

VARIABLES contents, held

vars == <<contents, held>>

Init == contents = <<>> /\ held = Keys

Push(k) ==
  /\ k \in held
  /\ held' = held \ {k}
  /\ contents' = <<k>> \o contents

Pop ==
  /\ contents # <<>>
  /\ contents' = Tail(contents)
  /\ held' = held \cup {Head(contents)}

Next == Pop \/ \E k \in Keys : Push(k)

Spec == Init /\ [][Next]_vars
=============================================================================
