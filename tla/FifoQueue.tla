----------------------------- MODULE FifoQueue -----------------------------
(***************************************************************************)
(* The queue LockFreeQueue promises: values leave in the order in which     *)
(* they came, each of them once.                                            *)
(***************************************************************************)
EXTENDS Sequences

CONSTANT Values

VARIABLES contents, taken

vars == <<contents, taken>>

Init == contents = <<>> /\ taken = <<>>

Enqueue(v) == contents' = Append(contents, v) /\ UNCHANGED taken

Dequeue ==
  /\ contents # <<>>
  /\ contents' = Tail(contents)
  /\ taken' = Append(taken, Head(contents))

Next == Dequeue \/ \E v \in Values : Enqueue(v)

Spec == Init /\ [][Next]_vars
=============================================================================
