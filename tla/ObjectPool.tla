----------------------------- MODULE ObjectPool -----------------------------
(***************************************************************************)
(* What LockFreeObjectPool promises: an object is free or in use, and       *)
(* changes sides in one step; the object freed last is handed out first.    *)
(* A new object may be made although one is free: the caller found none a   *)
(* moment ago.                                                             *)
(***************************************************************************)
EXTENDS Sequences

CONSTANT Objects

VARIABLES free, inUse

vars == <<free, inUse>>

Init == free = <<>> /\ inUse = {}

Make(o) ==
  /\ o \notin inUse /\ \A i \in DOMAIN free : free[i] # o
  /\ inUse' = inUse \cup {o}
  /\ UNCHANGED free

Alloc ==
  /\ free # <<>>
  /\ free' = Tail(free)
  /\ inUse' = inUse \cup {Head(free)}

Free(o) ==
  /\ o \in inUse
  /\ inUse' = inUse \ {o}
  /\ free' = <<o>> \o free

\* All free objects are deleted; nothing is in use.
Clear ==
  /\ inUse = {}
  /\ free' = <<>>
  /\ UNCHANGED inUse

Next == Alloc \/ Clear \/ \E o \in Objects : Make(o) \/ Free(o)

Spec == Init /\ [][Next]_vars
=============================================================================
