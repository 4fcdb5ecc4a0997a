--------------------------- MODULE SessionService ---------------------------
(***************************************************************************)
(* What NetServer promises the application about its sessions: the order   *)
(* of the handlers OnAccept and OnRelease of an ID, and that an ID lives   *)
(* only while no other connection uses its key.  NetServer.h, 94-106.      *)
(***************************************************************************)
CONSTANT IDs      \* pairs of a key and the number of the connection

VARIABLES
  open,      \* accepted, not yet released
  closing,   \* released by the server, OnRelease not called yet
  closed     \* OnRelease has been called

vars == <<open, closing, closed>>

TypeOK == open \subseteq IDs /\ closing \subseteq IDs /\ closed \subseteq IDs

Init == open = {} /\ closing = {} /\ closed = {}

\* OnAccept of an ID never used before, on a key no open session uses.
Accept(id) ==
  /\ id \notin open \cup closing \cup closed
  /\ \A other \in open : other[1] # id[1]
  /\ open' = open \cup {id}
  /\ UNCHANGED <<closing, closed>>

\* The last reference is gone: the connection is closed.
Close(id) ==
  /\ id \in open
  /\ open' = open \ {id}
  /\ closing' = closing \cup {id}
  /\ UNCHANGED closed

\* OnRelease.
Release(id) ==
  /\ id \in closing
  /\ closing' = closing \ {id}
  /\ closed' = closed \cup {id}
  /\ UNCHANGED open

Next == \E id \in IDs : Accept(id) \/ Close(id) \/ Release(id)

Spec == Init /\ [][Next]_vars
=============================================================================
