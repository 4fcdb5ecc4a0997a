---------------------------- MODULE SessionOrder ----------------------------
(***************************************************************************)
(* A second inductive invariant, on top of SessionInv: what is true of the *)
(* ID, the key and the registered packets of a session between its accept  *)
(* and its release.  OneSender, KeyHasOneOwner, HandlersInOrder and the    *)
(* refinement of SessionService follow from it.                            *)
(***************************************************************************)
EXTENDS SessionInvariant

OwnerSetup == SetupLabels \cup {"pop", "init_and"}

\* The ID of the connection being accepted is new, and the application only
\* has IDs it was told of.
FreshIDs ==
  /\ \A id \in issued : id[2] <= acceptedCount
  /\ pc[Acceptor] \in OwnerSetup => /\ arg[Acceptor] \notin issued
                                    /\ arg[Acceptor][2] <= acceptedCount
  /\ \A t \in AppThreads : pc[t] # "idle" => arg[t] \in issued

\* The high half of an ID is the key of its session.
SlotIDs == \A k \in Keys : ID[k] # NoID => ID[k] \in IDs /\ ID[k][1] = k

\* Between bDisconnected = false and OnAccept nobody but the accept thread works on
\* the session: its ID is unknown and it has no I/O.
SetupAlone ==
  \A k \in Keys : Setup(k, {"init_reg", "on_accept"}) =>
    /\ recvIo[k] = "none" /\ sendIo[k] = "none"
    /\ \A t \in Threads \ {Acceptor} : ses[t] = k => pc[t] \notin Using

\* An ID is live from OnAccept until its release is posted: the socket is open then, or
\* the thread that closed it has still to post the notice.
LiveSlots ==
  /\ releaseNotices \cup released \subseteq issued
  /\ releaseNotices \cap released = {}
  /\ \A id \in Live : ID[id[1]] = id
  /\ \A t \in Threads : pc[t] = "rel_post" => ID[ses[t]] \in Live
  /\ \A k \in Keys :
       /\ ID[k] # NoID /\ ~bDisconnected[k] =>
            ID[k] \in Live \/ Setup(k, {"init_reg", "on_accept"})
       /\ ID[k] \in Live =>
            ~bDisconnected[k] \/ \E t \in Threads : ses[t] = k /\ pc[t] = "rel_post"

\* RegisteredPackets is empty whenever bSendFlag is down, and holds what a WSASend
\* under way was given.
RegisteredInv ==
  /\ \A k \in Keys :
       /\ Len(registered[k]) <= MaxWsaBuf
       /\ sendIo[k] # "none" => registered[k] # <<>>
       /\ ~bSendFlag[k] /\ ~bDisconnected[k] =>
            registered[k] = <<>> \/ Setup(k, {"init_reg"})
  /\ \A t \in Threads :
       /\ pc[t] = "ps_send" => registered[ses[t]] # <<>>
       /\ pc[t] \in {"ps_recount", "ps_unflag", "s_unflag"} => registered[ses[t]] = <<>>

\* Key k is on the stack, being given out or being given back.
Owned(k) ==
  \/ k \in unusedKeys
  \/ Setup(k, {"pop", "init_and", "init_id", "init_disc", "init_reg"})
  \/ \E t \in Threads : ses[t] = k /\ pc[t] \in ReleaseLabels

OwnedKeys ==
  \A k \in Keys :
    /\ releaseFlag[k] => Owned(k)
    /\ Owned(k) \/ ioCount[k] > 0 \/ \E t \in Threads : ses[t] = k /\ pc[t] = "dec_undo"

OrderInv == FreshIDs /\ SlotIDs /\ SetupAlone /\ LiveSlots /\ RegisteredInv /\ OwnedKeys
=============================================================================
