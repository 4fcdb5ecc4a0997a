-------------------------- MODULE SessionInvariant --------------------------
(***************************************************************************)
(* The inductive invariant behind NoUseAfterRelease: what IoCount, the     *)
(* Release Flag and bDisconnected say about the threads inside a session.  *)
(***************************************************************************)
EXTENDS SessionProperties

SetupLabels   == {"init_id", "init_disc", "init_reg", "on_accept"}
ReleaseLabels == {"rel_close", "rel_post", "rel_push"}
CheckLabels   == {"chk_disc", "chk_reg", "chk_id"}

\* Labels at which a thread holds one reference it took or was handed while the
\* Release Flag was clear.
HoldingLabels == Using \cup SetupLabels \cup CheckLabels

\* How many references a thread holds is known from where it is; only a thread
\* whose I/O was refused holds two.
RefsByLabel ==
  \A t \in Threads :
    /\ pc[t] \in HoldingLabels \cup {"init_and"} => refs[t] = 1
    /\ pc[t] \in {"dec_cas", "dec_sub"} => refs[t] \in {1, 2}
    /\ pc[t] \notin HoldingLabels \cup {"init_and", "dec_cas", "dec_sub"} => refs[t] = 0

\* Which labels belong to which kind of thread, and what a busy thread knows.
Roles ==
  \A t \in Threads :
    /\ pc[t] \in SetupLabels \cup {"pop", "init_and"} => t = Acceptor
    /\ pc[t] \in CheckLabels \cup {"inc", "read_addr", "set_reg", "cancel", "enqueue"}
         => t \in AppThreads
    /\ pc[t] \in {"s_release", "s_unflag", "on_recv"} => t \in Workers
    /\ pc[t] # "idle" => ses[t] \in Keys
    /\ pc[t] # "idle" /\ t \in AppThreads =>
         /\ op[t] \in Ops
         /\ op[t] \in {"send", "sad"} => pkt[t] \in Packets
    /\ pc[t] = "set_reg" => op[t] \in {"disconnect", "sad"}
    /\ pc[t] = "enqueue" => op[t] \in {"send", "sad"}
    /\ pc[t] \in SetupLabels \cup {"pop", "init_and"} => arg[t] \in IDs /\ arg[t][1] = ses[t]

\* Key k is being set up by the accept thread, at one of these labels.
Setup(k, labels) == ses[Acceptor] = k /\ pc[Acceptor] \in labels

\* The Release Flag is clear while anybody holds such a reference or an I/O is
\* outstanding, and set during the release.
FlagMeansReleased ==
  /\ \A t \in Threads : pc[t] \in HoldingLabels => ~releaseFlag[ses[t]]
  /\ \A t \in Threads : pc[t] \in ReleaseLabels => releaseFlag[ses[t]]
  /\ \A k \in Keys : recvIo[k] # "none" \/ sendIo[k] # "none" => ~releaseFlag[k]

\* bDisconnected is false for whoever works on the connection and true from
\* TryClosesocket until Init has gone past it.
DisconnectedMeansClosed ==
  /\ \A t \in Threads :
       /\ pc[t] \in Using \cup {"chk_reg", "chk_id", "init_reg", "on_accept", "rel_close"}
            => ~bDisconnected[ses[t]]
       /\ pc[t] \in {"rel_post", "rel_push"} => bDisconnected[ses[t]]
  /\ \A k \in Keys :
       /\ recvIo[k] # "none" \/ sendIo[k] # "none" => ~bDisconnected[k]
       /\ k \in unusedKeys => bDisconnected[k]
       /\ Setup(k, {"pop", "init_and", "init_id", "init_disc"}) => bDisconnected[k]
       /\ ID[k] # NoID /\ ~releaseFlag[k] /\ bDisconnected[k]
            => Setup(k, {"init_id", "init_disc"})

\* Whoever reaches a session reaches one that has had a connection; a key whose
\* flag is clear although nobody is connected has never had one.
IdIsKnown ==
  /\ \A t \in Threads :
       pc[t] \notin {"idle", "pop", "init_and", "init_id"} => ID[ses[t]] # NoID
  /\ \A id \in issued : ID[id[1]] # NoID
  /\ \A k \in Keys :
       /\ recvIo[k] # "none" \/ sendIo[k] # "none" => ID[k] # NoID
       /\ (k \in unusedKeys \/ Setup(k, {"pop", "init_and"})) /\ ~releaseFlag[k] => ID[k] = NoID

\* A key is on the stack, being set up or being released, one at a time.
OneOwner ==
  /\ \A t \in Threads :
       pc[t] \in ReleaseLabels \cup SetupLabels \cup {"pop", "init_and"}
         => ses[t] \notin unusedKeys
  /\ \A t, u \in Threads :
       /\ t # u /\ ses[t] = ses[u] /\ pc[t] \in ReleaseLabels => pc[u] \notin ReleaseLabels
       /\ t # u /\ ses[t] = ses[u] /\ pc[t] \in ReleaseLabels
            => pc[u] \notin SetupLabels \cup {"pop", "init_and"}

\* A caller that passed the ID check works on the connection it named.
IdMatches ==
  \A t \in Threads :
    t \notin Workers /\ pc[t] \in Using \cup {"init_disc", "init_reg", "on_accept"}
      => ID[ses[t]] = arg[t]

\* The receive side is posted or in the hands of one thread.
RecvLabels == {"init_reg", "on_accept", "pr_chk", "pr_recv", "on_recv"}

RecvOwned ==
  /\ \A t \in Threads : pc[t] \in RecvLabels => recvIo[ses[t]] = "none"
  /\ \A t, u \in Threads :
       t # u /\ ses[t] = ses[u] /\ pc[t] \in RecvLabels => pc[u] \notin RecvLabels

\* bSendFlag is 1 while a send is outstanding or in the hands of one thread.
SendLabels == {"ps_recount", "ps_unflag", "ps_send", "s_release", "s_unflag"}

SendOwned ==
  /\ \A t \in Threads :
       pc[t] \in SendLabels => sendIo[ses[t]] = "none" /\ bSendFlag[ses[t]]
  /\ \A t, u \in Threads :
       t # u /\ ses[t] = ses[u] /\ pc[t] \in SendLabels => pc[u] \notin SendLabels
  /\ \A k \in Keys : sendIo[k] # "none" => bSendFlag[k]

SessionInv ==
  /\ TypeOK
  /\ RefsByLabel
  /\ Roles
  /\ CountIsHolders
  /\ FlagMeansReleased
  /\ DisconnectedMeansClosed
  /\ IdIsKnown
  /\ OneOwner
  /\ IdMatches
  /\ RecvOwned
  /\ SendOwned
  /\ NoCrash
=============================================================================
