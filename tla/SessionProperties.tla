------------------------- MODULE SessionProperties -------------------------
(***************************************************************************)
(* What the session protocol of module Session has to guarantee.           *)
(***************************************************************************)
EXTENDS Session

\* The values the variables range over.
TypeOK ==
  /\ ioCount \in [Keys -> Nat]
  /\ releaseFlag \in [Keys -> BOOLEAN]
  /\ ID \in [Keys -> IDs \cup {NoID}]
  /\ bDisconnected \in [Keys -> BOOLEAN]
  /\ bDisconnectRegistered \in [Keys -> BOOLEAN]
  /\ bSendFlag \in [Keys -> BOOLEAN]
  /\ sendQueue \in [Keys -> Seq(Packets)]
  /\ registered \in [Keys -> Seq(Packets)]
  /\ conn \in [Keys -> {"none", "open", "reset"}]
  /\ recvIo \in [Keys -> IoStates]
  /\ sendIo \in [Keys -> IoStates \ {"zero"}]
  /\ unusedKeys \in SUBSET Keys
  /\ acceptedCount \in Nat
  /\ sessionCount \in Int
  /\ releaseNotices \subseteq IDs /\ issued \subseteq IDs /\ released \subseteq IDs
  /\ refCount \in [Packets -> Int]
  /\ pc \in [Threads -> Labels]
  /\ ses \in [Threads -> Keys \cup {NoKey}]
  /\ arg \in [Threads -> IDs \cup {NoID}]
  /\ op \in [Threads -> Ops \cup {"none"}]
  /\ pkt \in [Threads -> Packets \cup {NoPacket}]
  /\ refs \in [Threads -> 0 .. 2]
  /\ calls \in Nat
  /\ crashed \in BOOLEAN

----------------------------------------------------------------------------
\* Who a session's IoCount counts: the references threads hold and the
\* overlapped operations not yet handed to a worker.
Holders(k) ==
  { h \in Threads \X {1, 2} : ses[h[1]] = k /\ h[2] <= refs[h[1]] }
  \cup { h \in {<<"recv", 1>>} : recvIo[k] # "none" }
  \cup { h \in {<<"send", 1>>} : sendIo[k] # "none" }

\* IoCount is exactly the number of references held by threads and by
\* outstanding I/O, at every step of every interleaving: no path of the API, of
\* PostRecv, PostSend or DecrementIoCount (whose zero is taken back) forgets or
\* invents one.
CountIsHolders == \A k \in Keys : ioCount[k] = Cardinality(Holders(k))

\* Labels at which a thread reads or writes the session as a connection it owns.
Using == {"read_addr", "set_reg", "cancel", "enqueue", "ps_count", "ps_flag", "ps_recount",
          "ps_unflag", "ps_send", "io_cancel", "pr_chk", "pr_recv", "s_release", "s_unflag",
          "on_recv"}

\* While a thread works on a session, the session is not released, its socket
\* is open, and it is still the connection the thread was sent to: an ID kept
\* after OnRelease, whose key meanwhile serves another connection, reaches nobody.
NoUseAfterRelease ==
  \A t \in Threads : pc[t] \in Using =>
    /\ ~releaseFlag[ses[t]] /\ ~bDisconnected[ses[t]]
    /\ t \notin Workers => ID[ses[t]] = arg[t]

\* A released session has no I/O outstanding, and nothing but the release
\* itself changes it until the accept thread clears the flag.
FrozenWhileReleased ==
  [][\A k \in Keys : releaseFlag[k] /\ releaseFlag'[k] =>
       /\ UNCHANGED <<ID[k], bDisconnectRegistered[k], bSendFlag[k], sendQueue[k], registered[k]>>
       /\ recvIo'[k] = "none" /\ sendIo'[k] = "none"]_vars

\* No ASSERT_LIVE fails and no CrashDump::Crash is reached: TryClosesocket is
\* called once per connection, bSendFlag is 1 whenever it is reset, WSARecv and
\* WSASend never see a closed socket.
NoCrash == ~crashed

----------------------------------------------------------------------------
\* Who owns key k outside a connection: the stack of unused keys, the accept
\* thread setting the session up, or a thread releasing it.
Owners(k) ==
  { o \in {"stack"} : k \in unusedKeys }
  \cup { t \in Threads : /\ ses[t] = k
                         /\ pc[t] \in {"pop", "init_and", "init_id", "init_disc", "init_reg",
                                       "rel_close", "rel_post", "rel_push"} }

\* A key is never given to two connections and never lost: it has at most one
\* such owner, and when it has none its connection is alive, held by somebody
\* or by the thread about to take back a zero.
KeyHasOneOwner ==
  \A k \in Keys :
    /\ Cardinality(Owners(k)) <= 1
    /\ Owners(k) = {} =>
         /\ ~releaseFlag[k]
         /\ ioCount[k] > 0 \/ \E t \in Threads : ses[t] = k /\ At(t, "dec_undo")

\* The receive side of a session is in one place: posted, or in the hands of
\* one thread.  RecvBuffer and RecvOverlapped have no other protection.
OneReceiver ==
  \A k \in Keys :
    Cardinality({ t \in Threads : ses[t] = k /\ pc[t] \in {"on_recv", "pr_chk", "pr_recv"} }
                \cup { h \in {"posted"} : recvIo[k] # "none" }) <= 1

\* At most one WSASend is under way, its packets stay in RegisteredPackets
\* until it has completed, and the array is never overrun.
OneSender ==
  \A k \in Keys :
    /\ Cardinality({ t \in Threads : /\ ses[t] = k
                                     /\ pc[t] \in {"ps_recount", "ps_unflag", "ps_send",
                                                   "s_release", "s_unflag"} }
                   \cup { h \in {"posted"} : sendIo[k] # "none" }) <= 1
    /\ Len(registered[k]) <= MaxWsaBuf
    /\ sendIo[k] = "pending" => registered[k] # <<>>

----------------------------------------------------------------------------
\* IDs whose connection the application has been told of and whose release has
\* not been posted.
Live == issued \ (releaseNotices \cup released)

\* The handlers of an ID run in order: OnReceive only between OnAccept and the
\* release, one release notice per ID, never one for an ID not accepted.
HandlersInOrder ==
  /\ releaseNotices \cup released \subseteq issued
  /\ releaseNotices \cap released = {}
  /\ \A t \in Threads : pc[t] \in {"on_recv", "rel_post"} => ID[ses[t]] \in Live

Service == INSTANCE SessionService
             WITH open <- Live, closing <- releaseNotices, closed <- released

\* The protocol implements the service promised to the application: each ID is
\* accepted once, on a key no live ID uses, closed once and released once.
ImplementsService == Service!Spec

\* Where p is in the sequences of the sessions.
Places(seqs, p) == UNION { {k} \X { i \in DOMAIN seqs[k] : seqs[k][i] = p } : k \in Keys }

\* How often p is in a queue or registered for a send.
Stored(p) == Cardinality(Places(sendQueue, p)) + Cardinality(Places(registered, p))

\* A packet's reference count is the number of its callers and of the places
\* that store it: none is freed while a session still holds it, and none that a
\* failed send left behind is lost, since the next Init frees it.
PacketAccounting ==
  \A p \in Packets : refCount[p] = Cardinality({ t \in Threads : pkt[t] = p }) + Stored(p)

----------------------------------------------------------------------------
(* Liveness.  A running thread is scheduled; the completion port is a queue, *)
(* so a completion or a notice that keeps being offered is taken by some     *)
(* worker; the kernel fails the pending I/O of a connection that was reset.  *)

Fairness ==
  /\ \A t \in Threads : WF_vars(ThreadStep(t))
  /\ \A k \in Keys : /\ SF_vars(\E w \in Workers : CompleteSend(w, k))
                     /\ SF_vars(\E w \in Workers : CompleteRecv(w, k))
                     /\ WF_vars(RecvCompletes(k, "abort"))
                     /\ WF_vars(SendCompletes(k, "abort"))
  /\ \A id \in IDs : SF_vars(\E w \in Workers : OnRelease(w, id))

FairSpec == Spec /\ Fairness

\* A connection that is reset is released: OnRelease is called for its ID,
\* whatever the application and the other threads do meanwhile.
ResetIsReleased ==
  \A k \in Keys : \A id \in IDs :
    (ID[k] = id /\ conn[k] = "reset") ~> id \in released

\* Disconnect on a live session leads to its release although the peer does
\* nothing: an I/O posted at the same time is cancelled too.
DisconnectReleases ==
  \A t \in AppThreads : \A id \in IDs :
    (At(t, "cancel") /\ arg[t] = id) ~> id \in released

----------------------------------------------------------------------------
(* What the comments of NetServer.h promise and the code does not do.        *)

\* NetServer.h:75, SendAndDisconnect: "send the packet and request the
\* disconnect": while the connection is not lost, the packet reaches WSASend, or
\* at the least the session is released.
SadDoesSomething ==
  \A k \in Keys : \A id \in IDs : \A p \in Packets :
    (\E t \in AppThreads : /\ At(t, "enqueue") /\ op[t] = "sad"
                          /\ ses[t] = k /\ arg[t] = id /\ pkt[t] = p)
      ~> \/ conn[k] # "open" \/ id \in released
         \/ \E i \in DOMAIN registered[k] : registered[k][i] = p

\* NetServer.h:69, SendPacket, "request to send a packet": while a session stays
\* connected, a packet in its queue has somebody bound to send it: a WSASend
\* under way, whose completion calls PostSend, or a thread inside PostSend.
QueuedPacketHasSender ==
  \A k \in Keys :
    (sendQueue[k] # <<>> /\ conn[k] = "open" /\ ~NoNewIo(k)) =>
      \/ sendIo[k] # "none"
      \/ \E t \in Threads : ses[t] = k /\ pc[t] \in Using
=============================================================================
