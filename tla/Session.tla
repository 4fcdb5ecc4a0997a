------------------------------ MODULE Session ------------------------------
(***************************************************************************)
(* The session life cycle of NetServer: how the accept thread, the IOCP    *)
(* worker threads and the threads of the application share one Session     *)
(* object without a lock.                                                  *)
(*                                                                         *)
(* A Session is a slot of mSessionList, named by its key.  Whoever works   *)
(* on it holds a reference in IoCount; an outstanding WSARecv or WSASend   *)
(* holds one too.  The top bit of IoCount is the Release Flag: the thread  *)
(* whose compare-and-swap takes IoCount from 1 to the bare flag closes the *)
(* socket, posts the OnRelease notice and gives the key back.              *)
(*                                                                         *)
(* Every shared read or write another thread can tell apart is a step of   *)
(* its own (pc).  A packet is a member of Packets, the send queue the      *)
(* sequence LockFreeQueue promises to its clients, the kernel (sockets,    *)
(* overlapped I/O, completion port) and the peer the actions under         *)
(* "environment".                                                          *)
(***************************************************************************)
EXTENDS Integers, Sequences, FiniteSets

CONSTANTS
  Keys,         \* indices of mSessionList
  Acceptor,     \* the accept thread
  Workers,      \* the IOCP worker threads
  AppThreads,   \* threads of the application that call the session API
  Ops,          \* the calls the application makes
  Packets,      \* packets of the packet pool
  MaxWsaBuf,    \* MAX_WSA_BUF_COUNT
  MaxAccept,    \* bound: connections accepted in a behaviour
  MaxCalls,     \* bound: API calls made in a behaviour
  NoKey, NoID, NoPacket

ASSUME KeysAssumption    == IsFiniteSet(Keys) /\ NoKey \notin Keys
ASSUME ThreadsAssumption == /\ IsFiniteSet(Workers) /\ IsFiniteSet(AppThreads)
                            /\ Acceptor \notin Workers \cup AppThreads
                            /\ Workers \cap AppThreads = {}
                            /\ {"recv", "send"} \cap ({Acceptor} \cup Workers \cup AppThreads) = {}
ASSUME OpsAssumption     == Ops \subseteq {"send", "disconnect", "sad", "addr"}
ASSUME PacketsAssumption == IsFiniteSet(Packets) /\ NoPacket \notin Packets
ASSUME BoundsAssumption  == MaxWsaBuf \in Nat \ {0} /\ MaxAccept \in Nat /\ MaxCalls \in Nat

Threads == {Acceptor} \cup Workers \cup AppThreads

\* A session ID: the key in the high 32 bits, the accept count in the low 32.
IDs == Keys \X (1 .. MaxAccept)

ASSUME NoIDAssumption == NoID \notin IDs

VARIABLES
  (* one value per Session *)
  ioCount,                \* the low 31 bits of IoCount
  releaseFlag,            \* its top bit
  ID, bDisconnected, bDisconnectRegistered, bSendFlag,
  sendQueue,              \* SendQueue
  registered,             \* RegisteredPackets[0 .. RegisteredPacketCount - 1]
  conn,                   \* the socket's connection: "none", "open", "reset"
  recvIo, sendIo,         \* the overlapped operation: see IoStates
  (* the server *)
  unusedKeys,             \* mUnusedSessionKeys
  acceptedCount,          \* mSessionAcceptedCount
  sessionCount,           \* mSessionCount
  releaseNotices,         \* IDs posted to the completion port for OnRelease
  (* what the application has been told *)
  issued,                 \* IDs passed to OnAccept
  released,               \* IDs passed to OnRelease
  (* packets *)
  refCount,               \* reference count of each Serializer
  (* threads *)
  pc, ses, arg, op, pkt,
  refs,                   \* how much of ses[t]'s ioCount thread t must give back
  calls,                  \* API calls made so far
  crashed                 \* an ASSERT_LIVE failed or CrashDump::Crash was reached

countVars  == <<ioCount, releaseFlag>>
stateVars  == <<ID, bDisconnected, bDisconnectRegistered>>
sendVars   == <<bSendFlag, sendQueue, registered, refCount>>
kernelVars == <<conn, recvIo, sendIo>>
serverVars == <<unusedKeys, acceptedCount, sessionCount>>
noticeVars == <<releaseNotices, issued, released>>
localVars  == <<ses, arg, op, pkt>>
vars == <<countVars, stateVars, sendVars, kernelVars, serverVars, noticeVars,
          localVars, pc, refs, calls, crashed>>

IoStates == {"none",     \* not posted
             "pending",  \* WSARecv or WSASend returned, not completed
             "ok",       \* completed, the completion packet not yet taken
             "zero",     \* a receive of zero bytes: the peer has shut down
             "abort"}    \* completed with an error

Labels == {"idle", "pop", "init_and", "init_id", "init_disc", "init_reg", "on_accept",
           "inc", "chk_disc", "chk_reg", "chk_id", "read_addr", "set_reg", "cancel", "enqueue",
           "pr_chk", "pr_recv", "ps_count", "ps_flag", "ps_recount", "ps_unflag", "ps_send",
           "io_cancel", "s_release", "s_unflag", "on_recv",
           "dec_cas", "dec_sub", "dec_undo", "rel_close", "rel_post", "rel_push", "return"}

\* mSessionList as Start leaves it: fresh memory, bDisconnected set, every key unused.
Init ==
  /\ ioCount = [k \in Keys |-> 0]
  /\ releaseFlag = [k \in Keys |-> FALSE]
  /\ ID = [k \in Keys |-> NoID]
  /\ bDisconnected = [k \in Keys |-> TRUE]
  /\ bDisconnectRegistered = [k \in Keys |-> FALSE]
  /\ bSendFlag = [k \in Keys |-> FALSE]
  /\ sendQueue = [k \in Keys |-> <<>>]
  /\ registered = [k \in Keys |-> <<>>]
  /\ conn = [k \in Keys |-> "none"]
  /\ recvIo = [k \in Keys |-> "none"]
  /\ sendIo = [k \in Keys |-> "none"]
  /\ unusedKeys = Keys
  /\ acceptedCount = 0
  /\ sessionCount = 0
  /\ releaseNotices = {}
  /\ issued = {}
  /\ released = {}
  /\ refCount = [p \in Packets |-> 0]
  /\ pc = [t \in Threads |-> "idle"]
  /\ ses = [t \in Threads |-> NoKey]
  /\ arg = [t \in Threads |-> NoID]
  /\ op = [t \in Threads |-> "none"]
  /\ pkt = [t \in Threads |-> NoPacket]
  /\ refs = [t \in Threads |-> 0]
  /\ calls = 0
  /\ crashed = FALSE

At(t, l)   == pc[t] = l
Goto(t, l) == pc' = [pc EXCEPT ![t] = l]

\* A step that only reads shared state and chooses where to go on.
Jump(t, l) == /\ Goto(t, l)
              /\ UNCHANGED <<countVars, stateVars, sendVars, kernelVars, serverVars, noticeVars,
                             localVars, refs, calls, crashed>>

\* ASSERT_LIVE: the process dies when the condition is false.
AssertLive(condition) == crashed' = (crashed \/ ~condition)

\* Mutant: the packets of a finished send or of the last connection leak.
ReleasePacketsLeak(seq) == refCount

\* Serializer::DecrementRefCount of every packet of a sequence.
ReleasePackets(seq) ==
  [p \in Packets |-> refCount[p] - Cardinality({i \in DOMAIN seq : seq[i] = p})]

\* CancelIoEx(Socket, NULL): what is pending completes with ERROR_OPERATION_ABORTED.
Cancelled(io) == IF io = "pending" THEN "abort" ELSE io
CancelIoEx(k) ==
  /\ recvIo' = [recvIo EXCEPT ![k] = Cancelled(@)]
  /\ sendIo' = [sendIo EXCEPT ![k] = Cancelled(@)]

----------------------------------------------------------------------------
(* The accept thread *)

\* Mutant: the accept count is left out of the ID.
NewIDKeyOnly(k) == <<k, 1>>

\* The accept count in the low half, the key in the high half.
NewID(k) == <<k, acceptedCount + 1>>

\* accept() returned a socket and a key is unused; with none left the socket
\* is closed and nothing changes.
AcceptPop(k) ==
  /\ At(Acceptor, "idle") /\ acceptedCount < MaxAccept /\ k \in unusedKeys
  /\ unusedKeys' = unusedKeys \ {k}
  /\ acceptedCount' = acceptedCount + 1
  /\ ses' = [ses EXCEPT ![Acceptor] = k]
  /\ arg' = [arg EXCEPT ![Acceptor] = NewID(k)]
  /\ Goto(Acceptor, "pop")
  /\ UNCHANGED <<countVars, stateVars, sendVars, kernelVars, sessionCount, noticeVars,
                 op, pkt, refs, calls, crashed>>

AcceptIncrement ==
  LET k == ses[Acceptor] IN
  /\ At(Acceptor, "pop")
  /\ ioCount' = [ioCount EXCEPT ![k] = @ + 1]
  /\ refs' = [refs EXCEPT ![Acceptor] = @ + 1]
  /\ Goto(Acceptor, "init_and")
  /\ UNCHANGED <<releaseFlag, stateVars, sendVars, kernelVars, serverVars, noticeVars,
                 localVars, calls, crashed>>

\* Mutant: Init stores 0 instead of masking the flag out.
InitClearFlagStore ==
  /\ At(Acceptor, "init_and")
  /\ releaseFlag' = [releaseFlag EXCEPT ![ses[Acceptor]] = FALSE]
  /\ ioCount' = [ioCount EXCEPT ![ses[Acceptor]] = 0]
  /\ Goto(Acceptor, "init_id")
  /\ UNCHANGED <<stateVars, sendVars, kernelVars, serverVars, noticeVars,
                 localVars, refs, calls, crashed>>

\* Init: clear the Release Flag, whatever the count below it is.
InitClearFlag ==
  /\ At(Acceptor, "init_and")
  /\ releaseFlag' = [releaseFlag EXCEPT ![ses[Acceptor]] = FALSE]
  /\ Goto(Acceptor, "init_id")
  /\ UNCHANGED <<ioCount, stateVars, sendVars, kernelVars, serverVars, noticeVars,
                 localVars, refs, calls, crashed>>

\* Init: ID, Socket, Address.
InitId ==
  LET k == ses[Acceptor] IN
  /\ At(Acceptor, "init_id")
  /\ ID' = [ID EXCEPT ![k] = arg[Acceptor]]
  /\ conn' = [conn EXCEPT ![k] = "open"]
  /\ Goto(Acceptor, "init_disc")
  /\ UNCHANGED <<countVars, bDisconnected, bDisconnectRegistered, sendVars, recvIo, sendIo,
                 serverVars, noticeVars, localVars, refs, calls, crashed>>

\* Init: bSendFlag and bDisconnected.
InitConnected ==
  LET k == ses[Acceptor] IN
  /\ At(Acceptor, "init_disc")
  /\ bSendFlag' = [bSendFlag EXCEPT ![k] = FALSE]
  /\ bDisconnected' = [bDisconnected EXCEPT ![k] = FALSE]
  /\ Goto(Acceptor, "init_reg")
  /\ UNCHANGED <<countVars, ID, bDisconnectRegistered, sendQueue, registered, refCount,
                 kernelVars, serverVars, noticeVars, localVars, refs, calls, crashed>>

\* Init: bDisconnectRegistered, and the packets the last connection left behind.
InitBuffers ==
  LET k == ses[Acceptor] IN
  /\ At(Acceptor, "init_reg")
  /\ bDisconnectRegistered' = [bDisconnectRegistered EXCEPT ![k] = FALSE]
  /\ refCount' = ReleasePackets(sendQueue[k] \o registered[k])
  /\ sendQueue' = [sendQueue EXCEPT ![k] = <<>>]
  /\ registered' = [registered EXCEPT ![k] = <<>>]
  /\ Goto(Acceptor, "on_accept")
  /\ UNCHANGED <<countVars, ID, bDisconnected, bSendFlag, kernelVars, serverVars, noticeVars,
                 localVars, refs, calls, crashed>>

\* RegisterIOCP, the session count, and OnAccept, which makes the ID public.
OnAccept ==
  /\ At(Acceptor, "on_accept")
  /\ sessionCount' = sessionCount + 1
  /\ issued' = issued \cup {ID[ses[Acceptor]]}
  /\ Goto(Acceptor, "pr_chk")
  /\ UNCHANGED <<countVars, stateVars, sendVars, kernelVars, unusedKeys, acceptedCount,
                 releaseNotices, released, localVars, refs, calls, crashed>>

----------------------------------------------------------------------------
(* The session API: SendPacket, Disconnect, SendAndDisconnect, GetSessionAddress *)

\* The application calls operation o on any ID it was ever given, live or stale;
\* a packet to send is freshly allocated and the caller holds one reference.
Call(t, o, id, p) ==
  /\ At(t, "idle") /\ calls < MaxCalls
  /\ calls' = calls + 1
  /\ ses' = [ses EXCEPT ![t] = id[1]]
  /\ arg' = [arg EXCEPT ![t] = id]
  /\ op' = [op EXCEPT ![t] = o]
  /\ pkt' = [pkt EXCEPT ![t] = p]
  /\ IF o \in {"send", "sad"}
     THEN /\ p \in Packets /\ refCount[p] = 0
          /\ refCount' = [refCount EXCEPT ![p] = 1]
     ELSE /\ p = NoPacket
          /\ UNCHANGED refCount
  /\ Goto(t, "inc")
  /\ UNCHANGED <<countVars, stateVars, bSendFlag, sendQueue, registered, kernelVars, serverVars,
                 noticeVars, refs, crashed>>

\* Mutant: the API ignores the sign of IncrementIoCount().
IsReleasedIgnored(k) == FALSE

\* IncrementIoCount() < 0: the Release Flag is set.
IsReleased(k) == releaseFlag[k]

Increment(t) ==
  LET k == ses[t] IN
  /\ At(t, "inc")
  /\ ioCount' = [ioCount EXCEPT ![k] = @ + 1]
  /\ refs' = [refs EXCEPT ![t] = @ + 1]
  /\ Goto(t, IF IsReleased(k) THEN "dec_cas" ELSE "chk_disc")
  /\ UNCHANGED <<releaseFlag, stateVars, sendVars, kernelVars, serverVars, noticeVars,
                 localVars, calls, crashed>>

\* Mutant: the ID is not compared again after the increment.
CheckFailsNoId(t, l) ==
  CASE l = "chk_disc" -> bDisconnected[ses[t]]
    [] l = "chk_reg"  -> bDisconnectRegistered[ses[t]]
    [] l = "chk_id"   -> FALSE

\* The rest of the guard: bDisconnected, bDisconnectRegistered and the ID, read in this order.
CheckFails(t, l) ==
  LET k == ses[t] IN
  CASE l = "chk_disc" -> bDisconnected[k]
    [] l = "chk_reg"  -> bDisconnectRegistered[k]
    [] l = "chk_id"   -> ID[k] # arg[t]

AfterChecks(t) ==
  CASE op[t] = "send" -> "enqueue" [] op[t] = "addr" -> "read_addr" [] OTHER -> "set_reg"

Check(t) ==
  /\ pc[t] \in {"chk_disc", "chk_reg", "chk_id"}
  /\ Jump(t, CASE CheckFails(t, pc[t])  -> "dec_cas"
               [] ~CheckFails(t, pc[t]) ->
                    CASE At(t, "chk_disc") -> "chk_reg"
                      [] At(t, "chk_reg")  -> "chk_id"
                      [] At(t, "chk_id")   -> AfterChecks(t))

\* GetSessionAddress copies Address, which Init wrote together with ID.
ReadAddress(t) ==
  /\ At(t, "read_addr")
  /\ Jump(t, "dec_cas")

\* Disconnect and SendAndDisconnect: from here on no I/O is posted.
RegisterDisconnect(t) ==
  /\ At(t, "set_reg")
  /\ bDisconnectRegistered' = [bDisconnectRegistered EXCEPT ![ses[t]] = TRUE]
  /\ Goto(t, IF op[t] = "disconnect" THEN "cancel" ELSE "enqueue")
  /\ UNCHANGED <<countVars, ID, bDisconnected, sendVars, kernelVars, serverVars, noticeVars,
                 localVars, refs, calls, crashed>>

CancelIo(t) ==
  /\ At(t, "cancel")
  /\ CancelIoEx(ses[t])
  /\ Goto(t, "dec_cas")
  /\ UNCHANGED <<countVars, stateVars, sendVars, conn, serverVars, noticeVars,
                 localVars, refs, calls, crashed>>

\* IncrementRefCount and SendQueue.Enqueue.
Enqueue(t) ==
  LET k == ses[t] IN
  /\ At(t, "enqueue")
  /\ refCount' = [refCount EXCEPT ![pkt[t]] = @ + 1]
  /\ sendQueue' = [sendQueue EXCEPT ![k] = Append(@, pkt[t])]
  /\ Goto(t, "ps_count")
  /\ UNCHANGED <<countVars, stateVars, bSendFlag, registered, kernelVars, serverVars, noticeVars,
                 localVars, refs, calls, crashed>>

\* The call returns and the caller frees its reference to the packet.
Return(t) ==
  /\ At(t, "return")
  /\ refCount' = IF pkt[t] = NoPacket THEN refCount ELSE [refCount EXCEPT ![pkt[t]] = @ - 1]
  /\ ses' = [ses EXCEPT ![t] = NoKey]
  /\ arg' = [arg EXCEPT ![t] = NoID]
  /\ op' = [op EXCEPT ![t] = "none"]
  /\ pkt' = [pkt EXCEPT ![t] = NoPacket]
  /\ Goto(t, "idle")
  /\ UNCHANGED <<countVars, stateVars, bSendFlag, sendQueue, registered, kernelVars, serverVars,
                 noticeVars, refs, calls, crashed>>

----------------------------------------------------------------------------
(* PostRecv and PostSend.  Their caller gives back its own reference next,  *)
(* so every return leads to DecrementIoCount.                               *)

NoNewIo(k) == bDisconnected[k] \/ bDisconnectRegistered[k]

PostRecv(t) ==
  /\ At(t, "pr_chk")
  /\ Jump(t, IF NoNewIo(ses[t]) THEN "dec_cas" ELSE "pr_recv")

PostSend(t) ==
  LET k == ses[t] IN
  /\ At(t, "ps_count")
  /\ Jump(t, IF sendQueue[k] = <<>> \/ NoNewIo(k) THEN "dec_cas" ELSE "ps_flag")

\* Mutant: the result of the exchange is not looked at.
SendFlagTakenIgnored(k) == FALSE

\* InterlockedExchange(&bSendFlag, 1): only one thread goes on.
SendFlagTaken(k) == bSendFlag[k]

TakeSendFlag(t) ==
  LET k == ses[t] IN
  /\ At(t, "ps_flag")
  /\ bSendFlag' = [bSendFlag EXCEPT ![k] = TRUE]
  /\ Goto(t, IF SendFlagTaken(k) THEN "dec_cas" ELSE "ps_recount")
  /\ UNCHANGED <<countVars, stateVars, sendQueue, registered, refCount, kernelVars, serverVars,
                 noticeVars, localVars, refs, calls, crashed>>

\* How many packets one WSASend carries.
SendBatch(queue) == IF Len(queue) < MaxWsaBuf THEN Len(queue) ELSE MaxWsaBuf

\* Recount under the flag; move a batch from the queue to RegisteredPackets.
RegisterPackets(t) ==
  LET k == ses[t]  n == SendBatch(sendQueue[k]) IN
  /\ At(t, "ps_recount")
  /\ registered' = [registered EXCEPT ![k] = @ \o SubSeq(sendQueue[k], 1, n)]
  /\ sendQueue' = [sendQueue EXCEPT ![k] = SubSeq(@, n + 1, Len(@))]
  /\ Goto(t, IF n = 0 THEN "ps_unflag" ELSE "ps_send")
  /\ UNCHANGED <<countVars, stateVars, bSendFlag, refCount, kernelVars, serverVars, noticeVars,
                 localVars, refs, calls, crashed>>

\* InterlockedExchange(&bSendFlag, 0), which must find it 1.
DropSendFlag(t, l, next) ==
  LET k == ses[t] IN
  /\ At(t, l)
  /\ bSendFlag' = [bSendFlag EXCEPT ![k] = FALSE]
  /\ AssertLive(bSendFlag[k])
  /\ Goto(t, next)
  /\ UNCHANGED <<countVars, stateVars, sendQueue, registered, refCount, kernelVars, serverVars,
                 noticeVars, localVars, refs, calls>>

NothingToSend(t) == DropSendFlag(t, "ps_unflag", "dec_cas")

\* IncrementIoCount, then WSARecv or WSASend on io: pending, done at once, or
\* refused because the connection is gone.  The operation takes over the
\* reference; when it is refused this thread has to give it back.  Any other
\* error (the socket is closed) crashes.
Submit(t, io, result) ==
  LET k == ses[t] IN
  /\ result \in {"pending", "ok", "refused"}
  /\ result = "ok" => conn[k] = "open"
  /\ result = "refused" => conn[k] = "reset"
  /\ ioCount' = [ioCount EXCEPT ![k] = @ + 1]
  /\ AssertLive(~bDisconnected[k])
  /\ IF result = "refused"
     THEN UNCHANGED io /\ refs' = [refs EXCEPT ![t] = @ + 1]
     ELSE io' = [io EXCEPT ![k] = result] /\ UNCHANGED refs
  /\ Goto(t, IF result = "pending" THEN "io_cancel" ELSE "dec_cas")
  /\ UNCHANGED <<releaseFlag, stateVars, sendVars, conn, serverVars, noticeVars,
                 localVars, calls>>

WSARecv(t, result) == At(t, "pr_recv") /\ Submit(t, recvIo, result) /\ UNCHANGED sendIo
WSASend(t, result) == At(t, "ps_send") /\ Submit(t, sendIo, result) /\ UNCHANGED recvIo

\* Mutant: PostRecv and PostSend do not look at bDisconnectRegistered again.
CancelIfRegisteredNever(t) == At(t, "io_cancel") /\ Jump(t, "dec_cas")

\* WSA_IO_PENDING: a disconnect registered meanwhile must not wait for this I/O.
CancelIfRegistered(t) ==
  LET k == ses[t] IN
  /\ At(t, "io_cancel")
  /\ IF bDisconnectRegistered[k] THEN CancelIoEx(k) ELSE UNCHANGED <<recvIo, sendIo>>
  /\ Goto(t, "dec_cas")
  /\ UNCHANGED <<countVars, stateVars, sendVars, conn, serverVars, noticeVars,
                 localVars, refs, calls, crashed>>

----------------------------------------------------------------------------
(* DecrementIoCount *)

\* Mutants: the comparison masks the Release Flag; it compares with 0.
IsLastReferenceMasked(k) == ioCount[k] = 1
IsLastReferenceZero(k)   == ioCount[k] = 0 /\ ~releaseFlag[k]

\* IoCount = 0x00000001 exactly: one reference left and no Release Flag.
IsLastReference(k) == ioCount[k] = 1 /\ ~releaseFlag[k]

\* InterlockedCompareExchange(&IoCount, 0x80000000, 1).
DecrementCas(t) ==
  LET k == ses[t] IN
  /\ At(t, "dec_cas")
  /\ IF IsLastReference(k)
     THEN /\ ioCount' = [ioCount EXCEPT ![k] = 0]
          /\ releaseFlag' = [releaseFlag EXCEPT ![k] = TRUE]
          /\ refs' = [refs EXCEPT ![t] = @ - 1]
          /\ Goto(t, "rel_close")
     ELSE /\ UNCHANGED <<countVars, refs>>
          /\ Goto(t, "dec_sub")
  /\ UNCHANGED <<stateVars, sendVars, kernelVars, serverVars, noticeVars,
                 localVars, calls, crashed>>

\* InterlockedDecrement; a zero is taken back.  A thread with a second
\* reference (its I/O was refused) is inside PostRecv or PostSend and still has
\* its own to give back.
DecrementSub(t) ==
  LET k == ses[t]
      reachedZero == ioCount[k] = 1 /\ ~releaseFlag[k] IN
  /\ At(t, "dec_sub")
  /\ ioCount' = [ioCount EXCEPT ![k] = @ - 1]
  /\ refs' = [refs EXCEPT ![t] = @ - 1]
  /\ Goto(t, CASE reachedZero -> "dec_undo"
               [] ~reachedZero /\ refs[t] > 1 -> "dec_cas"
               [] ~reachedZero /\ refs[t] <= 1 -> "return")
  /\ UNCHANGED <<releaseFlag, stateVars, sendVars, kernelVars, serverVars, noticeVars,
                 localVars, calls, crashed>>

\* Mutant: the decrement that reached zero is retried but not taken back.
DecrementUndoForgotten(t) == At(t, "dec_undo") /\ Jump(t, "dec_sub")

DecrementUndo(t) ==
  LET k == ses[t] IN
  /\ At(t, "dec_undo")
  /\ ioCount' = [ioCount EXCEPT ![k] = @ + 1]
  /\ refs' = [refs EXCEPT ![t] = @ + 1]
  /\ Goto(t, "dec_cas")
  /\ UNCHANGED <<releaseFlag, stateVars, sendVars, kernelVars, serverVars, noticeVars,
                 localVars, calls, crashed>>

\* Release: TryClosesocket, which must be the first.
ReleaseClose(t) ==
  LET k == ses[t] IN
  /\ At(t, "rel_close")
  /\ bDisconnected' = [bDisconnected EXCEPT ![k] = TRUE]
  /\ AssertLive(~bDisconnected[k])
  /\ conn' = [conn EXCEPT ![k] = "none"]
  /\ Goto(t, "rel_post")
  /\ UNCHANGED <<countVars, ID, bDisconnectRegistered, sendVars, recvIo, sendIo, serverVars,
                 noticeVars, localVars, refs, calls>>

\* Release: the counters, and the OnRelease notice carrying the session's ID.
ReleasePost(t) ==
  /\ At(t, "rel_post")
  /\ sessionCount' = sessionCount - 1
  /\ releaseNotices' = releaseNotices \cup {ID[ses[t]]}
  /\ Goto(t, "rel_push")
  /\ UNCHANGED <<countVars, stateVars, sendVars, kernelVars, unusedKeys, acceptedCount,
                 issued, released, localVars, refs, calls, crashed>>

\* Release: the key goes back to the stack.
ReleasePush(t) ==
  /\ At(t, "rel_push")
  /\ unusedKeys' = unusedKeys \cup {ses[t]}
  /\ Goto(t, "return")
  /\ UNCHANGED <<countVars, stateVars, sendVars, kernelVars, acceptedCount, sessionCount,
                 noticeVars, localVars, refs, calls, crashed>>

----------------------------------------------------------------------------
(* The IOCP worker threads *)

\* GetQueuedCompletionStatus returns a posted notice: OnRelease.
OnRelease(w, id) ==
  /\ At(w, "idle") /\ id \in releaseNotices
  /\ releaseNotices' = releaseNotices \ {id}
  /\ released' = released \cup {id}
  /\ UNCHANGED <<countVars, stateVars, sendVars, kernelVars, serverVars, issued,
                 localVars, pc, refs, calls, crashed>>

\* It returns a completed operation: its reference becomes the worker's.
Complete(w, k, io, next) ==
  /\ At(w, "idle")
  /\ io[k] \in {"ok", "zero", "abort"}
  /\ io' = [io EXCEPT ![k] = "none"]
  /\ ses' = [ses EXCEPT ![w] = k]
  /\ refs' = [refs EXCEPT ![w] = 1]
  /\ Goto(w, IF io[k] = "ok" THEN next ELSE "dec_cas")
  /\ UNCHANGED <<countVars, stateVars, sendVars, conn, serverVars, noticeVars,
                 arg, op, pkt, calls, crashed>>

CompleteSend(w, k) == Complete(w, k, sendIo, "s_release") /\ UNCHANGED recvIo
CompleteRecv(w, k) == Complete(w, k, recvIo, "on_recv") /\ UNCHANGED sendIo

\* A send completed: its packets are released, and unless a disconnect is
\* registered the flag is dropped and PostSend called again.
SendDone(w) ==
  LET k == ses[w] IN
  /\ At(w, "s_release")
  /\ refCount' = ReleasePackets(registered[k])
  /\ registered' = [registered EXCEPT ![k] = <<>>]
  /\ Goto(w, IF bDisconnectRegistered[k] THEN "dec_cas" ELSE "s_unflag")
  /\ UNCHANGED <<countVars, stateVars, bSendFlag, sendQueue, kernelVars, serverVars, noticeVars,
                 localVars, refs, calls, crashed>>

\* Mutant: the send branch falls through to PostRecv.
SendAgainReceives(w) == DropSendFlag(w, "s_unflag", "pr_chk")

SendAgain(w) == DropSendFlag(w, "s_unflag", "ps_count")

\* A receive completed: the packet loop hands complete packets to OnReceive and
\* PostRecv follows, or it finds a malformed one and stops receiving.
ReceiveDone(w, wellFormed) ==
  /\ At(w, "on_recv")
  /\ Jump(w, IF bDisconnectRegistered[ses[w]] \/ ~wellFormed THEN "dec_cas" ELSE "pr_chk")

----------------------------------------------------------------------------
(* The environment: the kernel and the peer (external) *)

KernelCompletes(k, io, result) ==
  /\ io[k] = "pending"
  /\ result = "abort" <=> conn[k] = "reset"
  /\ io' = [io EXCEPT ![k] = result]
  /\ UNCHANGED <<countVars, stateVars, sendVars, conn, serverVars, noticeVars,
                 localVars, pc, refs, calls, crashed>>

RecvCompletes(k, result) == KernelCompletes(k, recvIo, result) /\ UNCHANGED sendIo
SendCompletes(k, result) == KernelCompletes(k, sendIo, result) /\ UNCHANGED recvIo

\* The connection is reset by the peer or lost.
PeerReset(k) ==
  /\ conn[k] = "open"
  /\ conn' = [conn EXCEPT ![k] = "reset"]
  /\ UNCHANGED <<countVars, stateVars, sendVars, recvIo, sendIo, serverVars, noticeVars,
                 localVars, pc, refs, calls, crashed>>

----------------------------------------------------------------------------
AcceptStep == \/ AcceptIncrement \/ InitClearFlag \/ InitId \/ InitConnected
              \/ InitBuffers \/ OnAccept

ApiStep(t) == \/ Increment(t) \/ Check(t) \/ ReadAddress(t) \/ RegisterDisconnect(t)
              \/ CancelIo(t) \/ Enqueue(t) \/ Return(t)

PostStep(t) == \/ PostRecv(t) \/ PostSend(t) \/ TakeSendFlag(t) \/ RegisterPackets(t)
               \/ NothingToSend(t) \/ CancelIfRegistered(t)
               \/ \E result \in {"pending", "ok", "refused"} :
                     WSARecv(t, result) \/ WSASend(t, result)

DecrementStep(t) == \/ DecrementCas(t) \/ DecrementSub(t) \/ DecrementUndo(t)
                    \/ ReleaseClose(t) \/ ReleasePost(t) \/ ReleasePush(t)

CompletionStep(w) == \/ SendDone(w) \/ SendAgain(w)
                     \/ \E wellFormed \in BOOLEAN : ReceiveDone(w, wellFormed)

\* A thread in the middle of its work takes a step.
ThreadStep(t) == \/ t = Acceptor /\ AcceptStep
                 \/ t \in Workers /\ CompletionStep(t)
                 \/ ApiStep(t) \/ PostStep(t) \/ DecrementStep(t)

KernelStep(k) == \/ \E result \in {"ok", "zero", "abort"} : RecvCompletes(k, result)
                 \/ \E result \in {"ok", "abort"} : SendCompletes(k, result)

\* Nothing is left to do: every session is released and every bound is used up.
Terminated ==
  /\ \A t \in Threads : At(t, "idle")
  /\ unusedKeys = Keys /\ acceptedCount = MaxAccept
  /\ releaseNotices = {}
  /\ UNCHANGED vars

Next == \/ \E k \in Keys : AcceptPop(k) \/ KernelStep(k) \/ PeerReset(k)
        \/ \E t \in AppThreads, o \in Ops, id \in issued, p \in Packets \cup {NoPacket} :
              Call(t, o, id, p)
        \/ \E t \in Threads : ThreadStep(t)
        \/ \E w \in Workers, k \in Keys : CompleteSend(w, k) \/ CompleteRecv(w, k)
        \/ \E w \in Workers, id \in releaseNotices : OnRelease(w, id)
        \/ Terminated

Spec == Init /\ [][Next]_vars
=============================================================================
