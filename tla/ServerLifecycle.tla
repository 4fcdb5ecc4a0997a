-------------------------- MODULE ServerLifecycle --------------------------
(***************************************************************************)
(* NetServer from Start to Shutdown and to the next Start: the main thread, *)
(* the accept thread, the monitor thread and the workers on the completion  *)
(* port.  A session is only what these threads tell apart (whether it is    *)
(* live and whether a receive is posted); Session has the rest.             *)
(*                                                                          *)
(* The port holds completed receives and notices.  A notice is an ID posted *)
(* with no OVERLAPPED: of a released session, or zero to end a worker.      *)
(***************************************************************************)
EXTENDS Integers, Sequences, FiniteSets

CONSTANTS
  Workers,          \* iocpWorkerThreadCount threads
  MaxSessionCount,  \* mMaxSessionCount
  IdCount,          \* values of the low half of an ID: 2^32
  MaxAccepts,       \* bound: accepts of one run, below IdCount
  MaxStarts         \* bound: calls of Start

ASSUME LifecycleConstants ==
  /\ IsFiniteSet(Workers) /\ Workers # {}
  /\ MaxSessionCount \in Nat \ {0} /\ IdCount \in Nat \ {0}
  /\ MaxAccepts \in Nat /\ MaxAccepts < IdCount
  /\ MaxStarts \in Nat \ {0}

Keys    == 0 .. MaxSessionCount - 1
IDs     == Keys \X (0 .. IdCount - 1)
ZeroID  == <<0, 0>>
Sockets == 1 .. MaxStarts     \* one listen socket for each Start
Invalid == 0                  \* INVALID_SOCKET

Notice(id) == [kind |-> "notice", id |-> id, key |-> 0]
Recv(k)    == [kind |-> "recv", id |-> ZeroID, key |-> k]
Packets    == { Notice(id) : id \in IDs \cup {ZeroID} } \cup { Recv(k) : k \in Keys }

VARIABLES
  main,                 \* where the thread of Start and Shutdown is
  starts,               \* calls of Start
  posted,               \* notices this Shutdown has posted
  mbIsRunning,
  mListenSocket,
  sock,                 \* of each listen socket: none, made, bound, listening, closed
  mIOCP,                \* the packets on the port, first in first out
  mUnusedSessionKeys,   \* the stack of keys, its top first
  live,                 \* of each slot of mSessionList: the connections that own it
  receiving,            \* slots with a posted receive
  mSessionAcceptedCount,
  accept, newKey,       \* accept thread: where it is, the key it has popped
  monitor,              \* monitor thread: where it is
  worker, handled,      \* of each worker: where it is, the slot it works for
  crashed               \* why the process has crashed, "no" if it has not

mainVars    == <<main, starts, posted, mbIsRunning>>
socketVars  == <<mListenSocket, sock>>
sessionVars == <<mUnusedSessionKeys, live, receiving, mSessionAcceptedCount>>
acceptVars  == <<accept, newKey>>
workerVars  == <<worker, handled>>
vars == <<mainVars, socketVars, mIOCP, sessionVars, acceptVars, monitor, workerVars,
          crashed>>

Init ==
  /\ main = "stopped" /\ starts = 0 /\ posted = 0 /\ mbIsRunning = FALSE
  /\ mListenSocket = Invalid /\ sock = [s \in Sockets |-> "none"]
  /\ mIOCP = <<>>
  /\ mUnusedSessionKeys = <<>>
  /\ live = [k \in Keys |-> {}] /\ receiving = {}
  /\ mSessionAcceptedCount = 0
  /\ accept = "ended" /\ newKey = 0 /\ monitor = "ended"
  /\ worker = [w \in Workers |-> "ended"] /\ handled = [w \in Workers |-> 0]
  /\ crashed = "no"

----------------------------------------------------------------------------
(* Start and Shutdown *)

\* Mutant: the loop runs from 1 to mMaxSessionCount.
PushedKeysFromOne == [i \in 1 .. MaxSessionCount |-> MaxSessionCount + 1 - i]

\* Keys 0, 1, ... in the order they are pushed: the last one is on top.
PushedKeys == [i \in 1 .. MaxSessionCount |-> MaxSessionCount - i]

\* What an earlier run has left on the stack stays there.
KeysAfterStart == PushedKeys \o mUnusedSessionKeys

\* A thread that begins late is one that is created late.
Start ==
  /\ main = "stopped" /\ starts < MaxStarts
  /\ main' = "started" /\ starts' = starts + 1 /\ mbIsRunning' = TRUE
  /\ mIOCP' = <<>>
  /\ mUnusedSessionKeys' = KeysAfterStart
  /\ live' = [k \in Keys |-> {}] /\ receiving' = {}
  /\ accept' = "create" /\ monitor' = "check"
  /\ worker' = [w \in Workers |-> "check"]
  /\ UNCHANGED <<posted, socketVars, mSessionAcceptedCount, newKey, handled, crashed>>

\* Mutant: the flag stays set until the threads have ended.
ShutdownBeginsLate ==
  /\ main = "started" /\ main' = "close"
  /\ UNCHANGED <<starts, posted, mbIsRunning, socketVars, mIOCP, sessionVars, 
                 acceptVars, monitor, workerVars, crashed>>

ShutdownBegins ==
  /\ main = "started"
  /\ mbIsRunning' = FALSE /\ main' = "close"
  /\ UNCHANGED <<starts, posted, socketVars, mIOCP, sessionVars, acceptVars, monitor,
                 workerVars, crashed>>

\* closesocket on INVALID_SOCKET fails and nobody looks.
CloseListenSocket ==
  /\ main = "close" /\ main' = "post"
  /\ sock' = [s \in Sockets |-> IF s = mListenSocket THEN "closed" ELSE sock[s]]
  /\ UNCHANGED <<starts, posted, mbIsRunning, mListenSocket, mIOCP, sessionVars, 
                 acceptVars, monitor, workerVars, crashed>>

\* Mutant: one worker is forgotten.
NoticeCountShort == Cardinality(Workers) - 1

\* mThreadCount - 2
NoticeCount == Cardinality(Workers)

PostStop ==
  /\ main = "post" /\ posted < NoticeCount
  /\ posted' = posted + 1
  /\ mIOCP' = Append(mIOCP, Notice(ZeroID))
  /\ UNCHANGED <<main, starts, mbIsRunning, socketVars, sessionVars, acceptVars,
                 monitor, workerVars, crashed>>

\* The threads have ended.  The port is closed and the sessions are deleted, live or
\* not; their keys stay wherever they are.
ShutdownEnds ==
  /\ main = "post" /\ posted = NoticeCount /\ accept = "ended" /\ monitor = "ended"
  /\ \A w \in Workers : worker[w] = "ended"
  /\ main' = "stopped" /\ posted' = 0
  /\ mIOCP' = <<>>
  /\ live' = [k \in Keys |-> {}] /\ receiving' = {}
  /\ mSessionAcceptedCount' = 0
  /\ mListenSocket' = Invalid
  /\ UNCHANGED <<starts, mbIsRunning, sock, mUnusedSessionKeys, acceptVars, monitor, workerVars,
                 crashed>>

----------------------------------------------------------------------------
(* A session ends *)

\* The one connection that owns slot k.
OwnerOf(k) == CHOOSE id \in live[k] : TRUE

\* TryClosesocket, PostQueuedCompletionStatus with the ID, Push of the key.
Release(k) ==
  /\ mIOCP' = Append(mIOCP, Notice(OwnerOf(k)))
  /\ mUnusedSessionKeys' = <<k>> \o mUnusedSessionKeys
  /\ live' = [live EXCEPT ![k] = {}]

----------------------------------------------------------------------------
(* acceptThread *)

\* A failed assertion or CrashDump::Crash, because the listen socket was not in the
\* state the call needs ("socket") or a call failed for reasons of the operating
\* system ("system").
Crash(cause) ==
  /\ crashed' = cause
  /\ UNCHANGED <<mainVars, socketVars, mIOCP, sessionVars, acceptVars, monitor,
                 workerVars>>

CreateSocket ==
  /\ accept = "create" /\ accept' = "bind"
  /\ mListenSocket' = starts
  /\ sock' = [sock EXCEPT ![starts] = "made"]
  /\ UNCHANGED <<mainVars, mIOCP, sessionVars, newKey, monitor, workerVars, crashed>>

PortTaken == \E s \in Sockets : sock[s] \in {"bound", "listening"}

CanBind == sock[mListenSocket] = "made" /\ ~PortTaken

BindSocket ==
  /\ accept = "bind" /\ CanBind
  /\ accept' = "listen"
  /\ sock' = [sock EXCEPT ![mListenSocket] = "bound"]
  /\ UNCHANGED <<mainVars, mListenSocket, mIOCP, sessionVars, newKey, monitor,
                 workerVars, crashed>>

BindFails == accept = "bind" /\ ~CanBind /\ Crash("socket")

SetSocketListen ==
  /\ accept = "listen" /\ sock[mListenSocket] = "bound"
  /\ accept' = "check"
  /\ sock' = [sock EXCEPT ![mListenSocket] = "listening"]
  /\ UNCHANGED <<mainVars, mListenSocket, mIOCP, sessionVars, newKey, monitor,
                 workerVars, crashed>>

ListenFails == accept = "listen" /\ sock[mListenSocket] # "bound" /\ Crash("socket")

\* The test of the accept loop.
CheckRunning ==
  /\ accept = "check"
  /\ accept' = IF mbIsRunning THEN "call" ELSE "ended"
  /\ UNCHANGED <<mainVars, socketVars, mIOCP, sessionVars, newKey, monitor, workerVars,
                 crashed>>

\* accept() blocks on a socket that is open when it is called.
CallAccept ==
  /\ accept = "call" /\ sock[mListenSocket] = "listening"
  /\ accept' = "accept"
  /\ UNCHANGED <<mainVars, socketVars, mIOCP, sessionVars, newKey, monitor, workerVars,
                 crashed>>

\* What accept() reports: WSAENOTSOCK if Shutdown has closed the socket after the
\* test of mbIsRunning and before the call, WSAEINTR if during it.  On a socket that
\* listens it may fail too: WSAECONNRESET, WSAEMFILE, WSAENOBUFS and others.
SocketErrors == {"WSAENOTSOCK", "WSAEINTR"}
AcceptErrors ==
  IF sock[mListenSocket] = "listening" THEN {"system"}
  ELSE IF accept = "call" THEN {"WSAENOTSOCK"} ELSE {"WSAEINTR"}

bThreadExit(errorCode) == errorCode = "WSAEINTR" /\ ~mbIsRunning

AcceptFails(errorCode) ==
  /\ accept \in {"call", "accept"} /\ errorCode \in AcceptErrors /\ ~bThreadExit(errorCode)
  /\ Crash(IF errorCode \in SocketErrors THEN "socket" ELSE "system")

\* The socket was closed under the call and the server is no longer running.
AcceptInterrupted ==
  /\ accept \in {"call", "accept"}
  /\ \E errorCode \in AcceptErrors : bThreadExit(errorCode)
  /\ accept' = "ended"
  /\ UNCHANGED <<mainVars, socketVars, mIOCP, sessionVars, newKey, monitor, workerVars,
                 crashed>>

Connects == accept = "accept" /\ sock[mListenSocket] = "listening"

\* No key is left: the connection is closed.
Refuse ==
  /\ Connects /\ mUnusedSessionKeys = <<>>
  /\ accept' = "check"
  /\ UNCHANGED <<mainVars, socketVars, mIOCP, sessionVars, newKey, monitor, workerVars,
                 crashed>>

\* Mutant: the ID keeps one bit of the count.
NewIDOneBit(k, count) == <<k, count % 2>>

\* The key in the high half, the count of accepts in the low one.
NewID(k, count) == <<k, count % IdCount>>

\* TryPop, the ID, Init, RegisterIOCP, OnAccept.
AcceptSession ==
  /\ Connects /\ mUnusedSessionKeys # <<>> /\ mSessionAcceptedCount < MaxAccepts
  /\ LET k == Head(mUnusedSessionKeys) IN
       /\ newKey' = k
       /\ mSessionAcceptedCount' = mSessionAcceptedCount + 1
       /\ live' = [live EXCEPT ![k] = @ \cup {NewID(k, mSessionAcceptedCount + 1)}]
  /\ mUnusedSessionKeys' = Tail(mUnusedSessionKeys)
  /\ accept' = "post"
  /\ UNCHANGED <<mainVars, socketVars, mIOCP, receiving, monitor, workerVars, crashed>>

\* The first receive is posted.
PostRecv ==
  /\ accept = "post" /\ accept' = "check"
  /\ receiving' = receiving \cup {newKey} /\ newKey' = 0
  /\ UNCHANGED <<mainVars, socketVars, mIOCP, mUnusedSessionKeys, live, mSessionAcceptedCount,
                 monitor, workerVars, crashed>>

\* WSARecv fails: the reference of the accept thread was the last one.
PostRecvFails ==
  /\ accept = "post" /\ accept' = "check"
  /\ Release(newKey) /\ newKey' = 0
  /\ UNCHANGED <<mainVars, socketVars, receiving, mSessionAcceptedCount, monitor, workerVars, crashed>>

----------------------------------------------------------------------------
(* monitorThread *)

\* Mutant: the loop has no end.
MonitorCheckForever ==
  /\ monitor = "check" /\ monitor' = "sleep"
  /\ UNCHANGED <<mainVars, socketVars, mIOCP, sessionVars, acceptVars, workerVars,
                 crashed>>

\* The test of the monitor loop.
MonitorCheck ==
  /\ monitor = "check"
  /\ monitor' = IF mbIsRunning THEN "sleep" ELSE "ended"
  /\ UNCHANGED <<mainVars, socketVars, mIOCP, sessionVars, acceptVars, workerVars,
                 crashed>>

\* A second later; the statistics it takes are not modelled.
Sample ==
  /\ monitor = "sleep" /\ monitor' = "check"
  /\ UNCHANGED <<mainVars, socketVars, mIOCP, sessionVars, acceptVars, workerVars, crashed>>

----------------------------------------------------------------------------
(* iocpWorkerThread *)

\* The test of the worker loop.
WorkerCheck(w) ==
  /\ worker[w] = "check"
  /\ worker' = [worker EXCEPT ![w] = IF mbIsRunning THEN "gqcs" ELSE "ended"]
  /\ UNCHANGED <<mainVars, socketVars, mIOCP, sessionVars, acceptVars, monitor, handled,
                 crashed>>

Takes(w) == worker[w] = "gqcs" /\ mIOCP # <<>> /\ mIOCP' = Tail(mIOCP)

TakeStop(w) ==
  /\ Takes(w) /\ Head(mIOCP) = Notice(ZeroID)
  /\ worker' = [worker EXCEPT ![w] = "ended"]
  /\ UNCHANGED <<mainVars, socketVars, sessionVars, acceptVars, monitor, handled,
                 crashed>>

\* OnRelease
TakeRelease(w) ==
  /\ Takes(w) /\ Head(mIOCP).kind = "notice" /\ Head(mIOCP) # Notice(ZeroID)
  /\ worker' = [worker EXCEPT ![w] = "check"]
  /\ UNCHANGED <<mainVars, socketVars, sessionVars, acceptVars, monitor, handled,
                 crashed>>

TakeRecv(w) ==
  /\ Takes(w) /\ Head(mIOCP).kind = "recv"
  /\ worker' = [worker EXCEPT ![w] = "handle"]
  /\ handled' = [handled EXCEPT ![w] = Head(mIOCP).key]
  /\ UNCHANGED <<mainVars, socketVars, sessionVars, acceptVars, monitor, crashed>>

\* The packets are handled and the next receive is posted.
PostAgain(w) ==
  /\ worker[w] = "handle"
  /\ worker' = [worker EXCEPT ![w] = "check"]
  /\ receiving' = receiving \cup {handled[w]}
  /\ handled' = [handled EXCEPT ![w] = 0]
  /\ UNCHANGED <<mainVars, socketVars, mIOCP, mUnusedSessionKeys, live, mSessionAcceptedCount,
                 acceptVars, monitor, crashed>>

\* The peer has closed, a packet is wrong, or a receive cannot be posted.
Drop(w) ==
  /\ worker[w] = "handle"
  /\ worker' = [worker EXCEPT ![w] = "check"]
  /\ Release(handled[w])
  /\ handled' = [handled EXCEPT ![w] = 0]
  /\ UNCHANGED <<mainVars, socketVars, receiving, mSessionAcceptedCount, acceptVars,
                 monitor, crashed>>

----------------------------------------------------------------------------
\* Data or the end of the connection arrives: the posted receive completes.
PeerActs ==
  \E k \in receiving :
    /\ receiving' = receiving \ {k}
    /\ mIOCP' = Append(mIOCP, Recv(k))
    /\ UNCHANGED <<mainVars, socketVars, mUnusedSessionKeys, live, mSessionAcceptedCount,
                   acceptVars, monitor, workerVars, crashed>>

(* Calls that fail for reasons of the operating system *)

\* WSAStartup, CreateNewIOCP
StartFails == main = "stopped" /\ starts < MaxStarts /\ Crash("system")

\* CreateSocket, BindSocket (another process has the port), SetSocketListen
SetUpFails == accept \in {"create", "bind", "listen"} /\ Crash("system")

\* SetLinger, SetSendBufferSize, SetTcpNodelay, RegisterIOCP on the new connection
ConnectionFails == Connects /\ Crash("system")

\* GetQueuedCompletionStatus fails with an error the worker does not know.
PortFails(w) == worker[w] = "gqcs" /\ Crash("system")

SystemError == StartFails \/ SetUpFails \/ AcceptFails("system") \/ ConnectionFails
               \/ \E w \in Workers : PortFails(w)

----------------------------------------------------------------------------
Shutdown   == ShutdownBegins \/ CloseListenSocket \/ PostStop \/ ShutdownEnds
Main       == Start \/ Shutdown
AcceptStep == CreateSocket \/ BindSocket \/ BindFails \/ SetSocketListen \/ ListenFails
              \/ CheckRunning \/ CallAccept \/ (\E e \in SocketErrors : AcceptFails(e))
              \/ AcceptInterrupted \/ Refuse \/ AcceptSession \/ PostRecv \/ PostRecvFails
MonitorStep   == MonitorCheck \/ Sample
WorkerStep(w) == WorkerCheck(w) \/ TakeStop(w) \/ TakeRelease(w) \/ TakeRecv(w) \/ PostAgain(w)
                 \/ Drop(w)

\* Two connections have been given one slot: Init has run on a session in use, and
\* what either connection does from here on is not modelled.
SlotIsShared == \E k \in Keys : \E i, j \in live[k] : i # j

Broken == crashed # "no" \/ SlotIsShared

\* The program may end here.
Ended == /\ Broken \/ (main = "stopped" /\ starts = MaxStarts)
         /\ UNCHANGED vars

NextStep ==
  \/ /\ ~Broken
     /\ Main \/ AcceptStep \/ MonitorStep \/ PeerActs \/ (\E w \in Workers : WorkerStep(w))
        \/ SystemError
  \/ Ended

Spec == Init /\ [][NextStep]_vars

\* Each thread runs on; nobody has to call Start or Shutdown, to connect or to act,
\* and no call has to fail for reasons of the system.
Fairness ==
  /\ WF_vars(~Broken /\ main # "started" /\ Shutdown)
  /\ WF_vars(~Broken /\ ~Connects /\ AcceptStep)
  /\ WF_vars(~Broken /\ MonitorStep)
  /\ \A w \in Workers : WF_vars(~Broken /\ WorkerStep(w))

FairSpec == Spec /\ Fairness

----------------------------------------------------------------------------
\* The values the variables range over.
TypeOK ==
  /\ main \in {"stopped", "started", "close", "post"}
  /\ starts \in 0 .. MaxStarts /\ posted \in 0 .. NoticeCount /\ mbIsRunning \in BOOLEAN
  /\ mListenSocket \in Sockets \cup {Invalid}
  /\ sock \in [Sockets -> {"none", "made", "bound", "listening", "closed"}]
  /\ mIOCP \in Seq(Packets)
  /\ mUnusedSessionKeys \in Seq(Keys)
  /\ live \in [Keys -> SUBSET IDs] /\ receiving \subseteq Keys
  /\ mSessionAcceptedCount \in 0 .. MaxAccepts
  /\ accept \in {"create", "bind", "listen", "check", "call", "accept", "post", "ended"}
  /\ newKey \in Keys
  /\ monitor \in {"check", "sleep", "ended"}
  /\ worker \in [Workers -> {"check", "gqcs", "handle", "ended"}]
  /\ handled \in [Workers -> Keys]
  /\ crashed \in {"no", "socket", "system"}

\* Where the notices that end a worker are on the port.
Stops == { i \in DOMAIN mIOCP : mIOCP[i] = Notice(ZeroID) }

InState(s) == { w \in Workers : worker[w] = s }

\* While Shutdown waits there is a notice for every worker that blocks on the port,
\* although workers that see mbIsRunning leave theirs and a worker in the middle
\* of a receive comes back later: WaitForSingleObject does return.
NoticesSuffice ==
  main = "post" /\ posted = NoticeCount => Cardinality(Stops) >= Cardinality(InState("gqcs"))

\* A server that runs has all its workers: no released session has the ID that
\* tells a worker to end.
WorkersServe == mbIsRunning => InState("ended") = {}

\* The listen sockets of earlier runs that a Shutdown too early for them left open.
LeftOpen == { s \in Sockets : s # starts /\ sock[s] \in {"bound", "listening"} }

\* Errors of the operating system end the process at any time (SystemError).  For a
\* listen socket that is not in the state a call needs, the accept thread ends it in
\* two cases only: Shutdown has closed the socket under it, or a Shutdown that came
\* before CreateSocket has closed nothing and the port is still taken at the next Start.
CrashHasCause == crashed = "socket" => ~mbIsRunning \/ LeftOpen # {}

\* NetServer.h:138, mUnusedSessionKeys holds "keys of sessions that are not in use":
\* no connection is given the slot of another.  After a Shutdown the next Start
\* pushes every key once more on what is left, and one key is handed out twice.
SlotHasOneSession == ~SlotIsShared

\* Shutdown returns, unless the process dies first, even if every worker is busy,
\* the port is full of other packets and the accept thread has not begun.
ShutdownReturns == main = "close" ~> main = "stopped" \/ Broken
=============================================================================
