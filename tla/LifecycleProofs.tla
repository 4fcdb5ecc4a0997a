-------------------------- MODULE LifecycleProofs --------------------------
(***************************************************************************)
(* Proofs about the life cycle of the server, for any number of workers,    *)
(* sessions, accepts and restarts.                                          *)
(*                                                                          *)
(* LifecycleInv is inductive because it says what each thread relies on     *)
(* without asking: that Shutdown alone closes the listen socket, that a     *)
(* notice to end is on the port for each worker that has not ended, and     *)
(* that whoever is going to release a slot is the only one who can.         *)
(***************************************************************************)
EXTENDS ServerLifecycle, FiniteSetTheorems, TLAPS

\* The flag, and what the thread of Start and Shutdown has done.
RunInv ==
  /\ mbIsRunning <=> main = "started"
  /\ main # "stopped" => starts >= 1
  /\ main # "post" => posted = 0

\* Of the listen sockets the accept thread uses the one it made in this run, and
\* only Shutdown closes it.
SocketInv ==
  /\ accept # "ended" => main # "stopped"
  /\ mListenSocket \in IF main = "stopped" THEN {Invalid} ELSE {Invalid, starts}
  /\ accept \notin {"create", "ended"} =>
       /\ mListenSocket = starts
       /\ \/ sock[starts] = "closed" /\ ~mbIsRunning
          \/ sock[starts] = "made" /\ accept = "bind"
          \/ sock[starts] = "bound" /\ accept = "listen"
          \/ sock[starts] = "listening" /\ accept \in {"check", "call", "accept", "post"}

\* Only Shutdown posts notices to end; whatever it has posted is on the port or
\* has ended a worker.
NoticeInv ==
  /\ main # "post" => Stops = {}
  /\ main = "post" => posted <= Cardinality(Stops) + Cardinality(InState("ended"))
  /\ mbIsRunning => InState("ended") = {}

\* The IDs of the connections of this run: none of them is zero.
IDsInv ==
  \A k \in Keys : \A id \in live[k] : id[1] = k /\ id[2] \in 1 .. mSessionAcceptedCount

\* The places from which slot k can be released.
Accepting(k)  == accept = "post" /\ newKey = k
Completed(k)  == { i \in DOMAIN mIOCP : mIOCP[i] = Recv(k) }
HandledBy(k)  == { w \in Workers : worker[w] = "handle" /\ handled[w] = k }

\* One of them at most is taken, by a slot that is live.
SlotInv(k) ==
  /\ Accepting(k) => k \notin receiving
  /\ Accepting(k) \/ k \in receiving => Completed(k) = {} /\ HandledBy(k) = {}
  /\ Completed(k) = {} \/ HandledBy(k) = {}
  /\ \A i, j \in Completed(k) : i = j
  /\ \A v, w \in HandledBy(k) : v = w
  /\ Accepting(k) \/ k \in receiving \/ Completed(k) # {} \/ HandledBy(k) # {}
       => live[k] # {}

SlotsInv == ~SlotIsShared => \A k \in Keys : SlotInv(k)

LifecycleInv ==
  TypeOK /\ RunInv /\ SocketInv /\ NoticeInv /\ IDsInv /\ SlotsInv /\ CrashHasCause

----------------------------------------------------------------------------
(* Packets and the sequences they make on the port *)

\* A notice is never a completed receive, and each says what it was made from.
LEMMA PacketFacts ==
  /\ \A id, k : Notice(id) # Recv(k)
  /\ \A i, j : Notice(i) = Notice(j) => i = j
  /\ \A i, j : Recv(i) = Recv(j) => i = j
  /\ \A id : Notice(id).kind = "notice"
  /\ \A k : Recv(k).kind = "recv" /\ Recv(k).key = k
  BY DEF Notice, Recv

\* A completed receive on the port is that of a slot.
LEMMA RecvPacket ==
  ASSUME NEW p \in Packets, p.kind = "recv"
  PROVE  p.key \in Keys /\ p = Recv(p.key)
  BY DEF Packets, Notice, Recv

\* What the port accepts: the notice of a released session, the notice to end and
\* a completed receive.
LEMMA PacketTypes ==
  /\ ZeroID \in IDs
  /\ \A id \in IDs : Notice(id) \in Packets
  /\ \A k \in Keys : Recv(k) \in Packets
  BY LifecycleConstants DEF Packets, ZeroID, IDs, Keys

\* The port behind a packet that is posted.
LEMMA Appended ==
  ASSUME NEW S, NEW q \in Seq(S), NEW p \in S
  PROVE  /\ Append(q, p) \in Seq(S)
         /\ Len(q) \in Nat /\ DOMAIN q = 1 .. Len(q)
         /\ DOMAIN Append(q, p) = 1 .. Len(q) + 1
         /\ \A i \in 1 .. Len(q) : Append(q, p)[i] = q[i]
         /\ Append(q, p)[Len(q) + 1] = p
  OBVIOUS

\* The port once its first packet is taken.
LEMMA Taken ==
  ASSUME NEW S, NEW q \in Seq(S), q # <<>>
  PROVE  /\ Tail(q) \in Seq(S)
         /\ Len(q) \in Nat \ {0} /\ DOMAIN q = 1 .. Len(q)
         /\ DOMAIN Tail(q) = 1 .. Len(q) - 1
         /\ \A i \in 1 .. Len(q) - 1 : Tail(q)[i] = q[i + 1]
         /\ Head(q) = q[1] /\ Head(q) \in S
  OBVIOUS

\* Where packet p is in q: Stops and Completed are such sets.
Places(q, p) == { i \in DOMAIN q : q[i] = p }

\* They are finite.
LEMMA PlacesFinite ==
  ASSUME NEW S, NEW q \in Seq(S), NEW p
  PROVE  IsFiniteSet(Places(q, p)) /\ Cardinality(Places(q, p)) \in Nat
  <1>1. Len(q) \in Nat /\ Places(q, p) \subseteq 1 .. Len(q)
    BY DEF Places
  <1>2. IsFiniteSet(1 .. Len(q))
    BY <1>1, FS_Interval, 1 \in Int
  <1> QED BY <1>1, <1>2, FS_Subset, FS_CardinalityType

\* A packet that is posted adds a place to its own and none to the others.
LEMMA PlacesAppended ==
  ASSUME NEW S, NEW q \in Seq(S), NEW e \in S, NEW p
  PROVE  /\ Places(Append(q, e), p) = IF e = p THEN Places(q, p) \cup {Len(q) + 1}
                                               ELSE Places(q, p)
         /\ Len(q) + 1 \notin Places(q, p)
  BY Appended DEF Places

\* A packet that is taken leaves its place, and the others come forward.
LEMMA PlacesTaken ==
  ASSUME NEW S, NEW q \in Seq(S), q # <<>>, NEW p
  PROVE  /\ Places(Tail(q), p) = { i - 1 : i \in Places(q, p) \ {1} }
         /\ 1 \in Places(q, p) <=> Head(q) = p
         /\ Places(q, p) \subseteq Nat \ {0}
  BY Taken DEF Places

\* Taking p makes its places one fewer, taking another packet does not.
LEMMA CountTaken ==
  ASSUME NEW S, NEW q \in Seq(S), q # <<>>, NEW p
  PROVE  Cardinality(Places(Tail(q), p)) =
           IF Head(q) = p THEN Cardinality(Places(q, p)) - 1 ELSE Cardinality(Places(q, p))
  <1> DEFINE A == Places(q, p) \ {1}
             B == Places(Tail(q), p)
             f == [i \in A |-> i - 1]
  <1>1. IsFiniteSet(Places(q, p))
    BY PlacesFinite
  <1>2. IsFiniteSet(A) /\ Cardinality(A) = IF 1 \in Places(q, p) THEN Cardinality(Places(q, p)) - 1
                                                               ELSE Cardinality(Places(q, p))
    BY <1>1, FS_RemoveElement
  <1>3. B = { i - 1 : i \in A } /\ A \subseteq Nat
    BY PlacesTaken
  <1>4. f \in Bijection(A, B)
    BY <1>3 DEF Bijection, Injection, Surjection, IsInjective
  <1>5. Cardinality(B) = Cardinality(A)
    BY <1>2, <1>4, FS_Bijection DEF ExistsBijection
  <1> QED BY <1>2, <1>5, PlacesTaken

----------------------------------------------------------------------------
(* Releasing a slot *)

\* The connection whose notice Release posts is that of the slot, and not zero.
LEMMA OwnerHasID ==
  ASSUME TypeOK, IDsInv, NEW k \in Keys, live[k] # {}
  PROVE  OwnerOf(k) \in live[k] /\ OwnerOf(k) \in IDs /\ OwnerOf(k) # ZeroID
  <1>1. OwnerOf(k) \in live[k]
    BY DEF OwnerOf
  <1>2. OwnerOf(k) \in IDs
    BY <1>1 DEF TypeOK
  <1>3. OwnerOf(k)[2] \in 1 .. mSessionAcceptedCount
    BY <1>1 DEF IDsInv
  <1>4. OwnerOf(k) # ZeroID
    BY <1>3 DEF ZeroID, TypeOK
  <1> QED BY <1>1, <1>2, <1>4

\* Whoever releases a slot finds it live.
LEMMA ReleaserFindsIt ==
  ASSUME TypeOK, SlotsInv, ~Broken
  PROVE  /\ accept = "post" => newKey \in Keys /\ live[newKey] # {}
         /\ \A w \in Workers : worker[w] = "handle" =>
              handled[w] \in Keys /\ live[handled[w]] # {}
  BY DEF TypeOK, SlotsInv, SlotInv, Broken, Accepting, HandledBy

\* The ID that a session is given keeps the whole count of accepts.
LEMMA NewIDKeepsCount ==
  ASSUME TypeOK, NEW k \in Keys, mSessionAcceptedCount < MaxAccepts
  PROVE  /\ NewID(k, mSessionAcceptedCount + 1) = <<k, mSessionAcceptedCount + 1>>
         /\ NewID(k, mSessionAcceptedCount + 1) \in IDs
  <1> DEFINE n == mSessionAcceptedCount + 1
  <1>1. n \in Nat /\ n < IdCount /\ IdCount \in Nat \ {0}
    BY LifecycleConstants DEF TypeOK
  <1>2. n % IdCount = n
    <2> HIDE DEF n
    <2> QED BY <1>1
  <1> QED BY <1>1, <1>2 DEF NewID, IDs

\* A release posts a notice that ends no worker.
LEMMA Released ==
  ASSUME TypeOK, IDsInv, NEW k \in Keys, live[k] # {}, Release(k)
  PROVE  /\ mIOCP' = Append(mIOCP, Notice(OwnerOf(k)))
         /\ Notice(OwnerOf(k)) \in Packets /\ Notice(OwnerOf(k)) # Notice(ZeroID)
         /\ mIOCP' \in Seq(Packets) /\ mUnusedSessionKeys' \in Seq(Keys)
         /\ live' = [live EXCEPT ![k] = {}]
  <1>1. Notice(OwnerOf(k)) \in Packets /\ Notice(OwnerOf(k)) # Notice(ZeroID)
    BY OwnerHasID, PacketTypes, PacketFacts
  <1>2. mIOCP' = Append(mIOCP, Notice(OwnerOf(k))) /\ mIOCP' \in Seq(Packets)
    BY <1>1 DEF Release, TypeOK
  <1>3. mUnusedSessionKeys' \in Seq(Keys)
    BY DEF Release, TypeOK
  <1> QED BY <1>1, <1>2, <1>3 DEF Release

\* A packet is taken from the port.
LEMMA TakenFromPort ==
  ASSUME TypeOK, NEW w \in Workers, Takes(w)
  PROVE  /\ mIOCP' = Tail(mIOCP) /\ mIOCP # <<>> /\ mIOCP' \in Seq(Packets)
         /\ Head(mIOCP) \in Packets
  BY Taken DEF Takes, TypeOK

\* The number of workers is a number.
LEMMA NoticeCountType == NoticeCount \in Nat \ {0}
  BY LifecycleConstants, FS_CardinalityType, FS_EmptySet DEF NoticeCount

----------------------------------------------------------------------------
(* Each part of the invariant is kept by every step *)

\* The steps that end the process.
Crashing == BindFails \/ ListenFails \/ (\E e \in SocketErrors : AcceptFails(e)) \/ SystemError

\* They change nothing else.
LEMMA CrashFrame ==
  ASSUME Crashing
  PROVE  /\ crashed' \in {"socket", "system"}
         /\ UNCHANGED <<mainVars, socketVars, mIOCP, sessionVars, acceptVars, monitor, workerVars>>
  <1>1. \E cause \in {"socket", "system"} : Crash(cause)
    BY DEF Crashing, BindFails, ListenFails, AcceptFails, SystemError, StartFails, SetUpFails,
           ConnectionFails, PortFails
  <1> QED BY <1>1 DEF Crash

\* Typing: the two steps that could leave it are a Release, whose ID must be that
\* of a connection, and an accept, whose ID must be below IdCount.
LEMMA TypeStep ==
  ASSUME TypeOK, RunInv, SocketInv, IDsInv, SlotsInv, NextStep
  PROVE  TypeOK'
  <1> USE NoticeCountType
  <1>1. CASE Ended
    BY <1>1 DEF Ended, TypeOK, vars, mainVars, socketVars, sessionVars, acceptVars, workerVars
  <1>2. SUFFICES ASSUME ~Broken, Main \/ AcceptStep \/ MonitorStep \/ PeerActs
                                  \/ (\E w \in Workers : WorkerStep(w)) \/ SystemError
                 PROVE  TypeOK'
    BY <1>1 DEF NextStep
  <1> USE DEF TypeOK, mainVars, socketVars, sessionVars, acceptVars, workerVars
  <1>3. CASE Start
    <2>1. PushedKeys \in Seq(Keys)
      BY LifecycleConstants DEF PushedKeys, Keys
    <2>2. mUnusedSessionKeys' \in Seq(Keys)
      BY <2>1, <1>3 DEF Start, KeysAfterStart
    <2> QED BY <1>3, <2>2, LifecycleConstants DEF Start
  <1>4. CASE ShutdownBegins
    BY <1>4 DEF ShutdownBegins
  <1>5. CASE CloseListenSocket
    BY <1>5 DEF CloseListenSocket
  <1>6. CASE PostStop
    <2>1. mIOCP' \in Seq(Packets)
      BY <1>6, PacketTypes DEF PostStop
    <2> QED BY <1>6, <2>1 DEF PostStop
  <1>7. CASE ShutdownEnds
    BY <1>7, LifecycleConstants DEF ShutdownEnds
  <1>8. CASE CreateSocket
    <2>1. starts \in Sockets
      BY <1>8, LifecycleConstants DEF CreateSocket, RunInv, SocketInv, Sockets
    <2> QED BY <1>8, <2>1 DEF CreateSocket
  <1>9. CASE BindSocket
    BY <1>9 DEF BindSocket
  <1>10. CASE Crashing
    BY <1>10, CrashFrame
  <1>11. CASE SetSocketListen
    BY <1>11 DEF SetSocketListen
  <1>12. CASE CheckRunning \/ CallAccept \/ AcceptInterrupted \/ Refuse
    BY <1>12 DEF CheckRunning, CallAccept, AcceptInterrupted, Refuse
  <1>13. CASE AcceptSession
    <2>1. Head(mUnusedSessionKeys) \in Keys /\ Tail(mUnusedSessionKeys) \in Seq(Keys)
      BY <1>13, Taken DEF AcceptSession
    <2>2. NewID(Head(mUnusedSessionKeys), mSessionAcceptedCount + 1) \in IDs
      BY <1>13, <2>1, NewIDKeepsCount DEF AcceptSession
    <2>3. mSessionAcceptedCount + 1 \in 0 .. MaxAccepts
      BY <1>13, LifecycleConstants DEF AcceptSession
    <2>4. live' \in [Keys -> SUBSET IDs]
      BY <1>13, <2>1, <2>2 DEF AcceptSession
    <2> QED BY <1>13, <2>1, <2>3, <2>4 DEF AcceptSession
  <1>14. CASE PostRecv
    BY <1>14, LifecycleConstants DEF PostRecv, Keys
  <1>15. CASE PostRecvFails
    <2>1. newKey \in Keys /\ live[newKey] # {}
      BY <1>2, <1>15, ReleaserFindsIt DEF PostRecvFails
    <2>2. mIOCP' \in Seq(Packets) /\ mUnusedSessionKeys' \in Seq(Keys)
          /\ live' = [live EXCEPT ![newKey] = {}]
      BY <1>15, <2>1, Released DEF PostRecvFails
    <2> QED BY <1>15, <2>2, LifecycleConstants DEF PostRecvFails, Keys
  <1>16. CASE MonitorStep
    BY <1>16 DEF MonitorStep, MonitorCheck, Sample
  <1>17. CASE PeerActs
    <2>1. PICK k \in receiving : mIOCP' = Append(mIOCP, Recv(k)) /\ receiving' = receiving \ {k}
      BY <1>17 DEF PeerActs
    <2>2. mIOCP' \in Seq(Packets)
      BY <2>1, PacketTypes
    <2> QED BY <1>17, <2>1, <2>2 DEF PeerActs
  <1>18. ASSUME NEW w \in Workers, WorkerStep(w)
         PROVE  TypeOK'
    <2>1. CASE WorkerCheck(w)
      BY <2>1 DEF WorkerCheck
    <2>2. CASE TakeStop(w) \/ TakeRelease(w)
      <3>1. mIOCP' \in Seq(Packets)
        BY <2>2, TakenFromPort DEF TakeStop, TakeRelease
      <3>2. CASE TakeStop(w)
        BY <3>1, <3>2 DEF TakeStop
      <3>3. CASE TakeRelease(w)
        BY <3>1, <3>3 DEF TakeRelease
      <3> QED BY <2>2, <3>2, <3>3
    <2>3. CASE TakeRecv(w)
      <3>1. mIOCP' \in Seq(Packets) /\ Head(mIOCP).key \in Keys
        BY <2>3, TakenFromPort, RecvPacket DEF TakeRecv
      <3> QED BY <2>3, <3>1 DEF TakeRecv
    <2>4. CASE PostAgain(w)
      <3>1. handled[w] \in Keys /\ 0 \in Keys
        BY LifecycleConstants DEF Keys
      <3> QED BY <2>4, <3>1 DEF PostAgain
    <2>5. CASE Drop(w)
      <3>1. handled[w] \in Keys /\ live[handled[w]] # {}
        BY <1>2, <2>5, ReleaserFindsIt DEF Drop
      <3>2. mIOCP' \in Seq(Packets) /\ mUnusedSessionKeys' \in Seq(Keys)
            /\ live' = [live EXCEPT ![handled[w]] = {}]
        BY <2>5, <3>1, Released DEF Drop
      <3> QED BY <2>5, <3>2, LifecycleConstants DEF Drop, Keys
    <2> QED BY <1>18, <2>1, <2>2, <2>3, <2>4, <2>5 DEF WorkerStep
  <1> QED BY <1>2, <1>3, <1>4, <1>5, <1>6, <1>7, <1>8, <1>9, <1>10, <1>11, <1>12, <1>13,
            <1>14, <1>15, <1>16, <1>17, <1>18 DEF Main, Shutdown, AcceptStep, Crashing

\* What no other step touches.
LEMMA Frame ==
  ASSUME NextStep
  PROVE  /\ Main \/ UNCHANGED <<main, starts, posted, mbIsRunning>>
         /\ Main \/ AcceptStep \/ UNCHANGED <<mListenSocket, sock, accept, newKey,
                                              mSessionAcceptedCount>>
         /\ Main \/ AcceptStep \/ SystemError \/ UNCHANGED crashed
         /\ Broken => UNCHANGED vars
  <1> USE DEF mainVars, socketVars, acceptVars
  <1>1. CASE Ended
    BY <1>1 DEF Ended, vars, sessionVars, workerVars
  <1>2. CASE ~Broken /\ (Main \/ AcceptStep \/ SystemError)
    <2>1. CASE Crashing
      BY <1>2, <2>1, CrashFrame DEF sessionVars
    <2>2. CASE ~Crashing
      BY <1>2, <2>2 DEF AcceptStep, CreateSocket, BindSocket, SetSocketListen, CheckRunning,
                CallAccept, AcceptInterrupted, Refuse, AcceptSession, PostRecv, PostRecvFails, Crashing
    <2> QED BY <2>1, <2>2
  <1>3. CASE ~Broken /\ (MonitorStep \/ PeerActs)
    BY <1>3 DEF MonitorStep, MonitorCheck, Sample, PeerActs, sessionVars, workerVars
  <1>4. CASE ~Broken /\ \E w \in Workers : WorkerStep(w)
    BY <1>4 DEF WorkerStep, WorkerCheck, TakeStop, TakeRelease, TakeRecv, PostAgain, Drop,
                sessionVars
  <1>5. Ended /\ Broken => UNCHANGED vars
    BY DEF Ended
  <1> QED BY <1>1, <1>2, <1>3, <1>4, <1>5 DEF NextStep

\* The flag is set and cleared by Start and Shutdown only.
LEMMA RunStep ==
  ASSUME TypeOK, RunInv, NextStep
  PROVE  RunInv'
  <1>1. CASE Start
    <2>1. main = "stopped" /\ main' = "started" /\ mbIsRunning' = TRUE /\ posted' = posted
          /\ starts' = starts + 1 /\ starts \in Nat
      BY <1>1, LifecycleConstants DEF Start, TypeOK
    <2> QED BY <2>1 DEF RunInv
  <1>2. CASE Shutdown
    BY <1>2 DEF Shutdown, ShutdownBegins, CloseListenSocket, PostStop, ShutdownEnds, RunInv
  <1>3. CASE UNCHANGED <<main, starts, posted, mbIsRunning>>
    BY <1>3 DEF RunInv
  <1> QED BY <1>1, <1>2, <1>3, Frame DEF Main

\* The listen socket: Shutdown closes it under the accept thread at any of its
\* steps, but then the flag is already cleared.
LEMMA SocketStep ==
  ASSUME TypeOK, RunInv, SocketInv, NextStep
  PROVE  SocketInv'
  <1> USE DEF SocketInv, RunInv
  <1>1. CASE Start \/ ShutdownBegins \/ PostStop \/ ShutdownEnds
    BY <1>1 DEF Start, ShutdownBegins, PostStop, ShutdownEnds, socketVars, acceptVars, Invalid
  <1>2. CASE CloseListenSocket
    <2>1. UNCHANGED <<mListenSocket, accept, starts, mbIsRunning>> /\ main = "close" /\ main' = "post"
      BY <1>2 DEF CloseListenSocket, acceptVars
    <2>2. ASSUME accept \notin {"create", "ended"}
          PROVE  sock'[starts] = "closed" /\ ~mbIsRunning
      <3>1. starts \in Sockets
        BY <2>1 DEF Sockets, TypeOK
      <3> QED BY <1>2, <2>1, <2>2, <3>1 DEF CloseListenSocket, TypeOK
    <2> QED BY <2>1, <2>2
  <1>3. CASE CreateSocket \/ BindSocket \/ SetSocketListen
    <2>1. starts \in Sockets /\ UNCHANGED <<main, starts, mbIsRunning>>
      BY <1>3 DEF CreateSocket, BindSocket, SetSocketListen, Sockets, TypeOK, mainVars
    <2>2. CASE CreateSocket
      BY <2>1, <2>2 DEF CreateSocket, TypeOK
    <2>3. CASE BindSocket
      BY <2>1, <2>3 DEF BindSocket, CanBind, TypeOK
    <2>4. CASE SetSocketListen
      BY <2>1, <2>4 DEF SetSocketListen, TypeOK
    <2> QED BY <1>3, <2>2, <2>3, <2>4
  <1>4. CASE Crashing
    BY <1>4, CrashFrame DEF mainVars, socketVars, acceptVars
  <1>5. CASE CheckRunning \/ CallAccept \/ AcceptInterrupted \/ Refuse
    <2>1. UNCHANGED <<main, starts, mbIsRunning, mListenSocket, sock>>
      BY <1>5 DEF CheckRunning, CallAccept, AcceptInterrupted, Refuse, mainVars, socketVars
    <2>2. accept \in {"check", "call", "accept"} /\ accept' \in {"check", "call", "accept", "ended"}
      BY <1>5 DEF CheckRunning, CallAccept, AcceptInterrupted, Refuse, Connects
    <2> QED BY <2>1, <2>2
  <1>6. CASE AcceptSession \/ PostRecv \/ PostRecvFails
    BY <1>6 DEF AcceptSession, PostRecv, PostRecvFails, Connects, mainVars, socketVars
  <1>7. CASE UNCHANGED <<main, starts, posted, mbIsRunning, mListenSocket, sock, accept>>
    BY <1>7
  <1> QED BY <1>1, <1>2, <1>3, <1>4, <1>5, <1>6, <1>7, Frame DEF Main, Shutdown, AcceptStep, Crashing

\* The accept thread ends the process for the state of the socket: if the server
\* still runs, nobody has closed it, so it was the port that was taken.
LEMMA CauseStep ==
  ASSUME TypeOK, RunInv, SocketInv, CrashHasCause, NextStep
  PROVE  CrashHasCause'
  <1>1. CASE Broken
    BY <1>1, Frame DEF CrashHasCause, LeftOpen, vars, mainVars, socketVars
  <1>2. CASE ~Broken /\ UNCHANGED crashed
    BY <1>2 DEF Broken, CrashHasCause
  <1>3. CASE ListenFails \/ \E e \in SocketErrors : AcceptFails(e)
    <2>1. ~mbIsRunning
      <3>1. CASE ListenFails
        BY <3>1 DEF ListenFails, SocketInv
      <3>2. CASE \E e \in SocketErrors : AcceptFails(e)
        <4>1. accept \in {"call", "accept"} /\ sock[mListenSocket] # "listening"
          BY <3>2 DEF AcceptFails, AcceptErrors, SocketErrors
        <4> QED BY <4>1 DEF SocketInv
      <3> QED BY <1>3, <3>1, <3>2
    <2>2. mbIsRunning' = mbIsRunning
      BY <1>3, CrashFrame DEF Crashing, mainVars
    <2> QED BY <2>1, <2>2 DEF CrashHasCause
  <1>4. CASE BindFails
    <2>1. mbIsRunning => sock[starts] = "made" /\ mListenSocket = starts
      BY <1>4 DEF BindFails, SocketInv
    <2>2. mbIsRunning => LeftOpen # {}
      BY <1>4, <2>1 DEF BindFails, CanBind, PortTaken, LeftOpen
    <2>3. UNCHANGED <<mbIsRunning, starts, sock>>
      BY <1>4, CrashFrame DEF Crashing, mainVars, socketVars
    <2> QED BY <2>2, <2>3 DEF CrashHasCause, LeftOpen
  <1>5. CASE SystemError
    <2>1. \E e : e = "system" /\ Crash(e)
      BY <1>5 DEF SystemError, StartFails, SetUpFails, AcceptFails, SocketErrors, ConnectionFails,
                  PortFails
    <2> QED BY <2>1 DEF Crash, CrashHasCause
  <1>6. ~Broken => UNCHANGED crashed \/ SystemError \/ BindFails \/ ListenFails
                     \/ \E e \in SocketErrors : AcceptFails(e)
    <2>1. CASE Main \/ UNCHANGED crashed
      BY <2>1 DEF Main, Start, Shutdown, ShutdownBegins, CloseListenSocket, PostStop, ShutdownEnds
    <2>2. CASE AcceptStep
      BY <2>2 DEF AcceptStep, CreateSocket, BindSocket, SetSocketListen, CheckRunning, CallAccept,
                  AcceptInterrupted, Refuse, AcceptSession, PostRecv, PostRecvFails
    <2> QED BY <2>1, <2>2, Frame
  <1> QED BY <1>1, <1>2, <1>3, <1>4, <1>5, <1>6

\* IDs: an accept gives the slot the number of that accept.
LEMMA IDsStep ==
  ASSUME TypeOK, RunInv, IDsInv, NextStep
  PROVE  IDsInv'
  <1>1. CASE AcceptSession
    <2> DEFINE k == Head(mUnusedSessionKeys)
               n == mSessionAcceptedCount + 1
    <2>1. k \in Keys /\ NewID(k, n) = <<k, n>> /\ n \in Nat \ {0}
      BY <1>1, Taken, NewIDKeepsCount DEF AcceptSession, TypeOK
    <2>2. mSessionAcceptedCount' = n /\ live' = [live EXCEPT ![k] = @ \cup {<<k, n>>}]
      BY <1>1, <2>1 DEF AcceptSession
    <2> HIDE DEF k
    <2>3. ASSUME NEW j \in Keys, NEW id \in live'[j]
          PROVE  id[1] = j /\ id[2] \in 1 .. n
      BY <2>1, <2>2, <2>3 DEF IDsInv, TypeOK
    <2> QED BY <2>2, <2>3 DEF IDsInv
  <1>2. CASE Start \/ ShutdownEnds
    BY <1>2 DEF Start, ShutdownEnds, IDsInv
  <1>3. ASSUME ~AcceptSession, ~Start, ~ShutdownEnds, NEW k \in Keys
        PROVE  live'[k] \subseteq live[k] /\ mSessionAcceptedCount' = mSessionAcceptedCount
    <2>1. CASE Ended
      BY <2>1 DEF Ended, vars, sessionVars
    <2>2. CASE Main
      BY <1>3, <2>2 DEF Main, Shutdown, ShutdownBegins, CloseListenSocket, PostStop, sessionVars
    <2>3. CASE AcceptStep \/ SystemError
      <3>1. CASE Crashing
        BY <3>1, CrashFrame DEF sessionVars
      <3>2. CASE ~Crashing
        BY <1>3, <2>3, <3>2 DEF Crashing, AcceptStep, CreateSocket, BindSocket, SetSocketListen,
           CheckRunning, CallAccept, AcceptInterrupted, Refuse, PostRecv, PostRecvFails, Release,
           sessionVars, TypeOK
      <3> QED BY <3>1, <3>2
    <2>4. CASE MonitorStep \/ PeerActs
      BY <2>4 DEF MonitorStep, MonitorCheck, Sample, PeerActs, sessionVars
    <2>5. CASE \E w \in Workers : WorkerStep(w)
      BY <2>5 DEF WorkerStep, WorkerCheck, TakeStop, TakeRelease, TakeRecv, PostAgain, Drop, Release,
           sessionVars, TypeOK
    <2> QED BY <2>1, <2>2, <2>3, <2>4, <2>5 DEF NextStep
  <1>4. CASE ~AcceptSession /\ ~Start /\ ~ShutdownEnds
    BY <1>3, <1>4 DEF IDsInv
  <1> QED BY <1>1, <1>2, <1>4

----------------------------------------------------------------------------
(* The notices that end the workers *)

\* Both sides of the count are numbers.
LEMMA NoticesFinite ==
  ASSUME TypeOK
  PROVE  /\ IsFiniteSet(Stops) /\ Cardinality(Stops) \in Nat
         /\ \A s : IsFiniteSet(InState(s)) /\ Cardinality(InState(s)) \in Nat
  <1>1. Stops = Places(mIOCP, Notice(ZeroID))
    BY DEF Stops, Places
  <1>2. \A s : InState(s) \subseteq Workers
    BY DEF InState
  <1> QED BY <1>1, <1>2, PlacesFinite, LifecycleConstants, FS_Subset, FS_CardinalityType DEF TypeOK

\* An element more is at most one more.
LEMMA OneMore ==
  ASSUME NEW S, IsFiniteSet(S), NEW x
  PROVE  /\ Cardinality(S) \in Nat /\ Cardinality(S \cup {x}) \in Nat
         /\ Cardinality(S) <= Cardinality(S \cup {x})
  <1>1. Cardinality(S) \in Nat
    BY FS_CardinalityType
  <1>2. Cardinality(S \cup {x}) = IF x \in S THEN Cardinality(S) ELSE Cardinality(S) + 1
    BY FS_AddElement
  <1> QED BY <1>1, <1>2

\* A step that posts and takes no notice to end, and ends no worker.
LEMMA SameNotices ==
  ASSUME NoticeInv, UNCHANGED <<main, posted, mbIsRunning>>,
         Cardinality(Stops') = Cardinality(Stops), Stops = {} => Stops' = {},
         InState("ended")' = InState("ended")
  PROVE  NoticeInv'
  BY DEF NoticeInv

\* Posting a release or a receive leaves the notices to end where they are.
LEMMA StopsAppended ==
  ASSUME TypeOK, NEW p \in Packets, mIOCP' = Append(mIOCP, p)
  PROVE  /\ p # Notice(ZeroID) => Stops' = Stops
         /\ p = Notice(ZeroID) => Cardinality(Stops') = Cardinality(Stops) + 1
  <1>1. Stops = Places(mIOCP, Notice(ZeroID)) /\ Stops' = Places(Append(mIOCP, p), Notice(ZeroID))
    BY DEF Stops, Places
  <1>2. /\ Stops' = IF p = Notice(ZeroID) THEN Stops \cup {Len(mIOCP) + 1} ELSE Stops
        /\ Len(mIOCP) + 1 \notin Stops
    BY <1>1, PlacesAppended DEF TypeOK
  <1> QED BY <1>2, NoticesFinite, FS_AddElement

\* Taking one of them makes them one fewer, taking another packet does not.
LEMMA StopsTaken ==
  ASSUME TypeOK, NEW w \in Workers, Takes(w)
  PROVE  /\ Head(mIOCP) # Notice(ZeroID) =>
              Cardinality(Stops') = Cardinality(Stops) /\ (Stops = {} => Stops' = {})
         /\ Head(mIOCP) = Notice(ZeroID) =>
              Cardinality(Stops') = Cardinality(Stops) - 1 /\ Stops # {}
  <1>1. Stops = Places(mIOCP, Notice(ZeroID)) /\ Stops' = Places(Tail(mIOCP), Notice(ZeroID))
    BY TakenFromPort DEF Stops, Places
  <1>2. mIOCP \in Seq(Packets) /\ mIOCP # <<>>
    BY DEF TypeOK, Takes
  <1>3. Cardinality(Stops') = IF Head(mIOCP) = Notice(ZeroID) THEN Cardinality(Stops) - 1
                                                              ELSE Cardinality(Stops)
    BY <1>1, <1>2, CountTaken
  <1>4. 1 \in Stops <=> Head(mIOCP) = Notice(ZeroID)
    BY <1>1, <1>2, PlacesTaken
  <1>5. Stops = {} => Stops' = {}
    <2>1. Stops' = { i - 1 : i \in Stops \ {1} }
      BY <1>1, <1>2, PlacesTaken
    <2> QED BY <2>1
  <1> QED BY <1>3, <1>4, <1>5

\* The notices: each one that Shutdown posts stays on the port until it ends a
\* worker, and no other packet is taken for one.
LEMMA NoticeStep ==
  ASSUME TypeOK, RunInv, NoticeInv, IDsInv, SlotsInv, NextStep
  PROVE  NoticeInv'
  <1>1. CASE Broken
    BY <1>1, Frame DEF NoticeInv, Stops, InState, vars, mainVars, workerVars
  <1>2. CASE Ended
    BY <1>2 DEF Ended, NoticeInv, Stops, InState, vars, mainVars, workerVars
  <1>3. CASE Start \/ ShutdownEnds
    <2>1. mIOCP' = <<>> /\ main' # "post"
      BY <1>3 DEF Start, ShutdownEnds
    <2>2. Stops' = {}
      BY <2>1 DEF Stops
    <2>3. mbIsRunning' => InState("ended")' = {}
      BY <1>3 DEF Start, ShutdownEnds, InState, RunInv
    <2> QED BY <2>1, <2>2, <2>3 DEF NoticeInv
  <1>4. CASE ShutdownBegins \/ CloseListenSocket
    <2>1. Stops = {} /\ posted = 0 /\ posted' = 0 /\ ~mbIsRunning'
      BY <1>4 DEF ShutdownBegins, CloseListenSocket, NoticeInv, RunInv
    <2>2. Stops' = Stops /\ InState("ended")' = InState("ended")
      BY <1>4 DEF ShutdownBegins, CloseListenSocket, Stops, InState, workerVars
    <2> QED BY <2>1, <2>2, NoticesFinite DEF NoticeInv
  <1>5. CASE PostStop
    <2>1. Cardinality(Stops') = Cardinality(Stops) + 1
      BY <1>5, PacketTypes, StopsAppended DEF PostStop, Packets
    <2>2. /\ InState("ended")' = InState("ended") /\ ~mbIsRunning'
          /\ main' = "post" /\ posted' = posted + 1 /\ main = "post"
      BY <1>5 DEF PostStop, InState, workerVars, RunInv
    <2> QED BY <2>1, <2>2, NoticesFinite DEF NoticeInv, TypeOK
  <1>6. CASE (AcceptStep \/ SystemError) /\ ~Broken
    <2>1. CASE Crashing
      BY <2>1, CrashFrame, SameNotices DEF Stops, InState, mainVars, workerVars
    <2>2. CASE PostRecvFails
      <3>1. Stops' = Stops
        BY <1>6, <2>2, ReleaserFindsIt, Released, StopsAppended DEF PostRecvFails
      <3> QED BY <2>2, <3>1, SameNotices DEF PostRecvFails, InState, mainVars, workerVars
    <2>3. CASE ~Crashing /\ ~PostRecvFails
      <3>1. UNCHANGED <<mainVars, workerVars, mIOCP>>
        BY <1>6, <2>3 DEF Crashing, AcceptStep, CreateSocket, BindSocket, SetSocketListen,
                CheckRunning, CallAccept, AcceptInterrupted, Refuse, AcceptSession, PostRecv
      <3> QED BY <3>1, SameNotices DEF Stops, InState, mainVars, workerVars
    <2> QED BY <2>1, <2>2, <2>3
  <1>7. CASE MonitorStep
    BY <1>7, SameNotices DEF MonitorStep, MonitorCheck, Sample, Stops, InState, mainVars, workerVars
  <1>8. CASE PeerActs
    <2>1. PICK k \in receiving : mIOCP' = Append(mIOCP, Recv(k))
      BY <1>8 DEF PeerActs
    <2>2. Stops' = Stops
      BY <2>1, PacketTypes, PacketFacts, StopsAppended DEF TypeOK
    <2> QED BY <1>8, <2>2, SameNotices DEF PeerActs, InState, mainVars, workerVars
  <1>9. ASSUME ~Broken, NEW w \in Workers, WorkerStep(w)
        PROVE  NoticeInv'
    <2>1. UNCHANGED <<main, posted, mbIsRunning>>
      BY <1>9 DEF WorkerStep, WorkerCheck, TakeStop, TakeRelease, TakeRecv, PostAgain, Drop, mainVars
    <2>2. CASE WorkerCheck(w)
      <3>1. Stops' = Stops
        BY <2>2 DEF WorkerCheck, Stops
      <3>2. InState("ended")' = IF mbIsRunning THEN InState("ended") ELSE InState("ended") \cup {w}
        BY <2>2 DEF WorkerCheck, InState, TypeOK
      <3> DEFINE E == InState("ended")
      <3>3. /\ Cardinality(E) \in Nat /\ Cardinality(E \cup {w}) \in Nat
            /\ Cardinality(E) <= Cardinality(E \cup {w})
        BY NoticesFinite, OneMore
      <3>4. CASE mbIsRunning
        BY <2>1, <3>1, <3>2, <3>4, SameNotices
      <3>5. CASE ~mbIsRunning
        <4>1. E' = E \cup {w}
          BY <3>2, <3>5
        <4>2. main = "post" => posted <= Cardinality(Stops) + Cardinality(E)
          BY DEF NoticeInv
        <4>3. posted \in Nat
          BY NoticeCountType DEF TypeOK
        <4> HIDE DEF E
        <4>4. Cardinality(Stops) + Cardinality(E) <= Cardinality(Stops) + Cardinality(E')
          BY <3>3, <4>1, NoticesFinite
        <4>5. main = "post" => posted <= Cardinality(Stops) + Cardinality(E')
          BY <3>3, <4>1, <4>4, <4>2, <4>3, NoticesFinite
        <4> QED BY <2>1, <3>1, <3>5, <4>5 DEF NoticeInv, E
      <3> QED BY <3>4, <3>5
    <2>3. CASE TakeStop(w)
      <3>1. Cardinality(Stops') = Cardinality(Stops) - 1 /\ Stops # {}
        BY <2>3, StopsTaken DEF TakeStop
      <3>2. InState("ended")' = InState("ended") \cup {w} /\ w \notin InState("ended")
        BY <2>3 DEF TakeStop, Takes, InState, TypeOK
      <3>3. Cardinality(InState("ended")') = Cardinality(InState("ended")) + 1
        BY <3>2, NoticesFinite, FS_AddElement
      <3>4. main = "post" /\ ~mbIsRunning
        BY <3>1 DEF NoticeInv, RunInv
      <3> QED BY <2>1, <3>1, <3>3, <3>4, NoticesFinite DEF NoticeInv, TypeOK
    <2>4. CASE TakeRelease(w) \/ TakeRecv(w)
      <3>1. Takes(w) /\ Head(mIOCP) # Notice(ZeroID)
        BY <2>4, PacketFacts DEF TakeRelease, TakeRecv
      <3>2. InState("ended")' = InState("ended")
        BY <2>4 DEF TakeRelease, TakeRecv, Takes, InState, TypeOK
      <3> QED BY <2>1, <3>1, <3>2, StopsTaken, SameNotices
    <2>5. CASE PostAgain(w) \/ Drop(w)
      <3>1. InState("ended")' = InState("ended")
        BY <2>5 DEF PostAgain, Drop, InState, TypeOK
      <3>2. Stops' = Stops
        <4>1. CASE PostAgain(w)
          BY <4>1 DEF PostAgain, Stops
        <4>2. CASE Drop(w)
          BY <1>9, <4>2, ReleaserFindsIt, Released, StopsAppended DEF Drop
        <4> QED BY <2>5, <4>1, <4>2
      <3> QED BY <2>1, <3>1, <3>2, SameNotices
    <2> QED BY <1>9, <2>2, <2>3, <2>4, <2>5 DEF WorkerStep
  <1> QED BY <1>1, <1>2, <1>3, <1>4, <1>5, <1>6, <1>7, <1>8, <1>9 DEF NextStep, Main, Shutdown

----------------------------------------------------------------------------
(* The one place from which a slot is released *)

\* A step that gives slot k no new place and does not end its session.
LEMMA NoNewPlace ==
  ASSUME NEW k \in Keys, SlotInv(k),
         Accepting(k)' => Accepting(k), k \in receiving' => k \in receiving,
         Completed(k)' # {} => Completed(k) # {},
         \A i, j \in Completed(k)' : i = j,
         HandledBy(k)' \subseteq HandledBy(k),
         live[k] # {} => live'[k] # {}
  PROVE  SlotInv(k)'
  BY DEF SlotInv

\* A packet is posted: it is a place of the slot whose receive it completes.
LEMMA CompletedAppended ==
  ASSUME TypeOK, NEW p \in Packets, mIOCP' = Append(mIOCP, p), NEW k \in Keys
  PROVE  Completed(k)' = IF p = Recv(k) THEN Completed(k) \cup {Len(mIOCP) + 1} ELSE Completed(k)
  <1>1. Completed(k) = Places(mIOCP, Recv(k)) /\ Completed(k)' = Places(Append(mIOCP, p), Recv(k))
    BY DEF Completed, Places
  <1> QED BY <1>1, PlacesAppended DEF TypeOK

\* A packet is taken: a slot keeps its place on the port unless it was this packet.
LEMMA CompletedTaken ==
  ASSUME TypeOK, NEW w \in Workers, Takes(w), NEW k \in Keys, SlotInv(k)
  PROVE  /\ Completed(k)' # {} => Completed(k) # {}
         /\ \A i, j \in Completed(k)' : i = j
         /\ Head(mIOCP) = Recv(k) => Completed(k) # {} /\ Completed(k)' = {}
  <1> DEFINE C == Completed(k)
  <1>1. C = Places(mIOCP, Recv(k)) /\ Completed(k)' = Places(Tail(mIOCP), Recv(k))
    BY TakenFromPort DEF Completed, Places
  <1>2. mIOCP \in Seq(Packets) /\ mIOCP # <<>>
    BY DEF TypeOK, Takes
  <1>3. /\ Completed(k)' = { i - 1 : i \in C \ {1} }
        /\ 1 \in C <=> Head(mIOCP) = Recv(k)
    BY <1>1, <1>2, PlacesTaken
  <1>4. \A i, j \in C : i = j
    BY DEF SlotInv
  <1> HIDE DEF C
  <1>5. \A i, j \in Completed(k)' : i = j
    BY <1>3, <1>4
  <1>6. 1 \in C => C \ {1} = {}
    BY <1>4
  <1> QED BY <1>3, <1>5, <1>6 DEF C

\* A connection accepted into a live slot makes two of it, with different IDs.
LEMMA SecondOwner ==
  ASSUME TypeOK, IDsInv, AcceptSession, live[Head(mUnusedSessionKeys)] # {}
  PROVE  SlotIsShared'
  <1> DEFINE k == Head(mUnusedSessionKeys)
             n == mSessionAcceptedCount + 1
  <1>1. k \in Keys /\ NewID(k, n) = <<k, n>> /\ n \in Nat
    BY Taken, NewIDKeepsCount DEF AcceptSession, TypeOK
  <1>2. live' = [live EXCEPT ![k] = @ \cup {<<k, n>>}]
    BY <1>1 DEF AcceptSession
  <1>3. PICK id \in live[k] : TRUE
    OBVIOUS
  <1>4. id[2] \in 1 .. mSessionAcceptedCount
    BY <1>1, <1>3 DEF IDsInv
  <1>5. id # <<k, n>>
    BY <1>4 DEF TypeOK
  <1> HIDE DEF k, n
  <1>6. id \in live'[k] /\ <<k, n>> \in live'[k]
    BY <1>1, <1>2, <1>3 DEF TypeOK
  <1> QED BY <1>1, <1>5, <1>6 DEF SlotIsShared

\* The slots: each step takes the place of the slot it moves away from before it
\* gives it the next one.
LEMMA SlotsStep ==
  ASSUME TypeOK, TypeOK', IDsInv, SlotsInv, NextStep
  PROVE  SlotsInv'
  <1>1. CASE Ended
    BY <1>1 DEF Ended, vars, mainVars, socketVars, sessionVars, acceptVars, workerVars, SlotsInv,
                SlotInv, SlotIsShared, Accepting, Completed, HandledBy
  <1>2. SUFFICES ASSUME ~Broken, ~SlotIsShared', NEW k \in Keys, SlotInv(k),
                        Main \/ AcceptStep \/ MonitorStep \/ PeerActs
                          \/ (\E w \in Workers : WorkerStep(w)) \/ SystemError
                 PROVE  SlotInv(k)'
    BY <1>1 DEF NextStep, SlotsInv, Broken
  <1>3. CASE Start \/ ShutdownEnds
    <2>1. ~Accepting(k)' /\ receiving' = {} /\ mIOCP' = <<>>
      BY <1>3 DEF Start, ShutdownEnds, Accepting, acceptVars
    <2>2. HandledBy(k)' = {}
      BY <1>3 DEF Start, ShutdownEnds, HandledBy, workerVars
    <2> QED BY <2>1, <2>2 DEF SlotInv, Completed
  <1>4. CASE ShutdownBegins \/ CloseListenSocket \/ PostStop
    <2>1. UNCHANGED <<accept, newKey, receiving, live, worker, handled>>
      BY <1>4 DEF ShutdownBegins, CloseListenSocket, PostStop, sessionVars, acceptVars, workerVars
    <2>2. Completed(k)' = Completed(k)
      <3>1. CASE PostStop
        BY <3>1, PacketTypes, PacketFacts, CompletedAppended DEF PostStop, Packets
      <3>2. CASE ShutdownBegins \/ CloseListenSocket
        BY <3>2 DEF ShutdownBegins, CloseListenSocket, Completed
      <3> QED BY <1>4, <3>1, <3>2
    <2> QED BY <1>2, <2>1, <2>2 DEF SlotInv, Accepting, HandledBy
  <1>5. CASE Crashing \/ MonitorStep
    <2>1. UNCHANGED <<mIOCP, sessionVars, acceptVars, workerVars>>
      BY <1>5, CrashFrame DEF MonitorStep, MonitorCheck, Sample
    <2> QED BY <1>2, <2>1 DEF sessionVars, acceptVars, workerVars, SlotInv, Accepting, Completed,
                              HandledBy
  <1>6. CASE CreateSocket \/ BindSocket \/ SetSocketListen \/ CheckRunning \/ CallAccept
             \/ AcceptInterrupted \/ Refuse
    <2>1. accept # "post" /\ accept' # "post"
      BY <1>6 DEF CreateSocket, BindSocket, SetSocketListen, CheckRunning, CallAccept,
                  AcceptInterrupted, Refuse, Connects
    <2>2. UNCHANGED <<mIOCP, receiving, live, worker, handled>>
      BY <1>6 DEF CreateSocket, BindSocket, SetSocketListen, CheckRunning, CallAccept,
                  AcceptInterrupted, Refuse, sessionVars, workerVars
    <2> QED BY <1>2, <2>1, <2>2 DEF SlotInv, Accepting, Completed, HandledBy
  <1>7. CASE AcceptSession
    <2> DEFINE h == Head(mUnusedSessionKeys)
    <2>1. h \in Keys /\ live[h] = {}
      BY <1>2, <1>7, Taken, SecondOwner DEF AcceptSession, TypeOK
    <2>2. UNCHANGED <<mIOCP, receiving, worker, handled>> /\ accept # "post"
          /\ accept' = "post" /\ newKey' = h
      BY <1>7 DEF AcceptSession, workerVars, Connects
    <2>3. live' = [live EXCEPT ![h] = @ \cup {NewID(h, mSessionAcceptedCount + 1)}]
      BY <1>7 DEF AcceptSession
    <2> HIDE DEF h
    <2>4. CASE k = h
      <3>1. live'[k] # {}
        BY <2>1, <2>3, <2>4 DEF TypeOK
      <3> QED BY <1>2, <2>1, <2>2, <2>4, <3>1 DEF SlotInv, Accepting, Completed, HandledBy
    <2>5. CASE k # h
      BY <1>2, <2>2, <2>3, <2>5 DEF SlotInv, Accepting, Completed, HandledBy, TypeOK
    <2> QED BY <2>4, <2>5
  <1>8. CASE PostRecv
    BY <1>2, <1>8 DEF PostRecv, SlotInv, Accepting, Completed, HandledBy, workerVars
  <1>9. CASE PostRecvFails
    <2>1. newKey \in Keys /\ live[newKey] # {} /\ Release(newKey)
      BY <1>2, <1>9, ReleaserFindsIt DEF PostRecvFails
    <2>2. Completed(k)' = Completed(k)
      BY <2>1, Released, CompletedAppended, PacketFacts
    <2>3. UNCHANGED <<receiving, worker, handled>> /\ accept = "post" /\ accept' # "post"
          /\ live' = [live EXCEPT ![newKey] = {}]
      BY <1>9, <2>1, Released DEF PostRecvFails, workerVars
    <2> QED BY <1>2, <2>1, <2>2, <2>3 DEF SlotInv, Accepting, HandledBy, TypeOK
  <1>10. CASE PeerActs
    <2>1. PICK j \in receiving : mIOCP' = Append(mIOCP, Recv(j)) /\ receiving' = receiving \ {j}
                                 /\ UNCHANGED <<live, accept, newKey, worker, handled>>
      BY <1>10 DEF PeerActs, acceptVars, workerVars
    <2>2. Completed(k)' = IF k = j THEN Completed(k) \cup {Len(mIOCP) + 1} ELSE Completed(k)
      <3>1. Recv(j) \in Packets /\ (Recv(j) = Recv(k) <=> j = k)
        BY PacketTypes, PacketFacts DEF TypeOK
      <3> QED BY <2>1, <3>1, CompletedAppended
    <2>3. CASE k = j
      <3>1. Completed(k) = {} /\ HandledBy(k) = {} /\ ~Accepting(k) /\ live[k] # {}
        BY <1>2, <2>1, <2>3 DEF SlotInv
      <3>2. Completed(k)' = {Len(mIOCP) + 1}
        BY <2>2, <2>3, <3>1
      <3> QED BY <2>1, <2>3, <3>1, <3>2 DEF SlotInv, Accepting, HandledBy
    <2>4. CASE k # j
      BY <1>2, <2>1, <2>2, <2>4 DEF SlotInv, Accepting, HandledBy
    <2> QED BY <2>3, <2>4
  <1>11. ASSUME NEW w \in Workers, WorkerStep(w)
         PROVE  SlotInv(k)'
    <2>1. UNCHANGED <<accept, newKey>>
      BY <1>11 DEF WorkerStep, WorkerCheck, TakeStop, TakeRelease, TakeRecv, PostAgain, Drop, acceptVars
    <2>2. CASE WorkerCheck(w)
      <3>1. HandledBy(k)' = HandledBy(k)
        BY <2>2 DEF WorkerCheck, HandledBy, TypeOK
      <3> QED BY <1>2, <2>1, <2>2, <3>1 DEF WorkerCheck, SlotInv, Accepting, Completed, sessionVars
    <2>3. CASE TakeStop(w) \/ TakeRelease(w)
      <3>1. HandledBy(k)' = HandledBy(k)
        BY <2>3 DEF TakeStop, TakeRelease, Takes, HandledBy, TypeOK
      <3>2. UNCHANGED <<receiving, live>> /\ Takes(w)
        BY <2>3 DEF TakeStop, TakeRelease, sessionVars
      <3>3. /\ Completed(k)' # {} => Completed(k) # {}
            /\ \A i, j \in Completed(k)' : i = j
        BY <1>2, <3>2, CompletedTaken
      <3> QED BY <1>2, <2>1, <3>1, <3>2, <3>3, NoNewPlace DEF Accepting
    <2>4. CASE TakeRecv(w)
      <3> DEFINE h == Head(mIOCP).key
      <3>1. h \in Keys /\ Head(mIOCP) = Recv(h) /\ Takes(w)
        BY <2>4, TakenFromPort, RecvPacket DEF TakeRecv
      <3>2. UNCHANGED <<receiving, live>>
        BY <2>4 DEF TakeRecv, sessionVars
      <3>3. HandledBy(k)' = IF k = h THEN HandledBy(k) \cup {w} ELSE HandledBy(k)
        BY <2>4 DEF TakeRecv, Takes, HandledBy, TypeOK
      <3>4. /\ Completed(k)' # {} => Completed(k) # {}
            /\ \A i, j \in Completed(k)' : i = j
            /\ k = h => Completed(k) # {} /\ Completed(k)' = {}
        BY <1>2, <3>1, CompletedTaken
      <3> HIDE DEF h
      <3>5. CASE k = h
        <4>1. HandledBy(k)' = {w} /\ ~Accepting(k) /\ k \notin receiving /\ live[k] # {}
          BY <1>2, <3>3, <3>4, <3>5 DEF SlotInv
        <4> QED BY <2>1, <3>2, <3>4, <3>5, <4>1 DEF SlotInv, Accepting
      <3>6. CASE k # h
        BY <1>2, <2>1, <3>2, <3>3, <3>4, <3>6, NoNewPlace DEF Accepting
      <3> QED BY <3>5, <3>6
    <2>5. CASE PostAgain(w)
      <3> DEFINE h == handled[w]
      <3>1. h \in Keys /\ HandledBy(k)' = HandledBy(k) \ {w} /\ (w \in HandledBy(k) <=> k = h)
        BY <2>5 DEF PostAgain, HandledBy, TypeOK
      <3>2. UNCHANGED <<mIOCP, live>> /\ receiving' = receiving \cup {h}
        BY <2>5 DEF PostAgain
      <3> HIDE DEF h
      <3> QED BY <1>2, <2>1, <3>1, <3>2 DEF SlotInv, Accepting, Completed
    <2>6. CASE Drop(w)
      <3> DEFINE h == handled[w]
      <3>1. h \in Keys /\ HandledBy(k)' = HandledBy(k) \ {w} /\ (w \in HandledBy(k) <=> k = h)
        BY <2>6 DEF Drop, HandledBy, TypeOK
      <3>2. live[h] # {} /\ Release(h) /\ UNCHANGED receiving
        BY <1>2, <2>6, ReleaserFindsIt DEF Drop
      <3>3. live' = [live EXCEPT ![h] = {}] /\ Completed(k)' = Completed(k)
        BY <3>1, <3>2, Released, CompletedAppended, PacketFacts
      <3> HIDE DEF h
      <3> QED BY <1>2, <2>1, <3>1, <3>2, <3>3 DEF SlotInv, Accepting, TypeOK
    <2> QED BY <1>11, <2>2, <2>3, <2>4, <2>5, <2>6 DEF WorkerStep
  <1> QED BY <1>2, <1>3, <1>4, <1>5, <1>6, <1>7, <1>8, <1>9, <1>10, <1>11 DEF Main, Shutdown, AcceptStep, Crashing

----------------------------------------------------------------------------
(* The theorems *)

\* The server stands still.
LEMMA Stutter ==
  ASSUME LifecycleInv, UNCHANGED vars
  PROVE  LifecycleInv'
  BY DEF LifecycleInv, vars, mainVars, socketVars, sessionVars, acceptVars, workerVars, TypeOK, RunInv,
         SocketInv, NoticeInv, IDsInv, SlotsInv, CrashHasCause, Stops, InState, SlotIsShared, SlotInv,
         Accepting, Completed, HandledBy, LeftOpen

LEMMA InitialState == Init => LifecycleInv
  <1> SUFFICES ASSUME Init PROVE LifecycleInv
    OBVIOUS
  <1> USE DEF Init
  <1>1. TypeOK
    <2>1. 0 \in Keys /\ 0 \in 0 .. MaxStarts /\ 0 \in 0 .. MaxAccepts /\ 0 \in 0 .. NoticeCount
      BY LifecycleConstants, NoticeCountType DEF Keys
    <2>2. live \in [Keys -> SUBSET IDs] /\ receiving \subseteq Keys
      OBVIOUS
    <2>3. mIOCP \in Seq(Packets) /\ mUnusedSessionKeys \in Seq(Keys)
      OBVIOUS
    <2>4. handled \in [Workers -> Keys]
      BY <2>1
    <2> QED BY <2>1, <2>2, <2>3, <2>4 DEF TypeOK
  <1>2. Stops = {}
    BY DEF Stops
  <1>3. RunInv /\ SocketInv /\ NoticeInv /\ IDsInv /\ CrashHasCause
    BY <1>2 DEF RunInv, SocketInv, NoticeInv, IDsInv, CrashHasCause, Invalid
  <1>4. SlotsInv
    BY DEF SlotsInv, SlotInv, Accepting, Completed, HandledBy
  <1> QED BY <1>1, <1>3, <1>4 DEF LifecycleInv

\* The inductive invariant holds for any number of workers, slots and restarts.
THEOREM LifecycleInvariant == Spec => []LifecycleInv
  <1>1. LifecycleInv /\ [NextStep]_vars => LifecycleInv'
    BY Stutter, TypeStep, RunStep, SocketStep, NoticeStep, IDsStep, SlotsStep, CauseStep DEF LifecycleInv
  <1> QED BY <1>1, InitialState, PTL DEF Spec

\* Every variable of Start, Shutdown and their threads keeps to its values; a
\* released slot, above all, always has an ID to post.
THEOREM LifecycleTypes == Spec => []TypeOK
  <1>1. LifecycleInv => TypeOK
    BY DEF LifecycleInv
  <1> QED BY <1>1, LifecycleInvariant, PTL

\* No worker ends while the server runs: the ID of a released session is never the
\* zero that iocpWorkerThread takes for the end.
THEOREM ServerKeepsWorkers == Spec => []WorkersServe
  <1>1. LifecycleInv => WorkersServe
    BY DEF LifecycleInv, NoticeInv, WorkersServe
  <1> QED BY <1>1, LifecycleInvariant, PTL

\* Calls that the operating system fails aside, the accept thread ends the process for
\* two reasons only: Shutdown has closed the listen socket under it, or the socket of an
\* earlier run is still open.
THEOREM CrashIsExplained == Spec => []CrashHasCause
  <1>1. LifecycleInv => CrashHasCause
    BY DEF LifecycleInv
  <1> QED BY <1>1, LifecycleInvariant, PTL

\* Each worker that blocks on the port finds a notice, however many there are: the
\* wait of Shutdown for its threads ends.
THEOREM EachWorkerHasNotice == Spec => []NoticesSuffice
  <1>1. ASSUME LifecycleInv, main = "post", posted = NoticeCount
        PROVE  Cardinality(Stops) >= Cardinality(InState("gqcs"))
    <2> DEFINE G == InState("gqcs")
               E == InState("ended")
    <2>1. posted <= Cardinality(Stops) + Cardinality(E)
      BY <1>1 DEF LifecycleInv, NoticeInv
    <2>2. IsFiniteSet(G) /\ IsFiniteSet(E) /\ G \cap E = {} /\ G \cup E \subseteq Workers
      BY <1>1, NoticesFinite DEF LifecycleInv, InState
    <2>3. Cardinality(G \cup E) <= Cardinality(Workers)
      BY <2>2, LifecycleConstants, FS_Subset
    <2>4. Cardinality(G \cup E) = Cardinality(G) + Cardinality(E)
      BY <2>2, FS_Union, FS_EmptySet, FS_CardinalityType
    <2>5. Cardinality(Stops) \in Nat /\ Cardinality(G) \in Nat /\ Cardinality(E) \in Nat
      BY <1>1, NoticesFinite DEF LifecycleInv
    <2>6. Cardinality(Workers) = posted /\ posted \in Nat
      BY <1>1, NoticeCountType DEF NoticeCount
    <2> HIDE DEF G, E
    <2>7. Cardinality(G) <= Cardinality(Stops)
      BY <2>1, <2>3, <2>4, <2>5, <2>6
    <2> QED BY <2>5, <2>7 DEF G
  <1>2. LifecycleInv => NoticesSuffice
    BY <1>1 DEF NoticesSuffice
  <1> QED BY <1>2, LifecycleInvariant, PTL

----------------------------------------------------------------------------
(***************************************************************************)
(* The logger, which the server's threads write to, for any number of       *)
(* threads and calls.                                                       *)
(*                                                                          *)
(* LoggerInv is inductive because it follows a failing assertion to the     *)
(* crash: no level SetLogLevel can set is above Assert, so CheckAssert      *)
(* always goes on to the write, and what is in the file stays there.        *)
(***************************************************************************)

\* The constants and the variables of Logger.
CONSTANTS Threads, Levels, MaxCalls

VARIABLES
  mLogLevel, mhLogFile, mhMonitorFile, mAsyncLogQueue, mAsyncLogEvent, calls,
  pc, message, logLevel, writer, log, failed, reported, ended

L == INSTANCE Logger

\* Where a thread is in a call.
LogPlaces == {"idle", "format", "message", "assert", "write", "last words", "plain", "text",
           "newline", "crash", "monitor", "enqueue", "set event"}

\* A thread that is about to crash has logged its message; the process crashes by such
\* a thread.
CrashInv ==
  /\ \A t \in Threads : pc[t] = "crash" => failed \/ L!InLog(message[t])
  /\ ended = "crash" => \E t \in Threads : pc[t] = "crash"

\* Whoever is in the middle of a call, or of a write, has a message.
MessageInv ==
  /\ pc \in [Threads -> LogPlaces]
  /\ \A t \in Threads : pc[t] # "idle" => message[t] \in L!Messages
  /\ writer = "write" => log \in L!Messages

LoggerInv == L!TypeOK /\ MessageInv /\ L!NoLostWakeup /\ CrashInv

----------------------------------------------------------------------------
\* A failing assertion is written at every level there is.
LEMMA AssertIsWritten ==
  ASSUME L!LoggerConstants, L!TypeOK
  PROVE  L!IsWritten(L!Assert)
  BY DEF L!LoggerConstants, L!TypeOK, L!IsWritten, L!Assert, L!Debug

\* m is in the file f.
Has(f, m) == \E i \in DOMAIN f : f[i] = m

\* What is in a file stays in it.
LEMMA FileGrows ==
  ASSUME NEW S, NEW f \in Seq(S), NEW x \in S, NEW fails \in BOOLEAN
  PROVE  /\ L!AppendUnless(fails, f, x) \in Seq(S)
         /\ \A m : Has(f, m) => Has(L!AppendUnless(fails, f, x), m)
         /\ fails \/ Has(L!AppendUnless(fails, f, x), x)
  <1> DEFINE g == L!AppendUnless(fails, f, x)
  <1>1. CASE fails
    BY <1>1 DEF L!AppendUnless
  <1>2. CASE ~fails
    <2>1. g = Append(f, x)
      BY <1>2 DEF L!AppendUnless
    <2>2. g \in Seq(S) /\ Len(g) = Len(f) + 1 /\ g[Len(f) + 1] = x
      BY <2>1
    <2>3. DOMAIN f = 1 .. Len(f) /\ DOMAIN g = 1 .. Len(f) + 1
      BY <2>2
    <2>4. \A i \in DOMAIN f : i \in DOMAIN g /\ g[i] = f[i]
      BY <2>1, <2>3
    <2>5. \E i \in DOMAIN g : g[i] = x
      BY <2>2, <2>3
    <2> HIDE DEF g
    <2>6. ASSUME NEW m, NEW i \in DOMAIN f, f[i] = m
          PROVE  \E j \in DOMAIN g : g[j] = m
      BY <2>4, <2>6
    <2>7. g \in Seq(S) /\ Has(g, x) /\ \A m : Has(f, m) => Has(g, m)
      BY <2>2, <2>5, <2>6 DEF Has
    <2> QED BY <2>7 DEF g
  <1> QED BY <1>1, <1>2

\* The initial states satisfy the invariant.
LEMMA LoggerInitialState == ASSUME L!LoggerConstants PROVE L!Init => LoggerInv
  <1> SUFFICES ASSUME L!Init PROVE LoggerInv
    OBVIOUS
  <1>0. L!Debug \in Levels /\ 0 \in 0 .. MaxCalls
    BY DEF L!LoggerConstants
  <1>1. L!TypeOK
    <2>1. /\ mhLogFile \in Seq(L!Messages \cup {L!Newline}) /\ mhMonitorFile \in Seq(L!Messages)
          /\ mAsyncLogQueue \in Seq(L!Messages)
      BY DEF L!Init
    <2>2. /\ mLogLevel \in Levels /\ logLevel \in [Threads -> Levels]
          /\ message \in [Threads -> L!Messages \cup {L!NoMessage}] /\ calls \in 0 .. MaxCalls
      BY <1>0 DEF L!Init
    <2> QED BY <2>1, <2>2 DEF L!Init, L!TypeOK
  <1>2. MessageInv /\ L!NoLostWakeup /\ CrashInv
    BY DEF L!Init, MessageInv, LogPlaces, L!NoLostWakeup, CrashInv
  <1> QED BY <1>1, <1>2 DEF LoggerInv

\* A step that stutters.
LEMMA LoggerStutter == LoggerInv /\ UNCHANGED L!vars => LoggerInv'
  <1> SUFFICES ASSUME LoggerInv, UNCHANGED L!vars PROVE LoggerInv'
    OBVIOUS
  <1>1. L!TypeOK'
    BY DEF LoggerInv, L!vars, L!files, L!async, L!locals, L!errors, L!TypeOK
  <1>2. MessageInv' /\ L!NoLostWakeup'
    BY DEF LoggerInv, L!vars, L!async, L!locals, MessageInv, L!NoLostWakeup
  <1>3. CrashInv'
    BY DEF LoggerInv, L!vars, L!files, L!locals, L!errors, CrashInv, L!InLog
  <1> QED BY <1>1, <1>2, <1>3 DEF LoggerInv

----------------------------------------------------------------------------
(* The shapes of a step of a thread *)

\* A call begins.
LEMMA EnterStep ==
  ASSUME L!LoggerConstants, LoggerInv, ended = "no", NEW t \in Threads, NEW l \in LogPlaces, l # "crash",
         NEW lv \in Levels, L!Enter(t, l, lv)
  PROVE  LoggerInv'
  <1>1. L!TypeOK' /\ MessageInv'
    BY DEF L!LoggerConstants, LoggerInv, L!TypeOK, MessageInv, L!Enter, L!files, L!async, L!errors,
       L!Messages,
       L!NoMessage
  <1>2. L!NoLostWakeup'
    BY DEF LoggerInv, L!TypeOK, MessageInv, L!NoLostWakeup, L!Enter, L!async
  <1>3. CrashInv'
    BY DEF LoggerInv, L!TypeOK, MessageInv, CrashInv, L!Enter, L!errors, L!files, L!InLog
  <1> QED BY <1>1, <1>2, <1>3 DEF LoggerInv

\* The level is looked at.
LEMMA CheckStep ==
  ASSUME L!LoggerConstants, LoggerInv, ended = "no", NEW t \in Threads,
         NEW here \in LogPlaces \ {"idle", "set event"},
         NEW l \in LogPlaces, l # "crash", L!Check(t, here, l)
  PROVE  LoggerInv'
  <1>1. L!TypeOK' /\ MessageInv'
    <2>1. L!Debug \in Levels /\ L!NoMessage \in L!Messages \cup {L!NoMessage} /\ "idle" \in LogPlaces
      BY DEF L!LoggerConstants, LogPlaces
    <2>2. /\ pc' \in [Threads -> LogPlaces] /\ logLevel' \in [Threads -> Levels]
          /\ message' \in [Threads -> L!Messages \cup {L!NoMessage}]
      BY <2>1 DEF LoggerInv, L!TypeOK, MessageInv, L!Check, L!Return
    <2>3. ASSUME NEW u \in Threads, pc'[u] # "idle"
          PROVE  message'[u] \in L!Messages
      BY <2>3 DEF LoggerInv, L!TypeOK, MessageInv, L!Check, L!Return
    <2> QED BY <2>2, <2>3 DEF LoggerInv, L!TypeOK, MessageInv, L!Check, L!files, L!async, L!errors
  <1>2. L!NoLostWakeup'
    BY DEF LoggerInv, L!TypeOK, MessageInv, L!NoLostWakeup, L!Check, L!Return, L!async
  <1>3. CrashInv'
    BY DEF LoggerInv, L!TypeOK, MessageInv, CrashInv, L!Check, L!Return, L!errors, L!files, L!InLog
  <1> QED BY <1>1, <1>2, <1>3 DEF LoggerInv

\* An assertion that fails goes on to the write, never straight to the crash.
LEMMA AssertStep ==
  ASSUME L!LoggerConstants, LoggerInv, ended = "no", NEW t \in Threads, L!CheckAssert(t)
  PROVE  LoggerInv'
  <1>1. pc' = [pc EXCEPT ![t] = "last words"]
    BY AssertIsWritten DEF LoggerInv, L!CheckAssert
  <1>2. L!TypeOK' /\ MessageInv'
    BY <1>1 DEF LoggerInv, L!TypeOK, MessageInv, L!CheckAssert, L!files, L!async, L!errors,
       LogPlaces
  <1>3. L!NoLostWakeup'
    BY <1>1 DEF LoggerInv, L!TypeOK, MessageInv, L!NoLostWakeup, L!CheckAssert, L!async
  <1>4. CrashInv'
    BY <1>1 DEF LoggerInv, L!TypeOK, MessageInv, CrashInv, L!CheckAssert, L!errors, L!files, L!InLog
  <1> QED BY <1>2, <1>3, <1>4 DEF LoggerInv

\* A line is written to the log file; the last words of an assertion are in it before
\* the thread goes on to the crash.
LEMMA WriteLogStep ==
  ASSUME L!LoggerConstants, LoggerInv, ended = "no", NEW t \in Threads, NEW fails \in BOOLEAN, NEW x,
         x \in L!Messages \cup {L!Newline},
         L!writeToFile(fails), mhLogFile' = L!AppendUnless(fails, mhLogFile, x),
         UNCHANGED <<mLogLevel, mhMonitorFile, L!async, calls, writer, log, ended>>,
         pc[t] \notin {"idle", "set event"},
         \/ L!Return(t)
         \/ pc' = [pc EXCEPT ![t] = "newline"] /\ UNCHANGED <<message, logLevel>>
         \/ pc' = [pc EXCEPT ![t] = "crash"] /\ UNCHANGED <<message, logLevel>> /\ x = message[t]
  PROVE  LoggerInv'
  <1>0. /\ mhLogFile \in Seq(L!Messages \cup {L!Newline})
        /\ mhLogFile' \in Seq(L!Messages \cup {L!Newline})
        /\ \A m : Has(mhLogFile, m) => Has(mhLogFile', m)
        /\ fails \/ Has(mhLogFile', x)
    <2>1. mhLogFile \in Seq(L!Messages \cup {L!Newline})
      BY DEF LoggerInv, L!TypeOK
    <2> QED BY <2>1, FileGrows
  <1>1. L!TypeOK' /\ MessageInv'
    <2>1. L!TypeOK'
      BY <1>0 DEF L!LoggerConstants, LoggerInv, L!TypeOK, L!Return, L!writeToFile, L!async,
         L!NoMessage
    <2>2. MessageInv'
      BY <1>0 DEF L!LoggerConstants, LoggerInv, L!TypeOK, MessageInv, L!Return, L!NoMessage,
         LogPlaces
    <2> QED BY <2>1, <2>2
  <1>2. L!NoLostWakeup'
    BY DEF LoggerInv, L!TypeOK, MessageInv, L!NoLostWakeup, L!Return, L!async
  <1>3. CrashInv'
    <2>1. ended' # "crash"
      OBVIOUS
    <2>2. ASSUME NEW u \in Threads, pc'[u] = "crash"
          PROVE  failed' \/ Has(mhLogFile', message'[u])
      <3>1. message'[u] = message[u]
        BY <2>2 DEF LoggerInv, L!TypeOK, MessageInv, L!Return
      <3>2. CASE pc[u] = "crash"
        <4>1. failed \/ Has(mhLogFile, message[u])
          BY <3>2 DEF LoggerInv, CrashInv, L!InLog, Has
        <4> QED BY <1>0, <3>1, <4>1 DEF L!writeToFile
      <3>3. CASE pc[u] # "crash"
        <4>1. u = t /\ x = message[t]
          BY <2>2, <3>3 DEF LoggerInv, L!TypeOK, MessageInv, L!Return
        <4> QED BY <1>0, <3>1, <4>1 DEF L!writeToFile
      <3> QED BY <3>2, <3>3
    <2> QED BY <2>1, <2>2 DEF CrashInv, L!InLog, Has
  <1> QED BY <1>1, <1>2, <1>3 DEF LoggerInv

\* A line is written to the monitor file.
LEMMA MonitorFileStep ==
  ASSUME L!LoggerConstants, LoggerInv, ended = "no", NEW t \in Threads, NEW fails \in BOOLEAN,
         L!WriteMonitor(t, fails)
  PROVE  LoggerInv'
  <1>1. mhMonitorFile' \in Seq(L!Messages)
    <2>1. message[t] \in L!Messages /\ mhMonitorFile \in Seq(L!Messages)
      BY DEF LoggerInv, L!TypeOK, MessageInv, L!WriteMonitor
    <2> QED BY <2>1 DEF L!WriteMonitor, L!AppendUnless
  <1>2. L!TypeOK' /\ MessageInv'
    BY <1>1 DEF L!LoggerConstants, LoggerInv, L!TypeOK, MessageInv, L!WriteMonitor, L!Return,
       L!writeToFile, L!async,
                L!NoMessage, LogPlaces
  <1>3. L!NoLostWakeup'
    BY DEF LoggerInv, L!TypeOK, MessageInv, L!NoLostWakeup, L!WriteMonitor, L!Return, L!async
  <1>4. CrashInv'
    BY DEF LoggerInv, L!TypeOK, MessageInv, CrashInv, L!WriteMonitor, L!Return, L!writeToFile,
       L!InLog
  <1> QED BY <1>2, <1>3, <1>4 DEF LoggerInv

\* A message is handed to the writer, then the event is set.
LEMMA EnqueueStep ==
  ASSUME L!LoggerConstants, LoggerInv, ended = "no", NEW t \in Threads, L!Enqueue(t) \/ L!SetEvent(t)
  PROVE  LoggerInv'
  <1>1. mAsyncLogQueue' \in Seq(L!Messages)
    <2>1. mAsyncLogQueue \in Seq(L!Messages) /\ (pc[t] = "enqueue" => message[t] \in L!Messages)
      BY DEF LoggerInv, L!TypeOK, MessageInv
    <2>2. \/ mAsyncLogQueue' = mAsyncLogQueue
          \/ message[t] \in L!Messages /\ mAsyncLogQueue' = Append(mAsyncLogQueue, message[t])
      BY <2>1 DEF L!Enqueue, L!SetEvent
    <2> QED BY <2>1, <2>2
  <1>2. L!TypeOK' /\ MessageInv'
    BY <1>1 DEF L!LoggerConstants, LoggerInv, L!TypeOK, MessageInv, L!Enqueue, L!SetEvent,
       L!Return, L!files,
                L!errors, L!NoMessage, LogPlaces
  <1>3. L!NoLostWakeup'
    BY DEF LoggerInv, L!TypeOK, MessageInv, L!NoLostWakeup, L!Enqueue, L!SetEvent, L!Return
  <1>4. CrashInv'
    <2>1. CASE L!Enqueue(t)
      BY <2>1 DEF LoggerInv, MessageInv, CrashInv, L!Enqueue, L!files, L!errors, L!InLog
    <2>2. CASE L!SetEvent(t)
      BY <2>2 DEF LoggerInv, L!TypeOK, MessageInv, CrashInv, L!SetEvent, L!Return, L!files,
         L!errors, L!InLog
    <2> QED BY <2>1, <2>2
  <1> QED BY <1>2, <1>3, <1>4 DEF LoggerInv

\* The crash and the end of main.
LEMMA EndStep ==
  ASSUME LoggerInv, L!Exit \/ \E t \in Threads : L!raiseCrash(t)
  PROVE  LoggerInv'
  <1>1. L!TypeOK' /\ MessageInv' /\ L!NoLostWakeup'
    BY DEF LoggerInv, L!TypeOK, MessageInv, L!NoLostWakeup, L!Exit, L!raiseCrash, L!files, L!async,
       L!locals,
       L!errors
  <1>2. CrashInv'
    BY DEF LoggerInv, CrashInv, L!Exit, L!raiseCrash, L!files, L!locals, L!errors, L!InLog
  <1> QED BY <1>1, <1>2 DEF LoggerInv

\* SetLogLevel
LEMMA LevelStep ==
  ASSUME LoggerInv, NEW l \in Levels, L!SetLogLevel(l)
  PROVE  LoggerInv'
  BY DEF LoggerInv, L!TypeOK, MessageInv, L!NoLostWakeup, CrashInv, L!SetLogLevel, L!files,
     L!async, L!locals,
         L!errors, L!InLog

\* The writer goes back to sleep on an empty queue only.
LEMMA WriterInvStep ==
  ASSUME LoggerInv, ended = "no", L!WriterStep
  PROVE  LoggerInv'
  <1>0. L!TypeOK /\ MessageInv
    BY DEF LoggerInv
  <1>1. CASE L!Wait
    BY <1>1 DEF LoggerInv, L!TypeOK, MessageInv, L!NoLostWakeup, CrashInv, L!Wait, L!files,
       L!locals,
       L!errors, L!InLog
  <1>2. CASE L!Dequeue
    <2>1. log' \in L!Messages /\ mAsyncLogQueue' \in Seq(L!Messages)
      BY <1>0, <1>2 DEF L!TypeOK, L!Dequeue
    <2> QED BY <1>2, <2>1 DEF LoggerInv, L!TypeOK, MessageInv, L!NoLostWakeup, CrashInv, L!Dequeue,
       L!files,
                              L!locals, L!errors, L!InLog
  <1>3. CASE L!QueueIsEmpty
    BY <1>3 DEF LoggerInv, L!TypeOK, MessageInv, L!NoLostWakeup, CrashInv, L!QueueIsEmpty, L!files,
       L!async,
                L!locals, L!errors, L!InLog
  <1>4. ASSUME NEW fails \in BOOLEAN, L!WriteAsync(fails)
        PROVE  LoggerInv'
    <2>1. mhMonitorFile' \in Seq(L!Messages)
      BY <1>0, <1>4 DEF L!TypeOK, MessageInv, L!WriteAsync, L!AppendUnless
    <2> QED BY <1>4, <2>1 DEF LoggerInv, L!TypeOK, MessageInv, L!NoLostWakeup, CrashInv,
       L!WriteAsync,
                 L!AfterWrite, L!writeToFile, L!NoMessage, L!async, L!locals, L!InLog
  <1> QED BY <1>1, <1>2, <1>3, <1>4 DEF L!WriterStep

\* Every step of a thread.
LEMMA ThreadInvStep ==
  ASSUME L!LoggerConstants, LoggerInv, ended = "no", NEW t \in Threads, L!ThreadStep(t)
  PROVE  LoggerInv'
  <1>0. L!Debug \in Levels /\ L!Assert \in Levels
    BY DEF L!LoggerConstants
  <1>1. CASE \/ L!LogFormatWithTime(t) \/ L!AssertFails(t) \/ L!LogFormat(t) \/ L!LogMonitor(t)
           \/ L!LogMonitorAsync(t)
    <2>1. \E l \in LogPlaces \ {"crash"}, lv \in Levels : L!Enter(t, l, lv)
      BY <1>0, <1>1 DEF L!LogFormatWithTime, L!AssertFails, L!LogFormat, L!LogMonitor,
         L!LogMonitorAsync,
         LogPlaces
    <2> QED BY <2>1, EnterStep
  <1>2. CASE L!CheckFormat(t) \/ L!LogMessageWithTime(t) \/ L!CheckLogFormat(t)
    <2>1. \E here \in LogPlaces \ {"idle", "set event"}, l \in LogPlaces \ {"crash"} : L!Check(t, here, l)
      BY <1>2 DEF L!CheckFormat, L!LogMessageWithTime, L!CheckLogFormat, LogPlaces
    <2> QED BY <2>1, CheckStep
  <1>3. CASE L!CheckAssert(t)
    BY <1>3, AssertStep
  <1>4. CASE L!raiseCrash(t)
    BY <1>4, EndStep
  <1>5. CASE L!Enqueue(t) \/ L!SetEvent(t)
    BY <1>5, EnqueueStep
  <1>6. ASSUME NEW fails \in BOOLEAN, L!WriteLog(t, fails) \/ L!WriteText(t, fails)
        PROVE  LoggerInv'
    <2>1. message[t] \in L!Messages
      BY <1>6 DEF LoggerInv, MessageInv, L!WriteLog, L!WriteText
    <2>2. pc[t] \notin {"idle", "set event"}
              /\ UNCHANGED <<mLogLevel, mhMonitorFile, L!async, calls, writer, log, ended>>
      BY <1>6 DEF L!WriteLog, L!WriteText
    <2>3. L!writeToFile(fails) /\ mhLogFile' = L!AppendUnless(fails, mhLogFile, message[t])
      BY <1>6 DEF L!WriteLog, L!WriteText
    <2>4. \/ L!Return(t)
          \/ pc' = [pc EXCEPT ![t] = "newline"] /\ UNCHANGED <<message, logLevel>>
          \/ pc' = [pc EXCEPT ![t] = "crash"] /\ UNCHANGED <<message, logLevel>>
      BY <1>6 DEF L!WriteLog, L!WriteText
    <2> QED BY <2>1, <2>2, <2>3, <2>4, WriteLogStep
  <1>7. ASSUME NEW fails \in BOOLEAN, L!WriteNewline(t, fails)
        PROVE  LoggerInv'
    <2>1. pc[t] \notin {"idle", "set event"} /\ L!Newline \in L!Messages \cup {L!Newline}
      BY <1>7 DEF L!WriteNewline
    <2> QED BY <1>7, <2>1, WriteLogStep DEF L!WriteNewline
  <1>8. ASSUME NEW fails \in BOOLEAN, L!WriteMonitor(t, fails)
        PROVE  LoggerInv'
    BY <1>8, MonitorFileStep
  <1> QED BY <1>1, <1>2, <1>3, <1>4, <1>5, <1>6, <1>7, <1>8 DEF L!ThreadStep

----------------------------------------------------------------------------
\* The inductive invariant holds for any number of threads and calls.
THEOREM LoggerInvariant == ASSUME L!LoggerConstants PROVE L!Spec => []LoggerInv
  <1>1. LoggerInv /\ [L!NextStep]_L!vars => LoggerInv'
    <2> SUFFICES ASSUME LoggerInv, [L!NextStep]_L!vars PROVE LoggerInv'
      OBVIOUS
    <2> QED BY LoggerStutter, ThreadInvStep, LevelStep, WriterInvStep, EndStep DEF L!NextStep,
       L!Ended
  <1> QED BY <1>1, LoggerInitialState, PTL DEF L!Spec

\* LogMonitorAsync queues before it sets the event and asyncLogThread drains the queue
\* before it waits: no message waits for a writer that sleeps on.
THEOREM WriterWakes == ASSUME L!LoggerConstants PROVE L!Spec => []L!NoLostWakeup
  <1>1. LoggerInv => L!NoLostWakeup
    BY DEF LoggerInv
  <1> QED BY <1>1, LoggerInvariant, PTL

\* Assert logs and then crashes, whatever SetLogLevel has been told and whatever other
\* threads write: the message is in the file unless the file failed.
THEOREM AssertionIsLogged == ASSUME L!LoggerConstants PROVE L!Spec => []L!AssertIsLogged
  <1>1. LoggerInv => L!AssertIsLogged
    BY DEF LoggerInv, CrashInv, L!AssertIsLogged
  <1> QED BY <1>1, LoggerInvariant, PTL
=============================================================================
