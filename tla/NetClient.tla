----------------------------- MODULE NetClient -----------------------------
(***************************************************************************)
(* NetClient: a connection to a server, a receive thread for each           *)
(* connection, and the handlers of the application.  The application calls  *)
(* Connect as EchoDummy does: once on its main thread, then in OnDisconnect *)
(* on the receive thread until a connection is made.  SendPacket and        *)
(* Disconnect are called by the main thread.                                *)
(*                                                                          *)
(* The server sends packets of its own, cut by TCP anywhere: a packet is    *)
(* three pieces, two of the header and the payload, of a cell each in the   *)
(* receive buffer, which holds no more than its cells.  The server may end  *)
(* a connection at any point.  A step is one access to what threads share.  *)
(***************************************************************************)
EXTENDS Serializer, FiniteSets

CONSTANTS
  RandKeys,       \* what rand() may return
  Contents,       \* what the application writes into a packet with <<
  MaxSockets,     \* bound: sockets made
  MaxCalls,       \* bound: calls of SendPacket and Disconnect
  Replies,        \* what the server sends on each connection: content and rand
  BufferSize      \* cells of mRecvBuffer

ASSUME ClientConstants ==
  /\ RandKeys \subseteq Byte /\ Contents \subseteq Seq(Byte)
  /\ MaxSockets \in Nat \ {0} /\ MaxCalls \in Nat
  /\ Replies \in Seq([content : Seq(Byte), rand : Byte])
  /\ \A i \in DOMAIN Replies : Len(Replies[i].content) <= mCapacity   \* the server's packets are Serializers too
  /\ BufferSize \in Nat /\ BufferSize > 3     \* there is room for a packet

Sockets     == 1 .. MaxSockets
NoSocket    == 0
Main        == 0
RecvThreads == 1 .. MaxSockets      \* in the order they are started
Threads     == {Main} \cup RecvThreads

VARIABLES
  mSocket, mbIsConnected, mSendErrorCode,
  mRecvBuffer,      \* pieces GetUseSize counts, oldest first
  mRear,
  pc, socket,       \* of each thread; socket: the one its call of recv uses, or socketBackup
  packet,           \* the packet a thread uses, or used last
  values,           \* what OnReceive has read of it
  conn,             \* of each socket: "none", "made", "open", "down", "closed"
  pending,          \* of each socket: pieces on their way to the client
  content,          \* what the application wrote into its packet
  requests,         \* of each socket: packets the server was sent, with that content
  delivered,        \* of each receive thread: what OnReceive was given
  closes,           \* of each socket: times it was closed
  leftover,         \* a connection ended inside a packet
  filled,           \* a recv filled mRecvBuffer
  crashed, calls

shared  == <<mSocket, mbIsConnected, mSendErrorCode, mRecvBuffer, mRear>>
locals  == <<socket, packet, values>>
network == <<conn, pending, requests, closes>>
history == <<content, delivered, leftover, filled, crashed, calls>>
vars    == <<shared, pc, locals, network, history>>

Init ==
  /\ mSocket = NoSocket /\ mbIsConnected = FALSE /\ mSendErrorCode = FALSE
  /\ mRecvBuffer = <<>> /\ mRear = 0
  /\ pc = [t \in Threads |-> IF t = Main THEN "check" ELSE "none"]
  /\ socket = [t \in Threads |-> NoSocket]
  /\ packet = [t \in Threads |-> NewPacket]
  /\ values = [t \in RecvThreads |-> <<>>]
  /\ conn = [s \in Sockets |-> "none"]
  /\ pending = [s \in Sockets |-> <<>>]
  /\ content = <<>>
  /\ requests = [s \in Sockets |-> <<>>]
  /\ delivered = [t \in RecvThreads |-> <<>>]
  /\ closes = [s \in Sockets |-> 0]
  /\ leftover = FALSE /\ filled = FALSE /\ crashed = FALSE /\ calls = 0

At(t, l)   == pc[t] = l
Goto(t, l) == pc' = [pc EXCEPT ![t] = l]

\* Connect returns to the main thread, or to the loop in OnDisconnect.
ConnectReturns(t, result) ==
  Goto(t, IF t = Main THEN "idle" ELSE IF result THEN "close" ELSE "check")

----------------------------------------------------------------------------
(* Connect *)

CheckConnected(t) ==
  /\ At(t, "check")
  /\ IF mbIsConnected THEN ConnectReturns(t, FALSE) ELSE Goto(t, "socket")
  /\ UNCHANGED <<shared, locals, network, history>>

CreateSocket(t) ==
  /\ At(t, "socket")
  /\ \E s \in Sockets :
       /\ conn[s] = "none" /\ \A r \in 1 .. s - 1 : conn[r] # "none"
       /\ mSocket' = s
       /\ conn' = [conn EXCEPT ![s] = "made"]
  /\ Goto(t, "connect")
  /\ UNCHANGED <<mbIsConnected, mSendErrorCode, mRecvBuffer, mRear, locals, pending, requests, closes, history>>

\* Pieces of a packet: 1 and 2 are the halves of the header, 3 is the payload.
Pieces(s, i) == << <<s, i, 1>>, <<s, i, 2>>, <<s, i, 3>> >>

\* Those of all packets in turn.
AllPieces(s) == [j \in 1 .. 3 * Len(Replies) |-> <<s, (j + 2) \div 3, ((j + 2) % 3) + 1>>]

\* A socket that could not be connected is not closed.
TryConnect(t) ==
  /\ At(t, "connect")
  /\ \/ /\ conn' = [conn EXCEPT ![mSocket] = "open"]
        /\ pending' = [pending EXCEPT ![mSocket] = AllPieces(mSocket)]
        /\ Goto(t, "begin")
     \/ UNCHANGED <<conn, pending>> /\ ConnectReturns(t, FALSE)
  /\ UNCHANGED <<shared, locals, requests, closes, history>>

BeginThread(t) ==
  /\ At(t, "begin")
  /\ \E r \in RecvThreads :
       /\ At(r, "none") /\ \A q \in 1 .. r - 1 : ~At(q, "none")
       /\ pc' = [pc EXCEPT ![r] = "recv", ![t] = "connected"]
  /\ UNCHANGED <<shared, locals, network, history>>

SetConnected(t) ==
  /\ At(t, "connected")
  /\ mbIsConnected' = TRUE
  /\ ConnectReturns(t, TRUE)
  /\ UNCHANGED <<mSocket, mSendErrorCode, mRecvBuffer, mRear, locals, network, history>>

----------------------------------------------------------------------------
(* The main thread: packets and Disconnect *)

\* Alloc, in the memory of the packet before, and << of what is to be sent.
NewRequest(c) ==
  /\ At(Main, "idle")
  /\ packet[Main] = NewPacket \/ packet[Main].mbSendPrepared
  /\ CanInsert(Alloc(packet[Main]), c)
  /\ packet' = [packet EXCEPT ![Main] = Insert(Alloc(@), c)]
  /\ content' = c
  /\ UNCHANGED <<shared, pc, socket, values, network, delivered, leftover, filled, crashed, calls>>

SendPacket(rand) ==
  /\ At(Main, "idle") /\ calls < MaxCalls
  /\ mbIsConnected /\ packet[Main] # NewPacket
  /\ packet' = [packet EXCEPT ![Main] = Prepared(@, rand)]
  /\ calls' = calls + 1
  /\ Goto(Main, "send")
  /\ UNCHANGED <<shared, socket, values, network, content, delivered, leftover, filled, crashed>>

\* send() on the socket mSocket is by now: it fails when that one has ended.
Send ==
  /\ At(Main, "send")
  /\ IF conn[mSocket] = "open"
     THEN /\ requests' = [requests EXCEPT ![mSocket] =
                            Append(@, [sent |-> packet[Main], content |-> content])]
          /\ UNCHANGED mSendErrorCode
     ELSE mSendErrorCode' = TRUE /\ UNCHANGED requests
  /\ Goto(Main, "idle")
  /\ UNCHANGED <<mSocket, mbIsConnected, mRecvBuffer, mRear, locals, conn, pending, closes, history>>

Disconnect ==
  /\ At(Main, "idle") /\ calls < MaxCalls
  /\ mbIsConnected
  /\ calls' = calls + 1
  /\ Goto(Main, "disconnect")
  /\ UNCHANGED <<shared, locals, network, content, delivered, leftover, filled, crashed>>

ClearConnected ==
  /\ At(Main, "disconnect")
  /\ mbIsConnected' = FALSE
  /\ Goto(Main, "shutdown")
  /\ UNCHANGED <<mSocket, mSendErrorCode, mRecvBuffer, mRear, locals, network, history>>

\* shutdown(SD_BOTH): both sides see the end, the socket stays.
Shutdown ==
  /\ At(Main, "shutdown")
  /\ conn' = IF conn[mSocket] = "open" THEN [conn EXCEPT ![mSocket] = "down"] ELSE conn
  /\ Goto(Main, "idle")
  /\ UNCHANGED <<shared, locals, pending, requests, closes, history>>

----------------------------------------------------------------------------
(* recvThread *)

\* recv() is called, on the socket mSocket is now.
Recv(t) ==
  /\ At(t, "recv")
  /\ socket' = [socket EXCEPT ![t] = mSocket]
  /\ Goto(t, "wait")
  /\ UNCHANGED <<shared, packet, values, network, history>>

\* RingBuffer.h: what one recv may write, up to the end of the buffer or to mFront,
\* and GetFreeSize.
GetDirectEnqueueSize ==
  IF mRear > Len(mRecvBuffer) THEN BufferSize - mRear ELSE BufferSize - Len(mRecvBuffer)
RoomLeft == BufferSize - Len(mRecvBuffer) - 1

\* It brings n pieces and MoveRear counts them.  A full buffer looks empty: mRear = mFront.
RecvReturns(t, n) ==
  LET arrived == pending[socket[t]]
      bytes   == mRecvBuffer \o SubSeq(arrived, 1, n)
      IsFull  == Len(bytes) = BufferSize
  IN
  /\ At(t, "wait") /\ n \in DOMAIN arrived /\ n <= GetDirectEnqueueSize
  /\ mRecvBuffer' = IF IsFull THEN <<>> ELSE bytes
  /\ mRear' = (mRear + n) % BufferSize
  /\ filled' = (filled \/ IsFull)
  /\ pending' = [pending EXCEPT ![socket[t]] = SubSeq(arrived, n + 1, Len(arrived))]
  /\ Goto(t, "loop")
  /\ UNCHANGED <<mSocket, mbIsConnected, mSendErrorCode, locals, conn, requests, closes,
                 content, delivered, leftover, crashed, calls>>

\* It returns 0 or fails; what was on its way is lost.
RecvFails(t) ==
  /\ At(t, "wait") /\ conn[socket[t]] # "open"
  /\ socket' = [socket EXCEPT ![t] = mSocket]   \* socketBackup
  /\ leftover' = (leftover \/ mRecvBuffer # <<>>)
  /\ Goto(t, "lost")
  /\ UNCHANGED <<shared, packet, values, network, content, delivered, filled, crashed, calls>>

\* mbIsConnected = false, then OnDisconnect, which starts with Connect.
LoseConnection(t) ==
  /\ At(t, "lost")
  /\ mbIsConnected' = FALSE
  /\ Goto(t, "check")
  /\ UNCHANGED <<mSocket, mSendErrorCode, mRecvBuffer, mRear, locals, network, history>>

\* Mutant: the socket is looked up when it is closed.
SocketToCloseNow(t) == mSocket

\* socketBackup, since OnDisconnect may have made another mSocket.
SocketToClose(t) == socket[t]

\* Mutant: break is missing.
AfterCloseRecv == "recv"

\* The thread ends.
AfterClose == "ended"

CloseSocket(t) ==
  /\ At(t, "close")
  /\ conn' = [conn EXCEPT ![SocketToClose(t)] = "closed"]
  /\ closes' = [closes EXCEPT ![SocketToClose(t)] = @ + 1]
  /\ Goto(t, AfterClose)
  /\ UNCHANGED <<shared, locals, pending, requests, history>>

----------------------------------------------------------------------------
(* The packet loop of recvThread *)

\* The server's packet i.
Reply(i) == prepareSend(Insert(NewPacket, Replies[i].content), Replies[i].rand)

\* What Peek reads: the header of a packet, or, between packets, any bytes, which may
\* announce any size; BufferSize stands for those that never fit.
PeekHeader ==
  IF mRecvBuffer[1][3] = 1 /\ mRecvBuffer[2][3] = 2
  THEN { [code |-> TRUE, pieces |-> 3] }
  ELSE [code : BOOLEAN, pieces : 2 .. BufferSize]

HeaderIncomplete(t) ==
  /\ At(t, "loop") /\ Len(mRecvBuffer) < 2
  /\ Goto(t, "recv")
  /\ UNCHANGED <<shared, locals, network, history>>

\* The assertions on Code, on the room left and on decode end the process.
Crash(t) ==
  /\ crashed' = TRUE
  /\ UNCHANGED <<shared, pc, locals, network, content, delivered, leftover, filled, calls>>

CodeIsWrong(t, h) == ~h.code /\ Crash(t)

\* Mutant: the header is enough.
PayloadThereAtOnce(h) == TRUE

PayloadThere(h) == Len(mRecvBuffer) >= h.pieces

\* The rest must come, so there must be room for some of it.
PayloadIncomplete(t, h) ==
  /\ h.code /\ ~PayloadThere(h)
  /\ \/ /\ RoomLeft > 0
        /\ Goto(t, "recv")
        /\ UNCHANGED <<shared, locals, network, history>>
     \/ RoomLeft = 0 /\ Crash(t)

\* Pieces that are no packet of one connection have the right checksum by chance.
TakePacket(t, h) ==
  LET size == IF Len(mRecvBuffer) < h.pieces THEN Len(mRecvBuffer) ELSE h.pieces
      taken == SubSeq(mRecvBuffer, 1, size)
      i     == Head(taken)[2]
      Whole == taken = Pieces(Head(taken)[1], i)
  IN
  /\ h.code /\ PayloadThere(h)
  /\ \/ /\ IF Whole
           THEN /\ checkSumRight(Reply(i))
                /\ packet' = [packet EXCEPT ![t] = [decoded(Reply(i)) EXCEPT !.mbSendPrepared = FALSE]]
           ELSE packet' = [packet EXCEPT ![t] = NewPacket]
        /\ mRecvBuffer' = SubSeq(mRecvBuffer, size + 1, Len(mRecvBuffer))
        /\ Goto(t, "OnReceive")
        /\ UNCHANGED <<mSocket, mbIsConnected, mSendErrorCode, mRear, socket, values, network, history>>
     \/ (Whole => ~checkSumRight(Reply(i))) /\ Crash(t)

LoopStep(t) ==
  /\ At(t, "loop") /\ Len(mRecvBuffer) >= 2
  /\ \E h \in PeekHeader : CodeIsWrong(t, h) \/ PayloadIncomplete(t, h) \/ TakePacket(t, h)

\* The application reads byte after byte with GetByte, until there is none.
OnReceive(t) ==
  /\ At(t, "OnReceive")
  /\ IF CanGet(packet[t], 1)
     THEN /\ values' = [values EXCEPT ![t] = @ \o Got(packet[t], 1)]
          /\ packet' = [packet EXCEPT ![t] = AfterGet(@, 1)]
          /\ UNCHANGED <<pc, delivered>>
     ELSE /\ values' = [values EXCEPT ![t] = <<>>]
          /\ delivered' = [delivered EXCEPT ![t] = Append(@, values[t])]
          /\ Goto(t, "loop")
          /\ UNCHANGED packet
  /\ UNCHANGED <<shared, socket, network, content, leftover, filled, crashed, calls>>

----------------------------------------------------------------------------
(* The server *)

\* A connection ends: the peer closes or resets it.
ConnectionEnds(s) ==
  /\ conn[s] = "open"
  /\ conn' = [conn EXCEPT ![s] = "down"]
  /\ UNCHANGED <<shared, pc, locals, pending, requests, closes, history>>

----------------------------------------------------------------------------
ConnectStep(t) ==
  \/ CheckConnected(t) \/ CreateSocket(t) \/ TryConnect(t) \/ BeginThread(t) \/ SetConnected(t)

MainStep ==
  \/ (\E c \in Contents : NewRequest(c)) \/ (\E rand \in RandKeys : SendPacket(rand))
  \/ Send \/ Disconnect \/ ClearConnected \/ Shutdown

RecvStep(t) ==
  \/ Recv(t) \/ (\E n \in 1 .. 3 * Len(Replies) : RecvReturns(t, n)) \/ RecvFails(t)
  \/ LoseConnection(t) \/ CloseSocket(t)
  \/ HeaderIncomplete(t) \/ LoopStep(t) \/ OnReceive(t)

Next ==
  /\ ~crashed
  /\ \/ \E t \in Threads : ConnectStep(t)
     \/ MainStep
     \/ \E t \in RecvThreads : RecvStep(t)
     \/ \E s \in Sockets : ConnectionEnds(s)

Spec == Init /\ [][Next]_vars

----------------------------------------------------------------------------
\* The values the variables range over.
TypeOK ==
  /\ mSocket \in Sockets \cup {NoSocket}
  /\ mbIsConnected \in BOOLEAN /\ mSendErrorCode \in BOOLEAN
  /\ socket \in [Threads -> Sockets \cup {NoSocket}]
  /\ \A t \in Threads :
       /\ packet[t] \in Packet
       /\ packet[t].mDeserialingSize <= GetUseSize(packet[t])
  /\ Len(mRecvBuffer) < BufferSize /\ mRear \in 0 .. BufferSize - 1
  /\ conn \in [Sockets -> {"none", "made", "open", "down", "closed"}]
  /\ leftover \in BOOLEAN /\ filled \in BOOLEAN /\ crashed \in BOOLEAN /\ calls \in 0 .. MaxCalls

\* What the server decodes of each packet is what the application wrote into it,
\* also when a packet is sent again after a lost connection, or stands in memory
\* another packet was sent from (NetServer.cpp:140, NetClient.cpp:57).
WireDecodes ==
  \A s \in Sockets : \A i \in DOMAIN requests[s] :
    LET r == requests[s][i] IN
    checkSumRight(r.sent) /\ decoded(r.sent).payload = r.content

\* OnReceive is given the server's packets, whole and in order, reads from each what
\* the server wrote, and no assertion fails, however the connections were cut into
\* pieces (NetClient.cpp:111).  Two things end this, and nothing else does: a connection
\* that ends inside a packet, whose bytes stay in the buffer (NetClient.cpp:85), and a
\* recv that fills the buffer, whose bytes no longer count (RingBuffer.h:30).
ReceivesWhole ==
  ~leftover /\ ~filled =>
    /\ ~crashed
    /\ \A t \in RecvThreads : \A i \in DOMAIN delivered[t] : delivered[t][i] = Replies[i].content

\* The assertion of NetClient.cpp:107, "client invalid NETWORK_HEADER_CODE received",
\* and the others of recvThread hold of what any server's packets bring.
AssertionsHold == ~crashed

\* A receive thread closes the socket it has received from, once, also when
\* OnDisconnect has connected another one meanwhile (NetClient.cpp:85).
ClosesItsSocket ==
  /\ \A s \in Sockets : closes[s] <= 1
  /\ \A t \in RecvThreads : At(t, "wait") => conn[socket[t]] \in {"open", "down"}
  /\ \A t \in RecvThreads : At(t, "ended") => conn[socket[t]] = "closed"

\* mRecvBuffer, which has no lock, is used by one thread at a time although each
\* Connect starts another (NetClient.cpp:30).
OneReceiver ==
  Cardinality({ t \in RecvThreads : pc[t] \in {"recv", "wait", "loop", "OnReceive"} }) <= 1
=============================================================================
