------------------------------ MODULE Receive ------------------------------
(***************************************************************************)
(* The receive path of one session: WSARecv into the ring buffer, and the   *)
(* packet loop of iocpWorkerThread, which cuts the byte stream into packets *)
(* and hands them to OnReceive.  One thread runs it at a time (OneReceiver  *)
(* of the Session module), so a step is one iteration of the loop.          *)
(*                                                                          *)
(* The peer sends packets, cut by TCP wherever it likes.  A packet is its   *)
(* header: whether Code is NETWORK_HEADER_CODE, the payload length it       *)
(* claims and has, and whether CheckSum is that of the payload.             *)
(***************************************************************************)
EXTENDS RingBuffer, Sequences

CONSTANTS
  Deployments,        \* what a peer sends, to a server of which maximum
  HeaderSize          \* sizeof(NetworkHeader)

Size(p) == HeaderSize + p.length

\* Bytes of the stream before each packet of ps, and, at the end, all of them.
Starts(ps) ==
  LET before[i \in 1 .. Len(ps) + 1] ==
        IF i = 1 THEN 0 ELSE before[i - 1] + Size(ps[i - 1])
  IN  before

ASSUME ReceiveConstants ==
  /\ HeaderSize \in Nat \ {0}
  /\ \A d \in Deployments :
       /\ d.mMaxPayloadLength \in Nat /\ d.lead \in Nat
       /\ d.packets \in Seq([code : BOOLEAN, length : Nat, checksum : BOOLEAN])
       /\ Starts(d.packets)[Len(d.packets) + 1] <= MaxBytes

VARIABLES
  packets,                                  \* what the peer sends, in order
  mMaxPayloadLength,                        \* given to Start
  lead,         \* most bytes the peer lets wait in the buffer; no limit from mCapacity on
  bDisconnectRegistered,                    \* set by Disconnect, any time
  pc,           \* "posted": a WSARecv waits; "loop": in the packet loop; "stopped"
  received      \* what OnReceive was given: the bytes of each packet

deployment == <<packets, mMaxPayloadLength, lead>>
receiveVars == <<deployment, ringVars, bDisconnectRegistered, pc, received>>

\* Bytes of the stream before packet i, and its own bytes.
Start(i) == Starts(packets)[i]
Total    == Start(Len(packets) + 1)
Bytes(i) == LET before == Start(i) IN [k \in 1 .. Size(packets[i]) |-> before + k]

\* Any bytes at all may stand where a header is expected: then the loop reads
\* an arbitrary one.
AnyHeader == [code : BOOLEAN, length : 0 .. mMaxPayloadLength + 1, checksum : BOOLEAN]

\* The header Peek finds at mFront.
PeekHeader ==
  LET Found == { i \in DOMAIN packets :
                   Copied(HeaderSize) = SubSeq(Bytes(i), 1, HeaderSize) }
  IN  IF Found = {} THEN AnyHeader ELSE { packets[i] : i \in Found }

Init ==
  /\ \E d \in Deployments :
       packets = d.packets /\ mMaxPayloadLength = d.mMaxPayloadLength /\ lead = d.lead
  /\ RingInit
  /\ bDisconnectRegistered = FALSE
  /\ pc = "posted"
  /\ received = <<>>

\* PostRecv does nothing on a session that is to be disconnected.
PostRecv == pc' = IF bDisconnectRegistered THEN "stopped" ELSE "posted"

\* A WSARecv of GetDirectEnqueueSize bytes completes with n of them.
RecvCompletes(n) ==
  /\ pc = "posted"
  /\ written + n <= Total /\ GetUseSize + n <= lead
  /\ DirectWrite(n)
  /\ pc' = IF bDisconnectRegistered THEN "stopped" ELSE "loop"
  /\ UNCHANGED <<deployment, bDisconnectRegistered, received>>

\* It completes with no bytes, or fails: the peer has gone.
PeerCloses ==
  /\ pc = "posted"
  /\ pc' = "stopped"
  /\ UNCHANGED <<deployment, ringVars, bDisconnectRegistered, received>>

InLoop == pc = "loop" /\ GetUseSize >= HeaderSize

HeaderIncomplete ==
  /\ pc = "loop" /\ GetUseSize < HeaderSize
  /\ PostRecv
  /\ UNCHANGED <<deployment, ringVars, bDisconnectRegistered, received>>

\* Mutant: any length will do.
HeaderRefusedByCode(h) == ~h.code

HeaderRefused(h) == ~h.code \/ h.length > mMaxPayloadLength

RefuseHeader(h) ==
  /\ InLoop /\ HeaderRefused(h)
  /\ pc' = "stopped"
  /\ UNCHANGED <<deployment, ringVars, bDisconnectRegistered, received>>

\* Mutant: it waits for more although there is no room for more.
BufferIsFullNever == FALSE

\* The packet will never fit.
BufferIsFull == GetFreeSize <= 0

PayloadIncomplete(h) ==
  /\ InLoop /\ ~HeaderRefused(h)
  /\ GetUseSize < Size(h)
  /\ IF BufferIsFull THEN pc' = "stopped" ELSE PostRecv
  /\ UNCHANGED <<deployment, ringVars, bDisconnectRegistered, received>>

\* decode: the checksum of bytes that are no packet may be right by chance.
DecodeOutcomes(h, bytes) ==
  IF \E i \in DOMAIN packets : bytes = Bytes(i) THEN {h.checksum} ELSE BOOLEAN

TakePacket(h) ==
  LET bytes == Copied(Size(h)) IN
  /\ InLoop /\ ~HeaderRefused(h)
  /\ GetUseSize >= Size(h)
  /\ Dequeue(Size(h))
  /\ \E decoded \in DecodeOutcomes(h, bytes) :
       IF decoded THEN received' = Append(received, bytes) /\ UNCHANGED pc
                  ELSE pc' = "stopped" /\ UNCHANGED received
  /\ UNCHANGED <<deployment, bDisconnectRegistered>>

\* A thread calls Disconnect on the session.
RegisterDisconnect ==
  /\ ~bDisconnectRegistered
  /\ bDisconnectRegistered' = TRUE
  /\ UNCHANGED <<deployment, ringVars, pc, received>>

LoopStep == \/ HeaderIncomplete
            \/ \E h \in PeekHeader : RefuseHeader(h) \/ PayloadIncomplete(h) \/ TakePacket(h)

Arrival == \E n \in 1 .. mCapacity : RecvCompletes(n)

\* The worker is done with the session, or waits for a peer that has no more to send.
Rest == /\ pc = "stopped" \/ (pc = "posted" /\ written = Total)
        /\ UNCHANGED receiveVars

Next == Arrival \/ PeerCloses \/ LoopStep \/ RegisterDisconnect \/ Rest

Spec == Init /\ [][Next]_receiveVars

\* A worker in the loop keeps running; what the peer has sent arrives.
FairSpec == Spec /\ WF_receiveVars(LoopStep) /\ WF_receiveVars(Arrival)

----------------------------------------------------------------------------
\* The values the variables range over.
TypeOK ==
  /\ RingTypeOK
  /\ bDisconnectRegistered \in BOOLEAN
  /\ pc \in {"posted", "loop", "stopped"}
  /\ received \in Seq(Seq(0 .. MaxBytes))

\* However TCP cuts the stream and wherever the buffer wraps, OnReceive gets the
\* peer's packets whole, in order and each once, and none after a bad one, as long
\* as no receive has filled the buffer (README.md:19, only assembled packets reach
\* the application).
PacketsWhole ==
  ~filled =>
    /\ Len(received) <= Len(packets)
    /\ \A i \in DOMAIN received :
         /\ received[i] = Bytes(i)
         /\ packets[i].code /\ packets[i].length <= mMaxPayloadLength /\ packets[i].checksum

\* While the peer keeps sending, each of its packets reaches OnReceive or the
\* receiving ends, or a receive fills the buffer: a packet too long for the buffer
\* does not leave the session waiting for room (NetServer.cpp:471).
EveryPacketHandled == <>(Len(received) = Len(packets) \/ pc = "stopped" \/ filled)
=============================================================================
