----------------------------- MODULE Serializer -----------------------------
(***************************************************************************)
(* Serializer, the packet: a payload that is written with << and read with  *)
(* >>, the header put in front of it when it is sent, and the chain of      *)
(* exclusive-ors that hides checksum and payload.  A byte has ByteValues    *)
(* values; the payload is the first mSize bytes of mBuffer.                 *)
(*                                                                          *)
(* A packet comes from a pool, with whatever its last user left in it.      *)
(***************************************************************************)
EXTENDS Integers, Sequences

CONSTANTS
  ByteValues,   \* 256
  ExclusiveOr,  \* the operator ^ on bytes, as a table
  FixedKey,     \* NETWORK_HEADER_FIXED_KEY
  mCapacity     \* bytes of payload a packet has room for

Byte == 0 .. ByteValues - 1

ASSUME SerializerConstants ==
  ByteValues \in Nat \ {0} /\ FixedKey \in Byte /\ mCapacity \in Nat \ {0}

\* What the codec needs of ^: applied twice it gives back what was there.
ASSUME XorAssumption ==
  /\ ExclusiveOr \in [Byte \X Byte -> Byte]
  /\ \A x, y \in Byte : ExclusiveOr[<<ExclusiveOr[<<x, y>>], y>>] = x

Packet == [ RandKey : Byte, CheckSum : Byte, payload : UNION { [1 .. n -> Byte] : n \in 0 .. mCapacity },
            mDeserialingSize : 0 .. mCapacity, mbSendPrepared : BOOLEAN ]

\* What new makes.
NewPacket == [ RandKey |-> 0, CheckSum |-> 0, payload |-> <<>>,
               mDeserialingSize |-> 0, mbSendPrepared |-> FALSE ]

GetUseSize(p)  == Len(p.payload)
GetFreeSize(p) == mCapacity - GetUseSize(p)

\* Mutant: a packet that was sent before is taken for prepared.
ClearedKeepsPrepared(p) == [p EXCEPT !.payload = <<>>, !.mDeserialingSize = 0]

Clear(p) == [p EXCEPT !.mbSendPrepared = FALSE, !.payload = <<>>, !.mDeserialingSize = 0]

\* Alloc: the packet p was used before.
Alloc(p) == Clear(p)

\* InsertByte and the operators <<, for the bytes of one value.
CanInsert(p, bytes) == GetFreeSize(p) >= Len(bytes)
Insert(p, bytes)    == [p EXCEPT !.payload = @ \o bytes]

\* GetByte and the operators >>, for a value of n bytes.
CanGet(p, n) == p.mDeserialingSize + n <= GetUseSize(p)
Got(p, n)    == SubSeq(p.payload, p.mDeserialingSize + 1, p.mDeserialingSize + n)

\* Mutant: the position moves on by two values.
AfterGetTwice(p, n) == [p EXCEPT !.mDeserialingSize = @ + 2 * n]

AfterGet(p, n) == [p EXCEPT !.mDeserialingSize = @ + n]

----------------------------------------------------------------------------
(* The header and the codec.  Length, of 16 bits, holds every size up to    *)
(* mCapacity; arithmetic is in int and cut to a byte when it is stored.     *)

ToByte(n) == n % ByteValues

getCheckSum(p) ==
  LET sum[i \in 0 .. GetUseSize(p)] == IF i = 0 THEN 0 ELSE ToByte(sum[i - 1] + p.payload[i])
  IN  sum[GetUseSize(p)]

setHeaderValue(p, rand) ==
  LET keyed == [p EXCEPT !.RandKey = rand] IN [keyed EXCEPT !.CheckSum = getCheckSum(keyed)]

\* The bytes encode and decode change: checksum and payload, one behind the other.
Hidden(p)       == <<p.CheckSum>> \o p.payload
WithHidden(p, data) == [p EXCEPT !.CheckSum = Head(data), !.payload = Tail(data)]

\* One chain of encode: each byte is changed by the one made before it, the key and
\* its place.
Chain(data, key) ==
  LET made[i \in 0 .. Len(data)] ==
        IF i = 0 THEN 0 ELSE ExclusiveOr[<<data[i], ToByte(made[i - 1] + key + i)>>]
  IN  [i \in 1 .. Len(data) |-> made[i]]

\* One of decode, which has the byte that was made at hand.
Unchain(data, key) ==
  [i \in 1 .. Len(data) |->
     ExclusiveOr[<<data[i], ToByte((IF i = 1 THEN 0 ELSE data[i - 1]) + key + i)>>]]

\* One loop makes both chains: nextRandKey the first, prevEncodedValue the second.
encode(p) == WithHidden(p, Chain(Chain(Hidden(p), p.RandKey), FixedKey))

\* decode, which tells in addition whether the checksum is right.
decoded(p) == WithHidden(p, Unchain(Unchain(Hidden(p), FixedKey), p.RandKey))

checkSumRight(p) == decoded(p).CheckSum = getCheckSum(decoded(p))

prepareSend(p, rand) == [encode(setHeaderValue(p, rand)) EXCEPT !.mbSendPrepared = TRUE]

\* SendPacket prepares a packet once, however often it is sent.
Prepared(p, rand) == IF p.mbSendPrepared THEN p ELSE prepareSend(p, rand)
=============================================================================
