---------------------------- MODULE ClientProofs ----------------------------
(***************************************************************************)
(* Proofs about the client and the codec: what encode hides decode finds   *)
(* again, for every packet and every key; and for any number of            *)
(* connections, calls and packets of the server the client sends what the  *)
(* application wrote, receives what the server wrote, uses its receive     *)
(* buffer on one thread and closes each socket once.                       *)
(***************************************************************************)
EXTENDS NetClient, ProofLemmas

----------------------------------------------------------------------------
(* The codec *)

LEMMA ByteFacts ==
  /\ 0 \in Byte /\ FixedKey \in Byte /\ Byte \subseteq Nat
  /\ \A n \in Nat : ToByte(n) \in Byte
  /\ \A x, y \in Byte : ExclusiveOr[<<x, y>>] \in Byte /\ ExclusiveOr[<<ExclusiveOr[<<x, y>>], y>>] = x
<1>1. ByteValues \in Nat \ {0} /\ FixedKey \in Byte
  BY SerializerConstants
<1>2. \A n \in Nat, m \in Nat \ {0} : n % m \in 0 .. m - 1
  OBVIOUS
<1>3. \A x, y \in Byte : ExclusiveOr[<<x, y>>] \in Byte
  BY XorAssumption
<1>4. 0 \in Byte /\ Byte \subseteq Nat
  BY <1>1 DEF Byte
<1>5. \A n \in Nat : ToByte(n) \in Byte
  BY <1>1, <1>2 DEF Byte, ToByte
<1> QED BY <1>1, <1>3, <1>4, <1>5, XorAssumption

\* What one step of a chain does to the byte made before.
LEMMA StepType ==
  ASSUME NEW data \in Seq(Byte), NEW key \in Byte, NEW i \in 1 .. Len(data), NEW x \in Byte
  PROVE  /\ ToByte(x + key + i) \in Byte
         /\ ExclusiveOr[<<data[i], ToByte(x + key + i)>>] \in Byte
<1>1. x + key + i \in Nat
  BY ByteFacts
<1>2. data[i] \in Byte
  OBVIOUS
<1> QED BY <1>1, <1>2, ByteFacts

\* Chain computes what its recursion says: each byte from the one made before it.
LEMMA ChainIs ==
  ASSUME NEW data \in Seq(Byte), NEW key \in Byte
  PROVE  /\ Chain(data, key) \in Seq(Byte) /\ Len(Chain(data, key)) = Len(data)
         /\ \A i \in 1 .. Len(data) :
              Chain(data, key)[i]
                = ExclusiveOr[<<data[i],
                    ToByte((IF i = 1 THEN 0 ELSE Chain(data, key)[i - 1]) + key + i)>>]
<1> DEFINE n == Len(data)
           F(g) == [i \in 0 .. n |-> IF i = 0 THEN 0
                                     ELSE ExclusiveOr[<<data[i], ToByte(g[i - 1] + key + i)>>]]
           c == CHOOSE g : g = F(g)
           step == [x \in Byte \X (1 .. n) |->
                      ExclusiveOr[<<data[x[2]], ToByte(x[1] + key + x[2])>>]]
<1>1. n \in Nat
  OBVIOUS
<1>2. step \in [Byte \X (1 .. n) -> Byte]
  BY StepType
<1>3. \A x \in Byte, i \in 1 .. n :
        step[<<x, i>>] = ExclusiveOr[<<data[i], ToByte(x + key + i)>>]
  OBVIOUS
<1>4. PICK f : Recursion(f, Byte, n, 0, step)
  <2>1. 0 \in Byte
    BY ByteFacts
  <2> HIDE DEF n, step, F, c
  <2> QED BY <1>1, <1>2, <2>1, RecursionExists
<1>5. f \in [0 .. n -> Byte] /\ f[0] = 0 /\ \A i \in 1 .. n : f[i] = step[<<f[i - 1], i>>]
  BY <1>4 DEF Recursion
<1> HIDE DEF step, n
<1>6. \A i \in 1 .. n : i - 1 \in 0 .. n /\ i \in 0 .. n /\ ~(i <= i - 1)
  BY <1>1
<1>7. \A i \in 1 .. n : f[i] = ExclusiveOr[<<data[i], ToByte(f[i - 1] + key + i)>>]
  BY <1>3, <1>5, <1>6
<1>8. f = F(f)
  <2>1. f = [i \in 0 .. n |-> f[i]]
    BY <1>5
  <2>2. \A i \in 0 .. n : f[i] = IF i = 0 THEN 0
                                 ELSE ExclusiveOr[<<data[i], ToByte(f[i - 1] + key + i)>>]
    BY <1>1, <1>5, <1>7
  <2> QED BY <2>1, <2>2
<1> HIDE DEF F
<1>9. c = F(c)
  BY <1>8
<1> HIDE DEF c
<1>10. c[0] = 0 /\ \A i \in 1 .. n : c[i] = ExclusiveOr[<<data[i], ToByte(c[i - 1] + key + i)>>]
  <2>1. \A i \in 0 .. n : c[i] = IF i = 0 THEN 0
                                 ELSE ExclusiveOr[<<data[i], ToByte(c[i - 1] + key + i)>>]
    BY <1>9 DEF F
  <2>2. 0 \in 0 .. n /\ \A i \in 1 .. n : i # 0
    BY <1>1
  <2> QED BY <1>6, <2>1, <2>2
<1> DEFINE T == { i \in 0 .. n : c[i] # f[i] }
<1>11. T = {}
  <2> SUFFICES ASSUME T # {} PROVE FALSE
    OBVIOUS
  <2>1. PICK i \in T : \A y \in T : i <= y
    <3>1. T \subseteq Nat
      BY <1>1
    <3> HIDE DEF T
    <3> QED BY <3>1, LeastNumber
  <2>2. i \in 1 .. n
    BY <1>1, <1>5, <1>10, <2>1
  <2>3. c[i - 1] = f[i - 1]
    BY <1>6, <2>1, <2>2
  <2>4. c[i] = f[i]
    BY <1>7, <1>10, <2>2, <2>3
  <2> QED BY <2>1, <2>4
<1>12. \A i \in 0 .. n : c[i] = f[i] /\ c[i] \in Byte
  BY <1>5, <1>11
<1> DEFINE made == [i \in 1 .. n |-> c[i]]
<1>13. Chain(data, key) = made
  BY DEF Chain, c, F, n
<1>14. made \in Seq(Byte) /\ Len(made) = n
  <2>1. made \in [1 .. n -> Byte]
    BY <1>6, <1>12
  <2> HIDE DEF made
  <2> QED BY <1>1, <2>1, FunctionIsSeq
<1>15. ASSUME NEW i \in 1 .. n
       PROVE  made[i] = ExclusiveOr[<<data[i],
                          ToByte((IF i = 1 THEN 0 ELSE made[i - 1]) + key + i)>>]
  <2>1. made[i] = ExclusiveOr[<<data[i], ToByte(c[i - 1] + key + i)>>]
    BY <1>10
  <2>2. c[i - 1] = IF i = 1 THEN 0 ELSE made[i - 1]
    <3>1. CASE i = 1
      BY <1>10, <3>1
    <3>2. CASE i # 1
      <4>1. i - 1 \in 1 .. n
        BY <1>1, <3>2
      <4> QED BY <3>2, <4>1
    <3> QED BY <3>1, <3>2
  <2> QED BY <2>1, <2>2
<1> HIDE DEF made
<1> QED BY <1>13, <1>14, <1>15 DEF n

\* Decoding undoes encoding, one chain at a time.
LEMMA UnchainChain ==
  ASSUME NEW data \in Seq(Byte), NEW key \in Byte
  PROVE  Unchain(Chain(data, key), key) = data
<1> DEFINE c == Chain(data, key)
           before(i) == IF i = 1 THEN 0 ELSE c[i - 1]
<1>1. c \in Seq(Byte) /\ Len(c) = Len(data) /\ Len(data) \in Nat
      /\ \A i \in 1 .. Len(data) : c[i] = ExclusiveOr[<<data[i], ToByte(before(i) + key + i)>>]
  BY ChainIs
<1> HIDE DEF c
<1>2. ASSUME NEW i \in 1 .. Len(data)
      PROVE  ExclusiveOr[<<c[i], ToByte(before(i) + key + i)>>] = data[i]
  <2>1. before(i) \in Byte
    <3>1. CASE i = 1
      BY <3>1, ByteFacts
    <3>2. CASE i # 1
      <4>1. i - 1 \in 1 .. Len(c)
        BY <1>1, <3>2
      <4> QED BY <1>1, <3>2, <4>1
    <3> QED BY <3>1, <3>2
  <2> HIDE DEF before
  <2>2. ToByte(before(i) + key + i) \in Byte /\ data[i] \in Byte
    <3>1. data[i] \in Byte
      OBVIOUS
    <3> QED BY <2>1, <3>1, StepType
  <2>3. c[i] = ExclusiveOr[<<data[i], ToByte(before(i) + key + i)>>]
    BY <1>1
  <2> QED BY <2>2, <2>3, ByteFacts
<1>3. Unchain(c, key) = [i \in 1 .. Len(data) |-> data[i]]
  BY <1>1, <1>2 DEF Unchain
<1>4. data = [i \in 1 .. Len(data) |-> data[i]]
  BY SeqIsFunction
<1> QED BY <1>3, <1>4 DEF c

\* A payload is a sequence of bytes there is room for.
LEMMA PayloadIsSeq ==
  ASSUME NEW x
  PROVE  x \in UNION { [1 .. n -> Byte] : n \in 0 .. mCapacity }
           <=> x \in Seq(Byte) /\ Len(x) <= mCapacity
<1>1. mCapacity \in Nat
  BY SerializerConstants
<1>2. ASSUME x \in UNION { [1 .. n -> Byte] : n \in 0 .. mCapacity }
      PROVE  x \in Seq(Byte) /\ Len(x) <= mCapacity
  <2>1. PICK n \in 0 .. mCapacity : x \in [1 .. n -> Byte]
    BY <1>2
  <2>2. n \in Nat /\ n <= mCapacity
    BY <1>1
  <2>3. x \in Seq(Byte) /\ Len(x) = n
    BY <2>1, <2>2, FunctionIsSeq
  <2> QED BY <2>2, <2>3
<1>3. ASSUME x \in Seq(Byte), Len(x) <= mCapacity
      PROVE  x \in UNION { [1 .. n -> Byte] : n \in 0 .. mCapacity }
  <2>1. x \in [1 .. Len(x) -> Byte] /\ Len(x) \in 0 .. mCapacity
    BY <1>1, <1>3
  <2> QED BY <2>1
<1> QED BY <1>2, <1>3

\* The fields of a packet, and a packet made of fields.
LEMMA PacketFields ==
  ASSUME NEW p \in Packet
  PROVE  /\ p.RandKey \in Byte /\ p.CheckSum \in Byte
         /\ p.payload \in Seq(Byte) /\ Len(p.payload) <= mCapacity
         /\ p.mDeserialingSize \in 0 .. mCapacity /\ p.mbSendPrepared \in BOOLEAN
         /\ p = [ RandKey |-> p.RandKey, CheckSum |-> p.CheckSum, payload |-> p.payload,
                  mDeserialingSize |-> p.mDeserialingSize, mbSendPrepared |-> p.mbSendPrepared ]
<1>1. p.payload \in UNION { [1 .. n -> Byte] : n \in 0 .. mCapacity }
  BY DEF Packet
<1>2. p.payload \in Seq(Byte) /\ Len(p.payload) <= mCapacity
  BY <1>1, PayloadIsSeq
<1> QED BY <1>2 DEF Packet

LEMMA PacketMade ==
  ASSUME NEW k \in Byte, NEW c \in Byte, NEW d \in Seq(Byte), Len(d) <= mCapacity,
         NEW n \in 0 .. mCapacity, NEW b \in BOOLEAN
  PROVE  [ RandKey |-> k, CheckSum |-> c, payload |-> d,
           mDeserialingSize |-> n, mbSendPrepared |-> b ] \in Packet
<1>1. d \in UNION { [1 .. m -> Byte] : m \in 0 .. mCapacity }
  BY PayloadIsSeq
<1> QED BY <1>1 DEF Packet

\* The checksum of a payload.
SumOf(data) ==
  LET sum[i \in 0 .. Len(data)] == IF i = 0 THEN 0 ELSE ToByte(sum[i - 1] + data[i])
  IN  sum[Len(data)]

LEMMA CheckSumIsSum ==
  ASSUME NEW p
  PROVE  getCheckSum(p) = SumOf(p.payload)
BY DEF getCheckSum, SumOf, GetUseSize

LEMMA SumType ==
  ASSUME NEW data \in Seq(Byte)
  PROVE  SumOf(data) \in Byte
<1> DEFINE n == Len(data)
           F(g) == [i \in 0 .. n |-> IF i = 0 THEN 0 ELSE ToByte(g[i - 1] + data[i])]
           c == CHOOSE g : g = F(g)
           step == [x \in Byte \X (1 .. n) |-> ToByte(x[1] + data[x[2]])]
<1>1. n \in Nat
  OBVIOUS
<1>2. \A x \in Byte, i \in 1 .. n : ToByte(x + data[i]) \in Byte
  <2> TAKE x \in Byte, i \in 1 .. n
  <2>1. data[i] \in Byte
    OBVIOUS
  <2>2. x \in Nat /\ data[i] \in Nat
    BY <2>1, ByteFacts
  <2>3. x + data[i] \in Nat
    BY <2>2
  <2> QED BY <2>3, ByteFacts
<1>3. step \in [Byte \X (1 .. n) -> Byte]
  BY <1>2
<1>4. \A x \in Byte, i \in 1 .. n : step[<<x, i>>] = ToByte(x + data[i])
  OBVIOUS
<1>5. PICK f : Recursion(f, Byte, n, 0, step)
  <2>1. 0 \in Byte
    BY ByteFacts
  <2> HIDE DEF n, step, F, c
  <2> QED BY <1>1, <1>3, <2>1, RecursionExists
<1>6. f \in [0 .. n -> Byte] /\ f[0] = 0 /\ \A i \in 1 .. n : f[i] = step[<<f[i - 1], i>>]
  BY <1>5 DEF Recursion
<1> HIDE DEF step, n
<1>7. \A i \in 1 .. n : i - 1 \in 0 .. n /\ i \in 0 .. n /\ ~(i <= i - 1)
  BY <1>1
<1>8. \A i \in 1 .. n : f[i] = ToByte(f[i - 1] + data[i])
  BY <1>4, <1>6, <1>7
<1>9. f = F(f)
  <2>1. f = [i \in 0 .. n |-> f[i]]
    BY <1>6
  <2>2. \A i \in 0 .. n : f[i] = IF i = 0 THEN 0 ELSE ToByte(f[i - 1] + data[i])
    BY <1>1, <1>6, <1>8
  <2> QED BY <2>1, <2>2
<1> HIDE DEF F
<1>10. c = F(c)
  BY <1>9
<1> HIDE DEF c
<1>11. \A i \in 0 .. n : c[i] = IF i = 0 THEN 0 ELSE ToByte(c[i - 1] + data[i])
  BY <1>10 DEF F
<1> DEFINE T == { i \in 0 .. n : c[i] \notin Byte }
<1>12. T = {}
  <2> SUFFICES ASSUME T # {} PROVE FALSE
    OBVIOUS
  <2>1. PICK i \in T : \A y \in T : i <= y
    <3>1. T \subseteq Nat
      BY <1>1
    <3> HIDE DEF T
    <3> QED BY <3>1, LeastNumber
  <2>2. i \in 1 .. n /\ i # 0
    <3>1. c[0] = 0 /\ 0 \in Byte
      BY <1>1, <1>11, ByteFacts
    <3> QED BY <1>1, <2>1, <3>1
  <2>3. c[i - 1] \in Byte
    BY <1>7, <2>1, <2>2
  <2>4. c[i] = ToByte(c[i - 1] + data[i])
    BY <1>11, <2>1, <2>2
  <2> QED BY <1>2, <2>1, <2>2, <2>3, <2>4
<1>13. SumOf(data) = c[n]
  BY DEF SumOf, c, F, n
<1>14. n \in 0 .. n
  BY <1>1
<1> QED BY <1>12, <1>13, <1>14

\* The bytes encode changes, and those it leaves behind.
LEMMA HiddenIs ==
  ASSUME NEW p, p.CheckSum \in Byte, p.payload \in Seq(Byte)
  PROVE  /\ Hidden(p) \in Seq(Byte) /\ Len(Hidden(p)) = Len(p.payload) + 1
         /\ Head(Hidden(p)) = p.CheckSum /\ Tail(Hidden(p)) = p.payload
BY PrependedParts DEF Hidden

LEMMA HiddenAgain ==
  ASSUME NEW data \in Seq(Byte), data # <<>>
  PROVE  /\ Head(data) \in Byte /\ Tail(data) \in Seq(Byte) /\ Len(Tail(data)) = Len(data) - 1
         /\ <<Head(data)>> \o Tail(data) = data
OBVIOUS

\* The chains of a sequence of bytes, and back.
LEMMA TwoChains ==
  ASSUME NEW data \in Seq(Byte), NEW key \in Byte
  PROVE  LET made == Chain(Chain(data, key), FixedKey)
         IN  /\ made \in Seq(Byte) /\ Len(made) = Len(data)
             /\ Unchain(Unchain(made, FixedKey), key) = data
<1>1. Chain(data, key) \in Seq(Byte) /\ Len(Chain(data, key)) = Len(data)
  BY ChainIs
<1>2. FixedKey \in Byte
  BY ByteFacts
<1> DEFINE first == Chain(data, key)
<1>3. Unchain(first, key) = data
  BY UnchainChain
<1> HIDE DEF first
<1>4. first \in Seq(Byte) /\ Len(first) = Len(data)
  BY <1>1 DEF first
<1>5. Chain(first, FixedKey) \in Seq(Byte) /\ Len(Chain(first, FixedKey)) = Len(first)
  BY <1>2, <1>4, ChainIs
<1>6. Unchain(Chain(first, FixedKey), FixedKey) = first
  BY <1>2, <1>4, UnchainChain
<1> QED BY <1>3, <1>4, <1>5, <1>6 DEF first

\* What encode leaves in a packet: bytes that decode turns into those there were.
LEMMA EncodedPacket ==
  ASSUME NEW p \in Packet
  PROVE  /\ encode(p) \in Packet /\ Len(encode(p).payload) = Len(p.payload)
         /\ encode(p).mDeserialingSize = p.mDeserialingSize
         /\ encode(p).RandKey = p.RandKey /\ encode(p).mbSendPrepared = p.mbSendPrepared
         /\ Unchain(Unchain(Hidden(encode(p)), FixedKey), p.RandKey) = Hidden(p)
<1> DEFINE made == Chain(Chain(Hidden(p), p.RandKey), FixedKey)
<1>1. /\ p.RandKey \in Byte /\ p.CheckSum \in Byte
      /\ p.payload \in Seq(Byte) /\ Len(p.payload) <= mCapacity
      /\ p.mDeserialingSize \in 0 .. mCapacity /\ p.mbSendPrepared \in BOOLEAN
  BY PacketFields
<1>2. Hidden(p) \in Seq(Byte) /\ Len(Hidden(p)) = Len(p.payload) + 1
  BY <1>1, HiddenIs
<1>3. made \in Seq(Byte) /\ Len(made) = Len(p.payload) + 1
      /\ Unchain(Unchain(made, FixedKey), p.RandKey) = Hidden(p)
  BY <1>1, <1>2, TwoChains
<1>4. encode(p) = WithHidden(p, made)
  BY DEF encode
<1> HIDE DEF made
<1>5. Len(p.payload) \in Nat
  BY <1>1
<1>6. made # <<>>
  BY <1>3, <1>5
<1>7. /\ Head(made) \in Byte /\ Tail(made) \in Seq(Byte) /\ Len(Tail(made)) = Len(p.payload)
      /\ <<Head(made)>> \o Tail(made) = made
  BY <1>3, <1>5, <1>6, HiddenAgain
<1> DEFINE e == [ RandKey |-> p.RandKey, CheckSum |-> Head(made), payload |-> Tail(made),
                  mDeserialingSize |-> p.mDeserialingSize, mbSendPrepared |-> p.mbSendPrepared ]
<1>8. encode(p) = e
  BY <1>4, PacketFields DEF WithHidden
<1>9. e \in Packet
  BY <1>1, <1>7, PacketMade
<1>10. Hidden(e) = made
  <2>1. e.CheckSum = Head(made) /\ e.payload = Tail(made)
    OBVIOUS
  <2> HIDE DEF e
  <2> QED BY <1>7, <2>1 DEF Hidden
<1>11. /\ e.RandKey = p.RandKey /\ e.mbSendPrepared = p.mbSendPrepared
       /\ e.mDeserialingSize = p.mDeserialingSize /\ Len(e.payload) = Len(p.payload)
  BY <1>7
<1> HIDE DEF e
<1> QED BY <1>3, <1>8, <1>9, <1>10, <1>11

\* The two loops of encode and of decode: decode gives back the packet encode was
\* called for, whatever its key, its payload and the fixed key (Serializer.h:404).
THEOREM DecodeUndoesEncode ==
  ASSUME NEW p \in Packet
  PROVE  decoded(encode(p)) = p
<1> DEFINE e == encode(p)
<1>1. /\ e \in Packet /\ e.RandKey = p.RandKey /\ e.mbSendPrepared = p.mbSendPrepared
      /\ e.mDeserialingSize = p.mDeserialingSize
      /\ Unchain(Unchain(Hidden(e), FixedKey), p.RandKey) = Hidden(p)
  BY EncodedPacket
<1> HIDE DEF e
<1>2. decoded(e) = WithHidden(e, Hidden(p))
  BY <1>1 DEF decoded
<1>3. Head(Hidden(p)) = p.CheckSum /\ Tail(Hidden(p)) = p.payload
  BY PacketFields, HiddenIs
<1>4. decoded(e) = [e EXCEPT !.CheckSum = p.CheckSum, !.payload = p.payload]
  BY <1>2, <1>3 DEF WithHidden
<1>5. decoded(e) = [ RandKey |-> p.RandKey, CheckSum |-> p.CheckSum, payload |-> p.payload,
                     mDeserialingSize |-> p.mDeserialingSize,
                     mbSendPrepared |-> p.mbSendPrepared ]
  BY <1>1, <1>4, PacketFields
<1> QED BY <1>5, PacketFields DEF e

\* A packet that was prepared with any key.
LEMMA PreparedPacket ==
  ASSUME NEW p \in Packet, NEW rand \in Byte
  PROVE  LET q == prepareSend(p, rand)
         IN  /\ q \in Packet /\ q.mbSendPrepared /\ q.mDeserialingSize = p.mDeserialingSize
             /\ Len(q.payload) = Len(p.payload)
             /\ decoded(q) \in Packet /\ decoded(q).mDeserialingSize = p.mDeserialingSize
             /\ decoded(q).payload = p.payload /\ checkSumRight(q)
<1> DEFINE k == setHeaderValue(p, rand)
           e == encode(k)
           q == [e EXCEPT !.mbSendPrepared = TRUE]
           sum == SumOf(p.payload)
<1>1. /\ p.payload \in Seq(Byte) /\ Len(p.payload) <= mCapacity
      /\ p.mDeserialingSize \in 0 .. mCapacity /\ p.mbSendPrepared \in BOOLEAN
  BY PacketFields
<1>2. sum \in Byte
  BY <1>1, SumType
<1> HIDE DEF sum
<1>3. k = [ RandKey |-> rand, CheckSum |-> sum, payload |-> p.payload,
            mDeserialingSize |-> p.mDeserialingSize, mbSendPrepared |-> p.mbSendPrepared ]
  <2> DEFINE keyed == [p EXCEPT !.RandKey = rand]
  <2>1. keyed.payload = p.payload
    BY PacketFields
  <2>2. getCheckSum(keyed) = sum
    BY <2>1, CheckSumIsSum DEF sum
  <2>3. k = [keyed EXCEPT !.CheckSum = sum]
    BY <2>2 DEF setHeaderValue
  <2> QED BY <2>3, PacketFields
<1> HIDE DEF k
<1>4. k \in Packet
  BY <1>1, <1>2, <1>3, PacketMade
<1>5. /\ k.RandKey = rand /\ k.CheckSum = sum /\ k.payload = p.payload
      /\ k.mDeserialingSize = p.mDeserialingSize
  BY <1>3
<1>6. /\ e \in Packet /\ Len(e.payload) = Len(p.payload)
      /\ e.mDeserialingSize = p.mDeserialingSize /\ e.RandKey = rand
      /\ Unchain(Unchain(Hidden(e), FixedKey), rand) = Hidden(k)
  BY <1>4, <1>5, EncodedPacket
<1> HIDE DEF e
<1>7. /\ q = [ RandKey |-> rand, CheckSum |-> e.CheckSum, payload |-> e.payload,
               mDeserialingSize |-> p.mDeserialingSize, mbSendPrepared |-> TRUE ]
      /\ e.CheckSum \in Byte /\ e.payload \in Seq(Byte) /\ Len(e.payload) <= mCapacity
  <2>1. e \in Packet /\ e.RandKey = rand /\ e.mDeserialingSize = p.mDeserialingSize
    BY <1>6
  <2>2. /\ e.CheckSum \in Byte /\ e.payload \in Seq(Byte) /\ Len(e.payload) <= mCapacity
        /\ e = [ RandKey |-> e.RandKey, CheckSum |-> e.CheckSum, payload |-> e.payload,
                 mDeserialingSize |-> e.mDeserialingSize, mbSendPrepared |-> e.mbSendPrepared ]
    BY <2>1, PacketFields
  <2>3. e = [ RandKey |-> rand, CheckSum |-> e.CheckSum, payload |-> e.payload,
              mDeserialingSize |-> p.mDeserialingSize, mbSendPrepared |-> e.mbSendPrepared ]
    BY <2>1, <2>2
  <2>4. \A v : [e EXCEPT !.mbSendPrepared = v]
                 = [ RandKey |-> rand, CheckSum |-> e.CheckSum, payload |-> e.payload,
                     mDeserialingSize |-> p.mDeserialingSize, mbSendPrepared |-> v ]
    <3> TAKE v
    <3> QED BY <2>3
  <2> QED BY <2>2, <2>4
<1> HIDE DEF q
<1>8. q \in Packet
  BY <1>1, <1>7, PacketMade
<1>9. /\ q.RandKey = rand /\ q.CheckSum = e.CheckSum /\ q.payload = e.payload
      /\ q.mDeserialingSize = p.mDeserialingSize /\ q.mbSendPrepared
  BY <1>7
<1>10. Hidden(q) = Hidden(e)
  BY <1>9 DEF Hidden
<1>11. decoded(q) = WithHidden(q, Hidden(k))
  BY <1>6, <1>9, <1>10 DEF decoded
<1>12. Head(Hidden(k)) = sum /\ Tail(Hidden(k)) = p.payload
  BY <1>1, <1>2, <1>5, HiddenIs
<1>13. decoded(q) = [q EXCEPT !.CheckSum = sum, !.payload = p.payload]
  BY <1>11, <1>12 DEF WithHidden
<1>14. decoded(q) = [ RandKey |-> rand, CheckSum |-> sum, payload |-> p.payload,
                      mDeserialingSize |-> p.mDeserialingSize, mbSendPrepared |-> TRUE ]
  BY <1>7, <1>13
<1>15. decoded(q) \in Packet
  BY <1>1, <1>2, <1>14, PacketMade
<1>16. /\ decoded(q).payload = p.payload /\ decoded(q).CheckSum = sum
       /\ decoded(q).mDeserialingSize = p.mDeserialingSize
  BY <1>14
<1>17. checkSumRight(q)
  BY <1>16, CheckSumIsSum DEF checkSumRight, sum
<1>18. q = prepareSend(p, rand)
  BY DEF prepareSend, q, e, k
<1>19. Len(q.payload) = Len(p.payload)
  BY <1>6, <1>9
<1> QED BY <1>8, <1>9, <1>15, <1>16, <1>17, <1>18, <1>19

----------------------------------------------------------------------------
(* The inductive invariant of the client, in four parts that are shown one   *)
(* after the other: threads and sockets, the types of the data, the packets  *)
(* that are sent, and the packets that are received.                         *)

MainLabels == { "check", "socket", "connect", "begin", "connected",
                "idle", "send", "disconnect", "shutdown" }

RecvLabels == { "none", "check", "socket", "connect", "begin", "connected", "recv",
                "wait", "loop", "OnReceive", "lost", "close", "ended" }

\* Where a thread connects or receives, uses the connection on mSocket, has received its
\* last and has not closed its socket.
Active == { "check", "socket", "connect", "begin", "recv", "wait", "loop", "OnReceive", "lost" }
Using  == { "begin", "recv", "wait", "loop", "OnReceive" }
Past   == { "lost", "check", "socket", "connect", "begin", "connected", "close" }

ControlTypes ==
  /\ mSocket \in Sockets \cup {NoSocket} /\ mbIsConnected \in BOOLEAN
  /\ pc \in [Threads -> MainLabels \cup RecvLabels] /\ pc[Main] \in MainLabels
  /\ \A t \in RecvThreads : pc[t] \in RecvLabels
  /\ socket \in [Threads -> Sockets \cup {NoSocket}]
  /\ conn \in [Sockets -> {"none", "made", "open", "down", "closed"}]
  /\ closes \in [Sockets -> Nat]

\* Before the first socket nothing is connected.
SocketKnown ==
  mSocket = NoSocket =>
    ~mbIsConnected /\ \A t \in Threads : pc[t] \in {"check", "socket", "none"}

Alone == \A t, u \in Threads : pc[t] \in Active /\ pc[u] \in Active => t = u

SocketUsed ==
  \A t \in Threads :
    /\ pc[t] = "connect" => conn[mSocket] = "made"
    /\ pc[t] \in Using => conn[mSocket] \in {"open", "down"}
    /\ pc[t] = "wait" => socket[t] = mSocket

\* The socket a thread has received from is down until this thread closes it, and its alone.
SocketsPast ==
  /\ \A t \in RecvThreads : pc[t] \in Past =>
       socket[t] \in Sockets /\ conn[socket[t]] = "down"
  /\ \A t \in RecvThreads : pc[t] = "ended" =>
       socket[t] \in Sockets /\ conn[socket[t]] = "closed"
  /\ \A t \in RecvThreads, u \in Threads :
       pc[t] \in Past \cup {"ended"} /\ pc[u] \in Using => socket[t] # mSocket
  /\ \A t, u \in RecvThreads :
       pc[t] \in Past \cup {"ended"} /\ pc[u] \in Past \cup {"ended"} /\ socket[t] = socket[u]
         => t = u

ClosesCounted == \A s \in Sockets : closes[s] = IF conn[s] = "closed" THEN 1 ELSE 0

ControlInv ==
  ControlTypes /\ SocketKnown /\ Alone /\ SocketUsed /\ SocketsPast /\ ClosesCounted

Piece == Sockets \X (1 .. Len(Replies)) \X (1 .. 3)

BufferTypes == Len(mRecvBuffer) < BufferSize /\ mRear \in 0 .. BufferSize - 1

DataTypes ==
  /\ mSendErrorCode \in BOOLEAN /\ leftover \in BOOLEAN /\ filled \in BOOLEAN
  /\ crashed \in BOOLEAN /\ calls \in 0 .. MaxCalls /\ BufferTypes
  /\ mRecvBuffer \in Seq(Piece) /\ pending \in [Sockets -> Seq(Piece)]
  /\ packet \in [Threads -> Packet]
  /\ \A t \in Threads : packet[t].mDeserialingSize <= Len(packet[t].payload)
  /\ values \in [RecvThreads -> Seq(Byte)] /\ delivered \in [RecvThreads -> Seq(Seq(Byte))]
  /\ content \in Seq(Byte)
  /\ requests \in [Sockets -> Seq([sent : Packet, content : Seq(Byte)])]

\* The main thread's packet stands for content: as it is until it is prepared, decoded after.
WireInv ==
  /\ WireDecodes
  /\ packet[Main].mbSendPrepared =>
       checkSumRight(packet[Main]) /\ decoded(packet[Main]).payload = content
  /\ ~packet[Main].mbSendPrepared => packet[Main].payload = content
  /\ pc[Main] = "send" => packet[Main].mbSendPrepared

\* The piece at place j of a connection, and how many t has taken from the buffer.
PieceAt(s, j) == <<s, (j + 2) \div 3, ((j + 2) % 3) + 1>>
Taken(t) == 3 * Len(delivered[t]) + (IF pc[t] = "OnReceive" THEN 3 ELSE 0)

\* The buffer and then what is on its way are the pieces t has not taken, in order.
InOrder(t) ==
  /\ Taken(t) + Len(mRecvBuffer) + Len(pending[mSocket]) = 3 * Len(Replies)
  /\ \A j \in 1 .. Len(mRecvBuffer) : mRecvBuffer[j] = PieceAt(mSocket, Taken(t) + j)
  /\ \A j \in 1 .. Len(pending[mSocket]) :
       pending[mSocket][j] = PieceAt(mSocket, Taken(t) + Len(mRecvBuffer) + j)

\* OnReceive has read the first mDeserialingSize bytes of the packet that is next.
Reading(t) ==
  LET p == packet[t] IN
  /\ Len(delivered[t]) < Len(Replies)
  /\ p.payload = Replies[Len(delivered[t]) + 1].content
  /\ Len(values[t]) = p.mDeserialingSize
  /\ \A j \in 1 .. Len(values[t]) : values[t][j] = p.payload[j]

\* What holds of a thread as long as no connection ended inside a packet.
Stream(t) ==
  /\ pc[t] \in {"recv", "wait", "loop", "OnReceive"} => InOrder(t)
  /\ pc[t] = "OnReceive" => Reading(t)
  /\ pc[t] \in {"check", "socket", "connect", "begin", "lost"} => mRecvBuffer = <<>>
  /\ pc[t] = "begin" => pending[mSocket] = AllPieces(mSocket)

StreamInv ==
  /\ \A t \in RecvThreads : pc[t] = "none" => delivered[t] = <<>>
  /\ \A t \in RecvThreads : pc[t] # "OnReceive" => values[t] = <<>>
  /\ ~leftover /\ ~filled =>
       /\ ~crashed
       /\ \A t \in RecvThreads :
            /\ Len(delivered[t]) <= Len(Replies)
            /\ \A i \in 1 .. Len(delivered[t]) : delivered[t][i] = Replies[i].content
       /\ \A t \in Threads : Stream(t)

LEMMA Names ==
  /\ Threads = {Main} \cup RecvThreads /\ Main \notin RecvThreads
  /\ NoSocket \notin Sockets /\ MaxSockets \in Nat \ {0}
  /\ Sockets \subseteq Nat /\ RecvThreads \subseteq Nat
BY ClientConstants DEF Threads, Main, RecvThreads, NoSocket, Sockets

----------------------------------------------------------------------------
(* Threads and sockets *)

LEMMA ControlInit == Init => ControlInv
<1> SUFFICES ASSUME Init PROVE ControlInv
  OBVIOUS
<1>1. /\ mSocket = NoSocket /\ mbIsConnected = FALSE
      /\ pc = [t \in Threads |-> IF t = Main THEN "check" ELSE "none"]
      /\ socket = [t \in Threads |-> NoSocket]
      /\ conn = [s \in Sockets |-> "none"] /\ closes = [s \in Sockets |-> 0]
  BY DEF Init
<1>2. /\ pc[Main] = "check" /\ \A t \in RecvThreads : pc[t] = "none"
      /\ \A t \in Threads : pc[t] \in {"check", "none"} /\ (pc[t] = "check" => t = Main)
  BY <1>1, Names
<1>3. ControlTypes
  <2>1. pc \in [Threads -> MainLabels \cup RecvLabels] /\ pc[Main] \in MainLabels
        /\ \A t \in RecvThreads : pc[t] \in RecvLabels
    BY <1>1, <1>2 DEF MainLabels, RecvLabels
  <2> QED BY <1>1, <2>1 DEF ControlTypes
<1>4. SocketKnown
  BY <1>1, <1>2 DEF SocketKnown
<1>5. Alone
  BY <1>2 DEF Alone, Active
<1>6. SocketUsed
  BY <1>2 DEF SocketUsed, Using
<1>7. SocketsPast
  BY <1>2, Names DEF SocketsPast, Past, Using
<1>8. ClosesCounted
  BY <1>1 DEF ClosesCounted
<1> QED BY <1>3, <1>4, <1>5, <1>6, <1>7, <1>8 DEF ControlInv

\* A step of one thread that neither makes, connects nor gives up a socket.
LEMMA ThreadMoves ==
  ASSUME ControlInv, NEW t \in Threads, NEW l, Goto(t, l),
         UNCHANGED <<mSocket, socket, conn, closes>>, mbIsConnected' \in BOOLEAN,
         IF t = Main THEN l \in MainLabels ELSE l \in RecvLabels,
         mSocket = NoSocket => ~mbIsConnected' /\ l \in {"check", "socket", "none"},
         l \in Active => pc[t] \in Active, l \in Using => pc[t] \in Using,
         l \in Past /\ t # Main => pc[t] \in Past,
         l = "connect" => pc[t] = "connect", l = "wait" => pc[t] = "wait",
         l = "ended" => pc[t] = "ended"
  PROVE  ControlInv'
<1>1. ControlTypes /\ SocketKnown /\ Alone /\ SocketUsed /\ SocketsPast /\ ClosesCounted
  BY DEF ControlInv
<1>2. pc' = [pc EXCEPT ![t] = l]
  BY DEF Goto
<1>3. pc'[t] = l /\ \A u \in Threads : u # t => pc'[u] = pc[u]
  BY <1>1, <1>2 DEF ControlTypes
<1>4. ControlTypes'
  <2>1. pc' \in [Threads -> MainLabels \cup RecvLabels]
    BY <1>1, <1>2 DEF ControlTypes
  <2>2. pc'[Main] \in MainLabels /\ \A u \in RecvThreads : pc'[u] \in RecvLabels
    BY <1>1, <1>3, Names DEF ControlTypes
  <2> QED BY <1>1, <2>1, <2>2 DEF ControlTypes
<1>5. SocketKnown'
  BY <1>1, <1>3 DEF SocketKnown
<1>6. Alone'
  BY <1>1, <1>3 DEF Alone
<1>7. SocketUsed'
  BY <1>1, <1>3 DEF SocketUsed
<1>8. SocketsPast'
  <2>1. \A u \in RecvThreads : pc'[u] \in Past => pc[u] \in Past
    BY <1>3, Names
  <2>2. \A u \in RecvThreads : pc'[u] = "ended" => pc[u] = "ended"
    BY <1>3, Names
  <2>3. \A u \in Threads : pc'[u] \in Using => pc[u] \in Using
    BY <1>3
  <2> HIDE DEF Past, Using
  <2> QED BY <1>1, <2>1, <2>2, <2>3 DEF SocketsPast
<1>9. ClosesCounted'
  BY <1>1 DEF ClosesCounted
<1> QED BY <1>4, <1>5, <1>6, <1>7, <1>8, <1>9 DEF ControlInv

\* A step that changes nothing of threads and sockets.
LEMMA NothingMoves ==
  ASSUME ControlInv, UNCHANGED <<mSocket, mbIsConnected, pc, socket, conn, closes>>
  PROVE  ControlInv'
BY DEF ControlInv, ControlTypes, SocketKnown, Alone, SocketUsed, SocketsPast, ClosesCounted

LEMMA ControlParts ==
  ASSUME ControlInv
  PROVE  /\ ControlTypes /\ SocketKnown /\ Alone /\ SocketUsed /\ SocketsPast /\ ClosesCounted
         /\ \A t \in RecvThreads : t \in Threads /\ t # Main
         /\ \A t \in Threads : t = Main \/ t \in RecvThreads
         /\ Main \in Threads
BY Names DEF ControlInv

\* Once a thread has left check and socket there is a socket.
LEMMA SocketThere ==
  ASSUME ControlInv, NEW t \in Threads, pc[t] \notin {"check", "socket", "none"}
  PROVE  mSocket \in Sockets
BY DEF ControlInv, ControlTypes, SocketKnown

LEMMA ControlCheckConnected ==
  ASSUME ControlInv, NEW t \in Threads, CheckConnected(t)
  PROVE  ControlInv'
<1>1. /\ pc[t] = "check" /\ UNCHANGED <<mSocket, mbIsConnected, socket, conn, closes>>
      /\ mbIsConnected \in BOOLEAN
  BY ControlParts DEF CheckConnected, At, shared, locals, network, ControlTypes
<1>2. CASE mbIsConnected
  <2>1. Goto(t, IF t = Main THEN "idle" ELSE "check")
    BY <1>2 DEF CheckConnected, ConnectReturns
  <2>2. mSocket # NoSocket
    BY <1>2, ControlParts DEF SocketKnown
  <2>3. CASE t = Main
    <3>1. Goto(t, "idle")
      BY <2>1, <2>3
    <3> QED BY <1>1, <2>2, <2>3, <3>1, ThreadMoves DEF MainLabels, Active, Using, Past
  <2>4. CASE t # Main
    <3>1. Goto(t, "check")
      BY <2>1, <2>4
    <3> QED BY <1>1, <2>2, <2>4, <3>1, ThreadMoves DEF RecvLabels, Active, Using, Past
  <2> QED BY <2>3, <2>4
<1>3. CASE ~mbIsConnected
  <2>1. Goto(t, "socket")
    BY <1>3 DEF CheckConnected
  <2> QED BY <1>1, <1>3, <2>1, ThreadMoves DEF MainLabels, RecvLabels, Active, Using, Past
<1> QED BY <1>2, <1>3

LEMMA ControlCreateSocket ==
  ASSUME ControlInv, NEW t \in Threads, CreateSocket(t)
  PROVE  ControlInv'
<1>1. PICK s \in Sockets : conn[s] = "none" /\ mSocket' = s /\ conn' = [conn EXCEPT ![s] = "made"]
  BY DEF CreateSocket
<1>2. /\ pc[t] = "socket" /\ pc' = [pc EXCEPT ![t] = "connect"]
      /\ UNCHANGED <<mbIsConnected, socket, closes>>
  BY DEF CreateSocket, At, Goto, locals
<1>3. ControlTypes /\ SocketKnown /\ Alone /\ SocketUsed /\ SocketsPast /\ ClosesCounted
  BY ControlParts
<1>4. pc'[t] = "connect" /\ \A u \in Threads : u # t => pc'[u] = pc[u]
  BY <1>2, <1>3 DEF ControlTypes
<1>5. conn'[s] = "made" /\ \A r \in Sockets : r # s => conn'[r] = conn[r]
  BY <1>1, <1>3 DEF ControlTypes
<1>6. \A u \in Threads : u # t => pc[u] \notin Active
  BY <1>2, <1>3 DEF Alone, Active
<1>7. \A u \in Threads : pc'[u] \notin Using /\ pc'[u] # "wait" /\ (pc'[u] = "connect" => u = t)
  BY <1>4, <1>6 DEF Using, Active
<1>8. ControlTypes'
  <2>1. mSocket' \in Sockets \cup {NoSocket} /\ mbIsConnected' \in BOOLEAN
        /\ socket' \in [Threads -> Sockets \cup {NoSocket}] /\ closes' \in [Sockets -> Nat]
    BY <1>1, <1>2, <1>3 DEF ControlTypes
  <2>2. pc' \in [Threads -> MainLabels \cup RecvLabels]
    BY <1>2, <1>3 DEF ControlTypes, MainLabels
  <2>3. pc'[Main] \in MainLabels /\ \A u \in RecvThreads : pc'[u] \in RecvLabels
    BY <1>3, <1>4, ControlParts DEF ControlTypes, MainLabels, RecvLabels
  <2>4. conn' \in [Sockets -> {"none", "made", "open", "down", "closed"}]
    BY <1>1, <1>3 DEF ControlTypes
  <2> QED BY <2>1, <2>2, <2>3, <2>4 DEF ControlTypes
<1>9. SocketKnown'
  BY <1>1, Names DEF SocketKnown
<1>10. Alone'
  BY <1>4, <1>6 DEF Alone
<1>11. SocketUsed'
  BY <1>1, <1>5, <1>7 DEF SocketUsed
<1>12. SocketsPast'
  <2>1. \A u \in RecvThreads : pc'[u] \in Past \cup {"ended"} => pc[u] \in Past \cup {"ended"}
                               /\ (pc'[u] \in Past => pc[u] \in Past)
                               /\ (pc'[u] = "ended" => pc[u] = "ended")
    BY <1>2, <1>4, ControlParts DEF Past
  <2>2. \A u \in RecvThreads : pc[u] \in Past \cup {"ended"} =>
          socket[u] \in Sockets /\ conn'[socket[u]] = conn[socket[u]]
    BY <1>1, <1>3, <1>5 DEF SocketsPast
  <2> HIDE DEF Past
  <2> QED BY <1>2, <1>3, <1>7, <2>1, <2>2 DEF SocketsPast
<1>13. ClosesCounted'
  BY <1>1, <1>2, <1>3, <1>5 DEF ClosesCounted
<1> QED BY <1>8, <1>9, <1>10, <1>11, <1>12, <1>13 DEF ControlInv

LEMMA ControlTryConnect ==
  ASSUME ControlInv, NEW t \in Threads, TryConnect(t)
  PROVE  ControlInv'
<1>1. /\ pc[t] = "connect" /\ UNCHANGED <<mSocket, mbIsConnected, socket, closes>>
      /\ mbIsConnected \in BOOLEAN
  BY ControlParts DEF TryConnect, At, shared, locals, ControlTypes
<1>2. ControlTypes /\ SocketKnown /\ Alone /\ SocketUsed /\ SocketsPast /\ ClosesCounted
  BY ControlParts
<1>3. mSocket \in Sockets /\ mSocket # NoSocket
  BY <1>1, SocketThere, Names
<1>4. CASE UNCHANGED conn /\ ConnectReturns(t, FALSE)
  <2>1. CASE t = Main
    <3>1. Goto(t, "idle")
      BY <1>4, <2>1 DEF ConnectReturns
    <3> QED BY <1>1, <1>3, <1>4, <2>1, <3>1, ThreadMoves DEF MainLabels, Active, Using, Past
  <2>2. CASE t # Main
    <3>1. Goto(t, "check")
      BY <1>4, <2>2 DEF ConnectReturns
    <3> QED BY <1>1, <1>3, <1>4, <2>2, <3>1, ThreadMoves DEF RecvLabels, Active, Using, Past
  <2> QED BY <2>1, <2>2
<1>5. CASE conn' = [conn EXCEPT ![mSocket] = "open"] /\ Goto(t, "begin")
  <2>1. pc' = [pc EXCEPT ![t] = "begin"]
    BY <1>5 DEF Goto
  <2>2. pc'[t] = "begin" /\ \A u \in Threads : u # t => pc'[u] = pc[u]
    BY <1>2, <2>1 DEF ControlTypes
  <2>3. conn'[mSocket] = "open" /\ \A r \in Sockets : r # mSocket => conn'[r] = conn[r]
    BY <1>2, <1>3, <1>5 DEF ControlTypes
  <2>4. conn[mSocket] = "made"
    BY <1>1, <1>2 DEF SocketUsed
  <2>5. \A u \in Threads : u # t => pc[u] \notin Active
    BY <1>1, <1>2 DEF Alone, Active
  <2>6. ControlTypes'
    <3>1. pc' \in [Threads -> MainLabels \cup RecvLabels]
      BY <1>2, <2>1 DEF ControlTypes, MainLabels
    <3>2. pc'[Main] \in MainLabels /\ \A u \in RecvThreads : pc'[u] \in RecvLabels
      BY <1>2, <2>2, ControlParts DEF ControlTypes, MainLabels, RecvLabels
    <3>3. conn' \in [Sockets -> {"none", "made", "open", "down", "closed"}]
      BY <1>2, <1>5 DEF ControlTypes
    <3> QED BY <1>1, <1>2, <3>1, <3>2, <3>3 DEF ControlTypes
  <2>7. SocketKnown'
    BY <1>1, <1>3 DEF SocketKnown
  <2>8. Alone'
    BY <2>2, <2>5 DEF Alone
  <2>9. SocketUsed'
    BY <1>1, <2>2, <2>3, <2>5 DEF SocketUsed, Using, Active
  <2>10. SocketsPast'
    <3>1. \A u \in RecvThreads : /\ pc'[u] \in Past => pc[u] \in Past
                                 /\ pc'[u] = "ended" => pc[u] = "ended"
      BY <1>1, <2>2, ControlParts DEF Past
    <3>2. \A u \in RecvThreads : pc[u] \in Past \cup {"ended"} =>
            socket[u] \in Sockets /\ socket[u] # mSocket /\ conn'[socket[u]] = conn[socket[u]]
      BY <1>2, <2>3, <2>4 DEF SocketsPast
    <3> HIDE DEF Past
    <3> QED BY <1>1, <1>2, <3>1, <3>2 DEF SocketsPast
  <2>11. ClosesCounted'
    BY <1>1, <1>2, <2>3, <2>4 DEF ClosesCounted
  <2> QED BY <2>6, <2>7, <2>8, <2>9, <2>10, <2>11 DEF ControlInv
<1> QED BY <1>4, <1>5 DEF TryConnect

LEMMA ControlBeginThread ==
  ASSUME ControlInv, NEW t \in Threads, BeginThread(t)
  PROVE  ControlInv'
<1>1. PICK r \in RecvThreads :
        pc[r] = "none" /\ pc' = [pc EXCEPT ![r] = "recv", ![t] = "connected"]
  BY DEF BeginThread, At
<1>2. /\ pc[t] = "begin" /\ UNCHANGED <<mSocket, mbIsConnected, socket, conn, closes>>
  BY DEF BeginThread, At, shared, locals, network
<1>3. ControlTypes /\ SocketKnown /\ Alone /\ SocketUsed /\ SocketsPast /\ ClosesCounted
  BY ControlParts
<1>4. r \in Threads /\ r # Main /\ r # t
  BY <1>1, <1>2, ControlParts
<1>5. /\ pc'[t] = "connected" /\ pc'[r] = "recv"
      /\ \A u \in Threads : u # t /\ u # r => pc'[u] = pc[u]
  BY <1>1, <1>3, <1>4 DEF ControlTypes
<1>6. mSocket \in Sockets /\ mSocket # NoSocket
  BY <1>2, SocketThere, Names
<1>7. \A u \in Threads : u # t => pc[u] \notin Active
  BY <1>2, <1>3 DEF Alone, Active
<1>8. \A u \in Threads : u # r => pc'[u] \notin Active
  BY <1>5, <1>7 DEF Active
<1>9. ControlTypes'
  <2>1. pc' \in [Threads -> MainLabels \cup RecvLabels]
    BY <1>1, <1>3 DEF ControlTypes, MainLabels, RecvLabels
  <2>2. pc'[Main] \in MainLabels /\ \A u \in RecvThreads : pc'[u] \in RecvLabels
    BY <1>3, <1>4, <1>5, ControlParts DEF ControlTypes, MainLabels, RecvLabels
  <2> QED BY <1>2, <1>3, <2>1, <2>2 DEF ControlTypes
<1>10. SocketKnown'
  BY <1>2, <1>6 DEF SocketKnown
<1>11. Alone'
  BY <1>8 DEF Alone
<1>12. SocketUsed'
  <2>1. conn[mSocket] \in {"open", "down"}
    BY <1>2, <1>3 DEF SocketUsed, Using
  <2>2. \A u \in Threads : pc'[u] # "connect" /\ pc'[u] # "wait"
    BY <1>5, <1>8 DEF Active
  <2> QED BY <1>2, <2>1, <2>2 DEF SocketUsed
<1>13. SocketsPast'
  <2>1. \A u \in RecvThreads : /\ pc'[u] \in Past => pc[u] \in Past
                               /\ pc'[u] = "ended" => pc[u] = "ended"
    BY <1>2, <1>5, ControlParts DEF Past
  <2>2. \A u \in RecvThreads : pc[u] \in Past \cup {"ended"} => socket[u] # mSocket
    BY <1>2, <1>3 DEF SocketsPast, Using
  <2> HIDE DEF Past, Using
  <2> QED BY <1>2, <1>3, <2>1, <2>2 DEF SocketsPast
<1>14. ClosesCounted'
  BY <1>2, <1>3 DEF ClosesCounted
<1> QED BY <1>9, <1>10, <1>11, <1>12, <1>13, <1>14 DEF ControlInv

LEMMA ControlSetConnected ==
  ASSUME ControlInv, NEW t \in Threads, SetConnected(t)
  PROVE  ControlInv'
<1>1. /\ pc[t] = "connected" /\ UNCHANGED <<mSocket, socket, conn, closes>>
      /\ mbIsConnected' \in BOOLEAN
  BY DEF SetConnected, At, locals, network
<1>2. mSocket # NoSocket
  BY <1>1, SocketThere, Names
<1>3. CASE t = Main
  <2>1. Goto(t, "idle")
    BY <1>3 DEF SetConnected, ConnectReturns
  <2> QED BY <1>1, <1>2, <1>3, <2>1, ThreadMoves DEF MainLabels, Active, Using, Past
<1>4. CASE t # Main
  <2>1. Goto(t, "close")
    BY <1>4 DEF SetConnected, ConnectReturns
  <2> QED BY <1>1, <1>2, <1>4, <2>1, ThreadMoves DEF RecvLabels, Active, Using, Past
<1> QED BY <1>3, <1>4

LEMMA ControlMainStep ==
  ASSUME ControlInv, MainStep
  PROVE  ControlInv'
<1>0. ControlTypes /\ Main \in Threads /\ mbIsConnected \in BOOLEAN
  BY ControlParts DEF ControlTypes
<1>1. ASSUME NEW c, NewRequest(c) PROVE ControlInv'
  BY <1>1, NothingMoves DEF NewRequest, shared, network
<1>2. ASSUME NEW rand, SendPacket(rand) PROVE ControlInv'
  <2>1. /\ pc[Main] = "idle" /\ Goto(Main, "send")
        /\ UNCHANGED <<mSocket, mbIsConnected, socket, conn, closes>>
    BY <1>2 DEF SendPacket, At, shared, network
  <2>2. mSocket # NoSocket
    BY <1>0, <2>1, SocketThere, Names
  <2> QED BY <1>0, <2>1, <2>2, ThreadMoves DEF MainLabels, Active, Using, Past
<1>3. ASSUME Send PROVE ControlInv'
  <2>1. /\ pc[Main] = "send" /\ Goto(Main, "idle")
        /\ UNCHANGED <<mSocket, mbIsConnected, socket, conn, closes>>
    BY <1>3 DEF Send, At, locals
  <2>2. mSocket # NoSocket
    BY <1>0, <2>1, SocketThere, Names
  <2> QED BY <1>0, <2>1, <2>2, ThreadMoves DEF MainLabels, Active, Using, Past
<1>4. ASSUME Disconnect PROVE ControlInv'
  <2>1. /\ pc[Main] = "idle" /\ Goto(Main, "disconnect")
        /\ UNCHANGED <<mSocket, mbIsConnected, socket, conn, closes>>
    BY <1>4 DEF Disconnect, At, shared, locals, network
  <2>2. mSocket # NoSocket
    BY <1>0, <2>1, SocketThere, Names
  <2> QED BY <1>0, <2>1, <2>2, ThreadMoves DEF MainLabels, Active, Using, Past
<1>5. ASSUME ClearConnected PROVE ControlInv'
  <2>1. /\ pc[Main] = "disconnect" /\ Goto(Main, "shutdown") /\ mbIsConnected' \in BOOLEAN
        /\ UNCHANGED <<mSocket, socket, conn, closes>>
    BY <1>5 DEF ClearConnected, At, locals, network
  <2>2. mSocket # NoSocket
    BY <1>0, <2>1, SocketThere, Names
  <2> QED BY <1>0, <2>1, <2>2, ThreadMoves DEF MainLabels, Active, Using, Past
<1>6. ASSUME Shutdown PROVE ControlInv'
  <2>1. /\ pc[Main] = "shutdown" /\ Goto(Main, "idle")
        /\ UNCHANGED <<mSocket, mbIsConnected, socket, closes>>
        /\ conn' = IF conn[mSocket] = "open" THEN [conn EXCEPT ![mSocket] = "down"] ELSE conn
    BY <1>6 DEF Shutdown, At, shared, locals
  <2>2. mSocket # NoSocket /\ mSocket \in Sockets
    BY <1>0, <2>1, SocketThere, Names
  <2>3. CASE conn[mSocket] # "open"
    <3>1. UNCHANGED conn
      BY <2>1, <2>3
    <3> QED BY <1>0, <2>1, <2>2, <3>1, ThreadMoves DEF MainLabels, Active, Using, Past
  <2>4. CASE conn[mSocket] = "open"
    <3>1. conn' = [conn EXCEPT ![mSocket] = "down"] /\ pc' = [pc EXCEPT ![Main] = "idle"]
      BY <2>1, <2>4 DEF Goto
    <3>2. ControlTypes /\ SocketKnown /\ Alone /\ SocketUsed /\ SocketsPast /\ ClosesCounted
      BY ControlParts
    <3>3. pc'[Main] = "idle" /\ \A u \in Threads : u # Main => pc'[u] = pc[u]
      BY <1>0, <3>1 DEF ControlTypes
    <3>4. conn'[mSocket] = "down" /\ \A r \in Sockets : r # mSocket => conn'[r] = conn[r]
      BY <2>2, <3>1, <3>2 DEF ControlTypes
    <3>5. ControlTypes'
      <4>1. pc' \in [Threads -> MainLabels \cup RecvLabels]
        BY <1>0, <3>1 DEF ControlTypes, MainLabels
      <4>2. pc'[Main] \in MainLabels /\ \A u \in RecvThreads : pc'[u] \in RecvLabels
        BY <1>0, <3>3, ControlParts DEF ControlTypes, MainLabels
      <4>3. conn' \in [Sockets -> {"none", "made", "open", "down", "closed"}]
        BY <1>0, <3>1 DEF ControlTypes
      <4> QED BY <1>0, <2>1, <4>1, <4>2, <4>3 DEF ControlTypes
    <3>6. SocketKnown'
      BY <2>1, <2>2 DEF SocketKnown
    <3>7. Alone'
      BY <3>2, <3>3 DEF Alone, Active
    <3>8. SocketUsed'
      BY <2>1, <2>4, <3>2, <3>3, <3>4 DEF SocketUsed, Using
    <3>9. SocketsPast'
      <4>1. \A u \in RecvThreads : pc'[u] = pc[u]
        BY <3>3, ControlParts
      <4>2. \A u \in RecvThreads : pc[u] \in Past \cup {"ended"} =>
              socket[u] \in Sockets /\ conn'[socket[u]] = conn[socket[u]]
        BY <2>4, <3>2, <3>4 DEF SocketsPast
      <4>3. \A u \in Threads : pc'[u] \in Using => pc[u] \in Using
        BY <3>3 DEF Using
      <4> HIDE DEF Past, Using
      <4> QED BY <2>1, <3>2, <4>1, <4>2, <4>3 DEF SocketsPast
    <3>10. ClosesCounted'
      BY <2>1, <2>4, <3>2, <3>4 DEF ClosesCounted
    <3> QED BY <3>5, <3>6, <3>7, <3>8, <3>9, <3>10 DEF ControlInv
  <2> QED BY <2>3, <2>4
<1> QED BY <1>1, <1>2, <1>3, <1>4, <1>5, <1>6 DEF MainStep

LEMMA ControlConnectionEnds ==
  ASSUME ControlInv, NEW s \in Sockets, ConnectionEnds(s)
  PROVE  ControlInv'
<1>1. /\ conn[s] = "open" /\ conn' = [conn EXCEPT ![s] = "down"]
      /\ UNCHANGED <<mSocket, mbIsConnected, pc, socket, closes>>
  BY DEF ConnectionEnds, shared, locals
<1>2. ControlTypes /\ SocketKnown /\ Alone /\ SocketUsed /\ SocketsPast /\ ClosesCounted
  BY ControlParts
<1>3. conn'[s] = "down" /\ \A r \in Sockets : r # s => conn'[r] = conn[r]
  BY <1>1, <1>2 DEF ControlTypes
<1>4. ControlTypes'
  BY <1>1, <1>2 DEF ControlTypes
<1>5. SocketKnown' /\ Alone'
  BY <1>1, <1>2 DEF SocketKnown, Alone
<1>6. SocketUsed'
  <2>1. \A t \in Threads : pc[t] \in Using \cup {"connect"} => mSocket \in Sockets
    BY SocketThere DEF Using
  <2> QED BY <1>1, <1>2, <1>3, <2>1 DEF SocketUsed
<1>7. SocketsPast'
  BY <1>1, <1>2, <1>3 DEF SocketsPast
<1>8. ClosesCounted'
  BY <1>1, <1>2, <1>3 DEF ClosesCounted
<1> QED BY <1>4, <1>5, <1>6, <1>7, <1>8 DEF ControlInv

LEMMA ControlRecv ==
  ASSUME ControlInv, NEW t \in RecvThreads, Recv(t)
  PROVE  ControlInv'
<1>1. /\ pc[t] = "recv" /\ pc' = [pc EXCEPT ![t] = "wait"]
      /\ socket' = [socket EXCEPT ![t] = mSocket]
      /\ UNCHANGED <<mSocket, mbIsConnected, conn, closes>>
  BY DEF Recv, At, Goto, shared, network
<1>2. /\ ControlTypes /\ SocketKnown /\ Alone /\ SocketUsed /\ SocketsPast /\ ClosesCounted
      /\ t \in Threads /\ t # Main
  BY ControlParts
<1>3. mSocket \in Sockets /\ mSocket # NoSocket
  BY <1>1, <1>2, SocketThere, Names
<1>4. /\ pc'[t] = "wait" /\ \A u \in Threads : u # t => pc'[u] = pc[u]
      /\ socket'[t] = mSocket /\ \A u \in Threads : u # t => socket'[u] = socket[u]
  BY <1>1, <1>2 DEF ControlTypes
<1>5. \A u \in Threads : u # t => pc[u] \notin Active
  BY <1>1, <1>2 DEF Alone, Active
<1>6. ControlTypes'
  <2>1. pc' \in [Threads -> MainLabels \cup RecvLabels]
    BY <1>1, <1>2 DEF ControlTypes, RecvLabels
  <2>2. pc'[Main] \in MainLabels /\ \A u \in RecvThreads : pc'[u] \in RecvLabels
    BY <1>2, <1>4, ControlParts DEF ControlTypes, RecvLabels
  <2>3. socket' \in [Threads -> Sockets \cup {NoSocket}]
    BY <1>1, <1>2 DEF ControlTypes
  <2> QED BY <1>1, <1>2, <2>1, <2>2, <2>3 DEF ControlTypes
<1>7. SocketKnown'
  BY <1>1, <1>3 DEF SocketKnown
<1>8. Alone'
  BY <1>4, <1>5 DEF Alone
<1>9. SocketUsed'
  <2>1. conn[mSocket] \in {"open", "down"}
    BY <1>1, <1>2 DEF SocketUsed, Using
  <2>2. \A u \in Threads : u # t => pc'[u] # "connect" /\ pc'[u] # "wait"
    BY <1>4, <1>5 DEF Active
  <2> QED BY <1>1, <1>4, <2>1, <2>2 DEF SocketUsed
<1>10. SocketsPast'
  <2>1. \A u \in RecvThreads : pc'[u] \in Past \cup {"ended"} =>
          pc[u] = pc'[u] /\ socket'[u] = socket[u]
    BY <1>4, ControlParts DEF Past
  <2>2. \A u \in RecvThreads : pc[u] \in Past \cup {"ended"} => socket[u] # mSocket
    BY <1>1, <1>2 DEF SocketsPast, Using
  <2> HIDE DEF Past, Using
  <2> QED BY <1>1, <1>2, <2>1, <2>2 DEF SocketsPast
<1>11. ClosesCounted'
  BY <1>1, <1>2 DEF ClosesCounted
<1> QED BY <1>6, <1>7, <1>8, <1>9, <1>10, <1>11 DEF ControlInv

LEMMA ControlRecvFails ==
  ASSUME ControlInv, NEW t \in RecvThreads, RecvFails(t)
  PROVE  ControlInv'
<1>1. /\ pc[t] = "wait" /\ pc' = [pc EXCEPT ![t] = "lost"]
      /\ socket' = [socket EXCEPT ![t] = mSocket] /\ conn[socket[t]] # "open"
      /\ UNCHANGED <<mSocket, mbIsConnected, conn, closes>>
  BY DEF RecvFails, At, Goto, shared, network
<1>2. /\ ControlTypes /\ SocketKnown /\ Alone /\ SocketUsed /\ SocketsPast /\ ClosesCounted
      /\ t \in Threads /\ t # Main
  BY ControlParts
<1>3. mSocket \in Sockets /\ mSocket # NoSocket
  BY <1>1, <1>2, SocketThere, Names
<1>4. /\ pc'[t] = "lost" /\ \A u \in Threads : u # t => pc'[u] = pc[u]
      /\ socket'[t] = mSocket /\ \A u \in Threads : u # t => socket'[u] = socket[u]
  BY <1>1, <1>2 DEF ControlTypes
<1>5. \A u \in Threads : u # t => pc[u] \notin Active
  BY <1>1, <1>2 DEF Alone, Active
<1>6. conn[mSocket] = "down"
  BY <1>1, <1>2 DEF SocketUsed, Using
<1>7. ControlTypes'
  <2>1. pc' \in [Threads -> MainLabels \cup RecvLabels]
    BY <1>1, <1>2 DEF ControlTypes, RecvLabels
  <2>2. pc'[Main] \in MainLabels /\ \A u \in RecvThreads : pc'[u] \in RecvLabels
    BY <1>2, <1>4, ControlParts DEF ControlTypes, RecvLabels
  <2>3. socket' \in [Threads -> Sockets \cup {NoSocket}]
    BY <1>1, <1>2 DEF ControlTypes
  <2> QED BY <1>1, <1>2, <2>1, <2>2, <2>3 DEF ControlTypes
<1>8. SocketKnown'
  BY <1>1, <1>3 DEF SocketKnown
<1>9. Alone'
  BY <1>4, <1>5 DEF Alone
<1>10. \A u \in Threads : pc'[u] # "connect" /\ pc'[u] # "wait" /\ pc'[u] \notin Using
  BY <1>4, <1>5 DEF Active, Using
<1>11. SocketUsed'
  BY <1>10 DEF SocketUsed
<1>12. SocketsPast'
  <2>1. \A u \in RecvThreads : u # t => pc[u] = pc'[u] /\ socket'[u] = socket[u]
    BY <1>4, ControlParts
  <2>2. \A u \in RecvThreads : pc[u] \in Past \cup {"ended"} => socket[u] # mSocket
    BY <1>1, <1>2 DEF SocketsPast, Using
  <2>3. pc'[t] # "ended"
    BY <1>4
  <2> HIDE DEF Past, Using
  <2>4. \A u \in RecvThreads : pc'[u] \in Past =>
          socket'[u] \in Sockets /\ conn'[socket'[u]] = "down"
    BY <1>1, <1>2, <1>3, <1>4, <1>6, <2>1 DEF SocketsPast
  <2>5. \A u \in RecvThreads : pc'[u] = "ended" =>
          socket'[u] \in Sockets /\ conn'[socket'[u]] = "closed"
    BY <1>1, <1>2, <2>1, <2>3 DEF SocketsPast
  <2>6. \A u, v \in RecvThreads :
          pc'[u] \in Past \cup {"ended"} /\ pc'[v] \in Past \cup {"ended"}
          /\ socket'[u] = socket'[v] => u = v
    BY <1>2, <1>4, <2>1, <2>2 DEF SocketsPast
  <2> QED BY <1>10, <2>4, <2>5, <2>6 DEF SocketsPast
<1>13. ClosesCounted'
  BY <1>1, <1>2 DEF ClosesCounted
<1> QED BY <1>7, <1>8, <1>9, <1>11, <1>12, <1>13 DEF ControlInv

LEMMA ControlCloseSocket ==
  ASSUME ControlInv, NEW t \in RecvThreads, CloseSocket(t)
  PROVE  ControlInv'
<1>1. /\ pc[t] = "close" /\ pc' = [pc EXCEPT ![t] = "ended"]
      /\ conn' = [conn EXCEPT ![socket[t]] = "closed"]
      /\ closes' = [closes EXCEPT ![socket[t]] = @ + 1]
      /\ UNCHANGED <<mSocket, mbIsConnected, socket>>
  BY DEF CloseSocket, At, Goto, shared, locals, SocketToClose, AfterClose
<1>2. /\ ControlTypes /\ SocketKnown /\ Alone /\ SocketUsed /\ SocketsPast /\ ClosesCounted
      /\ t \in Threads /\ t # Main
  BY ControlParts
<1> DEFINE s == socket[t]
<1>3. s \in Sockets /\ conn[s] = "down"
  BY <1>1, <1>2 DEF SocketsPast, Past
<1>4. pc'[t] = "ended" /\ \A u \in Threads : u # t => pc'[u] = pc[u]
  BY <1>1, <1>2 DEF ControlTypes
<1>5. /\ conn'[s] = "closed" /\ \A r \in Sockets : r # s => conn'[r] = conn[r]
      /\ closes'[s] = closes[s] + 1 /\ \A r \in Sockets : r # s => closes'[r] = closes[r]
  BY <1>1, <1>2, <1>3 DEF ControlTypes
<1>6. \A u \in Threads : /\ pc'[u] \in Using => pc[u] \in Using
                         /\ pc'[u] \in {"connect", "wait"} => pc'[u] = pc[u]
                         /\ pc'[u] \in {"check", "socket", "none"} => pc'[u] = pc[u]
                         /\ pc'[u] \in Active => pc'[u] = pc[u]
  BY <1>4 DEF Using, Active
<1>7. ControlTypes'
  <2>1. pc' \in [Threads -> MainLabels \cup RecvLabels]
    BY <1>1, <1>2 DEF ControlTypes, RecvLabels
  <2>2. pc'[Main] \in MainLabels /\ \A u \in RecvThreads : pc'[u] \in RecvLabels
    BY <1>2, <1>4, ControlParts DEF ControlTypes, RecvLabels
  <2>3. conn' \in [Sockets -> {"none", "made", "open", "down", "closed"}]
    BY <1>1, <1>2 DEF ControlTypes
  <2>4. closes' \in [Sockets -> Nat]
    <3>1. closes \in [Sockets -> Nat] /\ closes' = [closes EXCEPT ![s] = closes[s] + 1]
      BY <1>1, <1>2 DEF ControlTypes
    <3>2. closes[s] + 1 \in Nat
      BY <1>3, <3>1
    <3> QED BY <3>1, <3>2
  <2> QED BY <1>1, <1>2, <2>1, <2>2, <2>3, <2>4 DEF ControlTypes
<1>8. SocketKnown'
  <2>1. mSocket # NoSocket
    BY <1>1, <1>2, SocketThere, Names
  <2> QED BY <1>1, <2>1 DEF SocketKnown
<1>9. Alone'
  BY <1>2, <1>6 DEF Alone
<1>10. SocketUsed'
  <2>1. \A u \in Threads : pc[u] \in Using => mSocket \in Sockets /\ mSocket # s
    BY <1>1, <1>2, SocketThere DEF SocketsPast, Past, Using
  <2>2. \A u \in Threads : pc[u] = "connect" => mSocket \in Sockets /\ mSocket # s
    BY <1>2, <1>3, SocketThere DEF SocketUsed
  <2>3. ASSUME NEW u \in Threads
        PROVE  /\ pc'[u] = "connect" => conn'[mSocket] = "made"
               /\ pc'[u] \in Using => conn'[mSocket] \in {"open", "down"}
               /\ pc'[u] = "wait" => socket[u] = mSocket
    BY <1>2, <1>5, <1>6, <2>1, <2>2 DEF SocketUsed
  <2> QED BY <1>1, <2>3 DEF SocketUsed
<1>11. SocketsPast'
  <2>1. /\ pc[t] \in Past /\ pc'[t] \notin Past
        /\ \A u \in RecvThreads : u # t => pc'[u] = pc[u]
    BY <1>1, <1>4, ControlParts DEF Past
  <2> HIDE DEF Past, Using
  <2>2. \A u \in RecvThreads : u # t /\ pc[u] \in Past \cup {"ended"} =>
          socket[u] \in Sockets /\ socket[u] # s /\ conn'[socket[u]] = conn[socket[u]]
    BY <1>2, <1>5, <2>1 DEF SocketsPast
  <2>3. \A u \in RecvThreads : pc'[u] \in Past =>
          socket[u] \in Sockets /\ conn'[socket[u]] = "down"
    BY <1>2, <2>1, <2>2 DEF SocketsPast
  <2>4. \A u \in RecvThreads : pc'[u] = "ended" =>
          socket[u] \in Sockets /\ conn'[socket[u]] = "closed"
    BY <1>2, <1>3, <1>5, <2>1, <2>2 DEF SocketsPast
  <2>5. \A u \in RecvThreads : pc'[u] \in Past \cup {"ended"} => pc[u] \in Past \cup {"ended"}
    BY <2>1
  <2>6. \A u \in RecvThreads, v \in Threads :
          pc'[u] \in Past \cup {"ended"} /\ pc'[v] \in Using => socket[u] # mSocket
    BY <1>2, <1>6, <2>5 DEF SocketsPast
  <2>7. \A u, v \in RecvThreads :
          pc'[u] \in Past \cup {"ended"} /\ pc'[v] \in Past \cup {"ended"}
          /\ socket[u] = socket[v] => u = v
    BY <1>2, <2>5 DEF SocketsPast
  <2> QED BY <1>1, <2>3, <2>4, <2>6, <2>7 DEF SocketsPast
<1>12. ClosesCounted'
  <2>1. closes[s] = 0 /\ closes'[s] = 1
    BY <1>2, <1>3, <1>5 DEF ClosesCounted
  <2> QED BY <1>2, <1>5, <2>1 DEF ClosesCounted
<1> QED BY <1>7, <1>8, <1>9, <1>10, <1>11, <1>12 DEF ControlInv

\* The disjuncts of LoopStep.
LEMMA LoopCases ==
  ASSUME NEW t \in RecvThreads, LoopStep(t)
  PROVE  \/ UNCHANGED <<shared, pc, locals, network, content, delivered, leftover, filled, calls>>
            /\ crashed'
         \/ Goto(t, "recv") /\ UNCHANGED <<shared, locals, network, history>>
         \/ Goto(t, "OnReceive")
            /\ UNCHANGED <<mSocket, mbIsConnected, mSendErrorCode, mRear, socket, values, network,
                            history>>
<1>1. PICK h \in PeekHeader : CodeIsWrong(t, h) \/ PayloadIncomplete(t, h) \/ TakePacket(t, h)
  BY DEF LoopStep
<1>2. CASE CodeIsWrong(t, h)
  BY <1>2 DEF CodeIsWrong, Crash
<1>3. CASE PayloadIncomplete(t, h)
  BY <1>3 DEF PayloadIncomplete, Crash
<1>4. CASE TakePacket(t, h)
  BY <1>4 DEF TakePacket, Crash
<1> QED BY <1>1, <1>2, <1>3, <1>4

LEMMA ControlRecvStep ==
  ASSUME ControlInv, NEW t \in RecvThreads, RecvStep(t)
  PROVE  ControlInv'
<1>0. /\ ControlTypes /\ t \in Threads /\ t # Main
      /\ mbIsConnected \in BOOLEAN /\ NoSocket \notin Sockets
  BY ControlParts, Names DEF ControlTypes
<1>1. ASSUME Recv(t) PROVE ControlInv'
  BY <1>1, ControlRecv
<1>2. ASSUME NEW n, RecvReturns(t, n) PROVE ControlInv'
  <2>1. /\ pc[t] = "wait" /\ Goto(t, "loop")
        /\ UNCHANGED <<mSocket, mbIsConnected, socket, conn, closes>>
    BY <1>2 DEF RecvReturns, At, locals
  <2>2. mSocket # NoSocket
    BY <1>0, <2>1, SocketThere
  <2> QED BY <1>0, <2>1, <2>2, ThreadMoves DEF RecvLabels, Active, Using, Past
<1>3. ASSUME RecvFails(t) PROVE ControlInv'
  BY <1>3, ControlRecvFails
<1>4. ASSUME LoseConnection(t) PROVE ControlInv'
  <2>1. /\ pc[t] = "lost" /\ Goto(t, "check") /\ mbIsConnected' \in BOOLEAN
        /\ UNCHANGED <<mSocket, socket, conn, closes>>
    BY <1>4 DEF LoseConnection, At, locals, network
  <2>2. mSocket # NoSocket
    BY <1>0, <2>1, SocketThere
  <2> QED BY <1>0, <2>1, <2>2, ThreadMoves DEF RecvLabels, Active, Using, Past
<1>5. ASSUME CloseSocket(t) PROVE ControlInv'
  BY <1>5, ControlCloseSocket
<1>6. ASSUME HeaderIncomplete(t) PROVE ControlInv'
  <2>1. /\ pc[t] = "loop" /\ Goto(t, "recv")
        /\ UNCHANGED <<mSocket, mbIsConnected, socket, conn, closes>>
    BY <1>6 DEF HeaderIncomplete, At, shared, locals, network
  <2>2. mSocket # NoSocket
    BY <1>0, <2>1, SocketThere
  <2> QED BY <1>0, <2>1, <2>2, ThreadMoves DEF RecvLabels, Active, Using, Past
<1>7. ASSUME LoopStep(t) PROVE ControlInv'
  <2>1. pc[t] = "loop"
    BY <1>7 DEF LoopStep, At
  <2>2. mSocket # NoSocket
    BY <1>0, <2>1, SocketThere
  <2>3. UNCHANGED <<mSocket, mbIsConnected, socket, conn, closes>>
    BY <1>7, LoopCases DEF shared, locals, network
  <2>4. UNCHANGED pc \/ Goto(t, "recv") \/ Goto(t, "OnReceive")
    BY <1>7, LoopCases
  <2>5. CASE UNCHANGED pc
    BY <2>3, <2>5, NothingMoves
  <2>6. CASE Goto(t, "recv")
    BY <1>0, <2>1, <2>2, <2>3, <2>6, ThreadMoves DEF RecvLabels, Active, Using, Past
  <2>7. CASE Goto(t, "OnReceive")
    BY <1>0, <2>1, <2>2, <2>3, <2>7, ThreadMoves DEF RecvLabels, Active, Using, Past
  <2> QED BY <2>4, <2>5, <2>6, <2>7
<1>8. ASSUME OnReceive(t) PROVE ControlInv'
  <2>1. /\ pc[t] = "OnReceive" /\ (UNCHANGED pc \/ Goto(t, "loop"))
        /\ UNCHANGED <<mSocket, mbIsConnected, socket, conn, closes>>
    BY <1>8 DEF OnReceive, At, shared, network
  <2>2. mSocket # NoSocket
    BY <1>0, <2>1, SocketThere
  <2>3. CASE UNCHANGED pc
    BY <2>1, <2>3, NothingMoves
  <2>4. CASE Goto(t, "loop")
    BY <1>0, <2>1, <2>2, <2>4, ThreadMoves DEF RecvLabels, Active, Using, Past
  <2> QED BY <2>1, <2>3, <2>4
<1> QED BY <1>1, <1>2, <1>3, <1>4, <1>5, <1>6, <1>7, <1>8 DEF RecvStep

LEMMA ControlStep ==
  ASSUME ControlInv, [Next]_vars
  PROVE  ControlInv'
<1>1. CASE UNCHANGED vars
  BY <1>1, NothingMoves DEF vars, shared, locals, network
<1>2. ASSUME NEW t \in Threads, ConnectStep(t) PROVE ControlInv'
  BY <1>2, ControlCheckConnected, ControlCreateSocket, ControlTryConnect, ControlBeginThread,
     ControlSetConnected DEF ConnectStep
<1> QED BY <1>1, <1>2, ControlMainStep, ControlRecvStep, ControlConnectionEnds DEF Next

THEOREM ControlInvariant == Spec => []ControlInv
<1>1. Init => ControlInv
  BY ControlInit
<1>2. ControlInv /\ [Next]_vars => ControlInv'
  BY ControlStep
<1> QED BY <1>1, <1>2, PTL DEF Spec

\* mRecvBuffer, which has no lock, is used by one receive thread at a time, for any
\* number of connections: a thread that has started another one goes on to close its
\* own socket only (NetClient.cpp:30).
THEOREM BufferHasOneUser == Spec => []OneReceiver
<1>1. ASSUME ControlInv PROVE OneReceiver
  <2> DEFINE R == { t \in RecvThreads : pc[t] \in {"recv", "wait", "loop", "OnReceive"} }
  <2>1. \A x, y \in R : x = y
    BY <1>1, ControlParts DEF Alone, Active
  <2>2. Cardinality(R) <= 1
    <3> HIDE DEF R
    <3> QED BY <2>1, AtMostOne
  <2> QED BY <2>2 DEF OneReceiver
<1> QED BY <1>1, ControlInvariant, PTL

\* No socket is closed twice, a thread waits in recv on a socket that is not closed, and
\* a thread that has ended has closed the socket it received from: also when OnDisconnect
\* has made another mSocket meanwhile (NetClient.cpp:85).
THEOREM SocketsClosedOnce == Spec => []ClosesItsSocket
<1>1. ASSUME ControlInv PROVE ClosesItsSocket
  <2>1. SocketUsed /\ SocketsPast /\ ClosesCounted /\ \A t \in RecvThreads : t \in Threads
    BY <1>1, ControlParts
  <2>2. \A s \in Sockets : closes[s] <= 1
    BY <2>1 DEF ClosesCounted
  <2>3. \A t \in RecvThreads : pc[t] = "wait" => conn[socket[t]] \in {"open", "down"}
    BY <2>1 DEF SocketUsed, Using
  <2>4. \A t \in RecvThreads : pc[t] = "ended" => conn[socket[t]] = "closed"
    BY <2>1 DEF SocketsPast
  <2> QED BY <2>2, <2>3, <2>4 DEF ClosesItsSocket, At
<1> QED BY <1>1, ControlInvariant, PTL

----------------------------------------------------------------------------
(* The types of the data *)

LEMMA PieceAtType ==
  ASSUME NEW s \in Sockets, NEW j \in 1 .. 3 * Len(Replies)
  PROVE  PieceAt(s, j) \in Piece
<1>1. Len(Replies) \in Nat
  BY ClientConstants
<1>2. \A n \in Nat : \A i \in 1 .. 3 * n :
        (i + 2) \div 3 \in 1 .. n /\ ((i + 2) % 3) + 1 \in 1 .. 3
  OBVIOUS
<1>3. (j + 2) \div 3 \in 1 .. Len(Replies) /\ ((j + 2) % 3) + 1 \in 1 .. 3
  BY <1>1, <1>2
<1> QED BY <1>3 DEF PieceAt, Piece

LEMMA AllPiecesType ==
  ASSUME NEW s \in Sockets
  PROVE  /\ AllPieces(s) \in Seq(Piece) /\ Len(AllPieces(s)) = 3 * Len(Replies)
         /\ \A j \in 1 .. 3 * Len(Replies) : AllPieces(s)[j] = PieceAt(s, j)
<1>1. AllPieces(s) = [j \in 1 .. 3 * Len(Replies) |-> PieceAt(s, j)]
  BY DEF AllPieces, PieceAt
<1>2. 3 * Len(Replies) \in Nat
  BY ClientConstants
<1>3. [j \in 1 .. 3 * Len(Replies) |-> PieceAt(s, j)] \in [1 .. 3 * Len(Replies) -> Piece]
  BY PieceAtType
<1>4. \A j \in 1 .. 3 * Len(Replies) : AllPieces(s)[j] = PieceAt(s, j)
  BY <1>1
<1> HIDE DEF AllPieces, PieceAt
<1> QED BY <1>1, <1>2, <1>3, <1>4, FunctionIsSeq

LEMMA NewPacketType ==
  /\ NewPacket \in Packet /\ NewPacket.payload = <<>> /\ NewPacket.mDeserialingSize = 0
  /\ NewPacket.mbSendPrepared = FALSE
<1>1. /\ 0 \in Byte /\ <<>> \in Seq(Byte) /\ Len(<<>>) <= mCapacity /\ 0 \in 0 .. mCapacity
  BY ByteFacts, SerializerConstants
<1>2. NewPacket \in Packet
  BY <1>1, PacketMade DEF NewPacket
<1> QED BY <1>2 DEF NewPacket

\* What << leaves in a packet that was cleared.
LEMMA FilledPacket ==
  ASSUME NEW p \in Packet, p.payload = <<>>, NEW d \in Seq(Byte), Len(d) <= mCapacity
  PROVE  /\ Insert(p, d) \in Packet /\ Insert(p, d).payload = d
         /\ Insert(p, d).mDeserialingSize = p.mDeserialingSize
         /\ Insert(p, d).mbSendPrepared = p.mbSendPrepared
<1>1. <<>> \o d = d
  OBVIOUS
<1>2. Insert(p, d) = [p EXCEPT !.payload = d]
  BY <1>1 DEF Insert
<1>3. Insert(p, d) = [ RandKey |-> p.RandKey, CheckSum |-> p.CheckSum, payload |-> d,
                       mDeserialingSize |-> p.mDeserialingSize,
                       mbSendPrepared |-> p.mbSendPrepared ]
  BY <1>2, PacketFields
<1>4. Insert(p, d) \in Packet
  BY <1>3, PacketFields, PacketMade
<1> QED BY <1>3, <1>4

LEMMA ClearedPacket ==
  ASSUME NEW p \in Packet
  PROVE  /\ Alloc(p) \in Packet /\ Alloc(p).payload = <<>> /\ Alloc(p).mDeserialingSize = 0
         /\ Alloc(p).mbSendPrepared = FALSE
<1>1. <<>> \in Seq(Byte) /\ Len(<<>>) <= mCapacity /\ 0 \in 0 .. mCapacity
  BY SerializerConstants
<1> DEFINE q == [ RandKey |-> p.RandKey, CheckSum |-> p.CheckSum, payload |-> <<>>,
                  mDeserialingSize |-> 0, mbSendPrepared |-> FALSE ]
<1>2. Alloc(p) = q
  <2> DEFINE k == p.RandKey
             c == p.CheckSum
             d == p.payload
             n == p.mDeserialingSize
             b == p.mbSendPrepared
  <2>1. p = [ RandKey |-> k, CheckSum |-> c, payload |-> d, mDeserialingSize |-> n,
              mbSendPrepared |-> b ]
    BY PacketFields
  <2> HIDE DEF k, c, d, n, b
  <2>2. ASSUME NEW v, NEW w, NEW z
        PROVE  [p EXCEPT !.mbSendPrepared = v, !.payload = w, !.mDeserialingSize = z]
                 = [ RandKey |-> k, CheckSum |-> c, payload |-> w,
                     mDeserialingSize |-> z, mbSendPrepared |-> v ]
    <3> DEFINE p1 == [p EXCEPT !.mbSendPrepared = v]
               p2 == [p1 EXCEPT !.payload = w]
               p3 == [p2 EXCEPT !.mDeserialingSize = z]
    <3>1. p1 = [ RandKey |-> k, CheckSum |-> c, payload |-> d,
                 mDeserialingSize |-> n, mbSendPrepared |-> v ]
      BY <2>1
    <3> HIDE DEF p1
    <3>2. p2 = [ RandKey |-> k, CheckSum |-> c, payload |-> w,
                 mDeserialingSize |-> n, mbSendPrepared |-> v ]
      BY <3>1
    <3> HIDE DEF p2
    <3>3. p3 = [ RandKey |-> k, CheckSum |-> c, payload |-> w,
                 mDeserialingSize |-> z, mbSendPrepared |-> v ]
      BY <3>2
    <3>4. [p EXCEPT !.mbSendPrepared = v, !.payload = w, !.mDeserialingSize = z] = p3
      BY DEF p1, p2
    <3> QED BY <3>3, <3>4
  <2> QED BY <2>2 DEF Alloc, Clear, k, c
<1>3. q \in Packet
  BY <1>1, PacketFields, PacketMade
<1> QED BY <1>2, <1>3

\* The server's packet i, as it arrives.
LEMMA ReplyIs ==
  ASSUME NEW i \in 1 .. Len(Replies)
  PROVE  /\ Replies[i].content \in Seq(Byte) /\ Len(Replies[i].content) <= mCapacity
         /\ checkSumRight(Reply(i)) /\ decoded(Reply(i)) \in Packet
         /\ decoded(Reply(i)).payload = Replies[i].content
         /\ decoded(Reply(i)).mDeserialingSize = 0
<1>1. /\ Replies[i].content \in Seq(Byte) /\ Replies[i].rand \in Byte
      /\ Len(Replies[i].content) <= mCapacity
  <2>1. Replies \in Seq([content : Seq(Byte), rand : Byte])
    BY ClientConstants
  <2>2. i \in DOMAIN Replies /\ Replies[i] \in [content : Seq(Byte), rand : Byte]
    BY <2>1, ElementOf
  <2>3. Len(Replies[i].content) <= mCapacity
    BY <2>2, ClientConstants
  <2>4. Replies[i].content \in Seq(Byte) /\ Replies[i].rand \in Byte
    BY <2>2
  <2> QED BY <2>3, <2>4
<1> DEFINE p == Insert(NewPacket, Replies[i].content)
<1>2. p \in Packet /\ p.payload = Replies[i].content /\ p.mDeserialingSize = 0
  BY <1>1, NewPacketType, FilledPacket
<1> HIDE DEF p
<1>3. Reply(i) = prepareSend(p, Replies[i].rand)
  BY DEF Reply, p
<1> QED BY <1>1, <1>2, <1>3, PreparedPacket

dataVars == <<mSendErrorCode, leftover, filled, crashed, calls, mRecvBuffer, mRear, pending, packet,
              values, delivered, content, requests>>

LEMMA DataInit == Init => DataTypes
<1> SUFFICES ASSUME Init PROVE DataTypes
  OBVIOUS
<1>1. /\ mSendErrorCode \in BOOLEAN /\ leftover \in BOOLEAN /\ filled \in BOOLEAN
      /\ crashed \in BOOLEAN /\ calls \in 0 .. MaxCalls
  <2>1. mSendErrorCode = FALSE /\ leftover = FALSE /\ filled = FALSE /\ crashed = FALSE
    BY DEF Init
  <2>2. calls = 0 /\ MaxCalls \in Nat
    BY ClientConstants DEF Init
  <2>3. calls \in 0 .. MaxCalls
    BY <2>2
  <2> QED BY <2>1, <2>3
<1>2. mRecvBuffer \in Seq(Piece) /\ pending \in [Sockets -> Seq(Piece)] /\ BufferTypes
  BY ClientConstants DEF Init, BufferTypes
<1>3. /\ packet \in [Threads -> Packet]
      /\ \A t \in Threads : packet[t].mDeserialingSize <= Len(packet[t].payload)
  <2>1. packet = [t \in Threads |-> NewPacket]
    BY DEF Init
  <2>2. NewPacket \in Packet /\ NewPacket.mDeserialingSize <= Len(NewPacket.payload)
    BY NewPacketType
  <2> QED BY <2>1, <2>2
<1>4. values \in [RecvThreads -> Seq(Byte)] /\ delivered \in [RecvThreads -> Seq(Seq(Byte))]
  BY DEF Init
<1>5. content \in Seq(Byte)
      /\ requests \in [Sockets -> Seq([sent : Packet, content : Seq(Byte)])]
  BY DEF Init
<1> QED BY <1>1, <1>2, <1>3, <1>4, <1>5 DEF DataTypes

LEMMA DataStays ==
  ASSUME DataTypes, UNCHANGED dataVars
  PROVE  DataTypes'
BY DEF DataTypes, BufferTypes, dataVars

\* A thread's packet replaced by another one.
LEMMA PacketReplaced ==
  ASSUME DataTypes, NEW t \in Threads, NEW p \in Packet, p.mDeserialingSize <= Len(p.payload),
         packet' = [packet EXCEPT ![t] = p]
  PROVE  /\ packet' \in [Threads -> Packet] /\ packet'[t] = p
         /\ \A u \in Threads : u # t => packet'[u] = packet[u]
         /\ \A u \in Threads : packet'[u].mDeserialingSize <= Len(packet'[u].payload)
<1>1. /\ packet \in [Threads -> Packet]
      /\ \A u \in Threads : packet[u].mDeserialingSize <= Len(packet[u].payload)
  BY DEF DataTypes
<1>2. packet'[t] = p /\ \A u \in Threads : u # t => packet'[u] = packet[u]
  BY <1>1
<1>3. packet' \in [Threads -> Packet]
  BY <1>1
<1>4. \A u \in Threads : packet'[u].mDeserialingSize <= Len(packet'[u].payload)
  BY <1>1, <1>2
<1> QED BY <1>2, <1>3, <1>4

LEMMA DataConnectStep ==
  ASSUME ControlInv, DataTypes, NEW t \in Threads, ConnectStep(t)
  PROVE  DataTypes'
<1>1. ASSUME CheckConnected(t) \/ CreateSocket(t) \/ BeginThread(t) \/ SetConnected(t)
      PROVE  DataTypes'
  <2>1. UNCHANGED dataVars
    BY <1>1 DEF CheckConnected, CreateSocket, BeginThread, SetConnected, shared, locals, network,
                history, dataVars
  <2> QED BY <2>1, DataStays
<1>2. ASSUME TryConnect(t) PROVE DataTypes'
  <2>1. UNCHANGED <<mSendErrorCode, leftover, filled, crashed, calls, mRecvBuffer, mRear, packet,
                    values, delivered, content, requests>>
        /\ (UNCHANGED pending \/ pending' = [pending EXCEPT ![mSocket] = AllPieces(mSocket)])
    BY <1>2 DEF TryConnect, shared, locals, history
  <2>2. mSocket \in Sockets
    BY <1>2, SocketThere DEF TryConnect, At
  <2>3. AllPieces(mSocket) \in Seq(Piece)
    BY <2>2, AllPiecesType
  <2>4. pending' \in [Sockets -> Seq(Piece)]
    <3>1. pending \in [Sockets -> Seq(Piece)]
      BY DEF DataTypes
    <3> HIDE DEF Piece, AllPieces
    <3> QED BY <2>1, <2>3, <3>1
  <2> QED BY <2>1, <2>4 DEF DataTypes, BufferTypes
<1> QED BY <1>1, <1>2 DEF ConnectStep

\* The packet and the content after NewRequest and after SendPacket.
LEMMA RequestPacket ==
  ASSUME DataTypes, ControlInv, NEW c \in Contents, NewRequest(c)
  PROVE  LET p == Insert(Alloc(packet[Main]), c)
         IN  /\ p \in Packet /\ p.mDeserialingSize <= Len(p.payload)
             /\ p.payload = c /\ p.mbSendPrepared = FALSE
             /\ packet' = [packet EXCEPT ![Main] = p]
             /\ c \in Seq(Byte) /\ content' = c
<1> DEFINE q == Alloc(packet[Main])
<1>1. packet \in [Threads -> Packet] /\ Main \in Threads
  BY ControlParts DEF DataTypes
<1>2. packet[Main] \in Packet
  BY <1>1
<1>3. q \in Packet /\ q.payload = <<>> /\ q.mDeserialingSize = 0 /\ q.mbSendPrepared = FALSE
  BY <1>2, ClearedPacket
<1>4. c \in Seq(Byte)
  BY ClientConstants
<1>5. packet' = [packet EXCEPT ![Main] = Insert(q, c)] /\ content' = c
      /\ CanInsert(q, c)
  BY DEF NewRequest
<1> HIDE DEF q
<1>6. Len(c) <= mCapacity
  <2>1. mCapacity - Len(q.payload) >= Len(c)
    BY <1>5 DEF CanInsert, GetFreeSize, GetUseSize
  <2>2. Len(q.payload) = 0 /\ mCapacity \in Nat /\ Len(c) \in Nat
    BY <1>3, <1>4, SerializerConstants
  <2> QED BY <2>1, <2>2
<1> DEFINE p == Insert(q, c)
<1>7. /\ p \in Packet /\ p.payload = c /\ p.mDeserialingSize = 0 /\ p.mbSendPrepared = FALSE
  BY <1>3, <1>4, <1>6, FilledPacket
<1> HIDE DEF p
<1>8. p.mDeserialingSize <= Len(p.payload)
  BY <1>4, <1>7
<1>9. packet' = [packet EXCEPT ![Main] = p]
  BY <1>5 DEF p
<1> QED BY <1>4, <1>5, <1>7, <1>8, <1>9 DEF p, q

LEMMA SentPacket ==
  ASSUME DataTypes, ControlInv, NEW rand \in RandKeys, SendPacket(rand)
  PROVE  LET q == packet[Main]
             p == Prepared(q, rand)
         IN  /\ p \in Packet /\ p.mDeserialingSize <= Len(p.payload)
             /\ packet' = [packet EXCEPT ![Main] = p] /\ p.mbSendPrepared
             /\ q.mbSendPrepared => p = q
             /\ ~q.mbSendPrepared => checkSumRight(p) /\ decoded(p).payload = q.payload
<1> DEFINE q == packet[Main]
           p == Prepared(q, rand)
<1>1. packet \in [Threads -> Packet] /\ Main \in Threads /\ rand \in Byte
      /\ \A t \in Threads : packet[t].mDeserialingSize <= Len(packet[t].payload)
  BY ControlParts, ClientConstants DEF DataTypes
<1>2. q \in Packet /\ q.mDeserialingSize <= Len(q.payload)
  BY <1>1
<1>3. packet' = [packet EXCEPT ![Main] = p]
  BY DEF SendPacket
<1> HIDE DEF q
<1>4. CASE q.mbSendPrepared
  <2>1. p = q
    BY <1>4 DEF Prepared
  <2> HIDE DEF p
  <2> QED BY <1>2, <1>3, <1>4, <2>1 DEF p, q
<1>5. CASE ~q.mbSendPrepared
  <2>1. p = prepareSend(q, rand)
    BY <1>5 DEF Prepared
  <2> HIDE DEF p
  <2>2. /\ p \in Packet /\ p.mbSendPrepared /\ p.mDeserialingSize = q.mDeserialingSize
        /\ Len(p.payload) = Len(q.payload) /\ checkSumRight(p) /\ decoded(p).payload = q.payload
    BY <1>1, <1>2, <2>1, PreparedPacket
  <2>3. p.mDeserialingSize <= Len(p.payload)
    BY <1>2, <2>2
  <2> QED BY <1>3, <1>5, <2>2, <2>3 DEF p, q
<1> QED BY <1>4, <1>5

LEMMA DataMainStep ==
  ASSUME ControlInv, DataTypes, MainStep
  PROVE  DataTypes'
<1>1. Main \in Threads
  BY ControlParts
<1>2. ASSUME NEW c \in Contents, NewRequest(c) PROVE DataTypes'
  <2> DEFINE p == Insert(Alloc(packet[Main]), c)
  <2>1. /\ p \in Packet /\ p.mDeserialingSize <= Len(p.payload)
        /\ packet' = [packet EXCEPT ![Main] = p] /\ content' \in Seq(Byte)
    BY <1>2, RequestPacket
  <2> HIDE DEF p
  <2>2. /\ packet' \in [Threads -> Packet]
        /\ \A u \in Threads : packet'[u].mDeserialingSize <= Len(packet'[u].payload)
    BY <1>1, <2>1, PacketReplaced
  <2>3. UNCHANGED <<mSendErrorCode, leftover, filled, crashed, calls, mRecvBuffer, mRear, pending,
                    values, delivered, requests>>
    BY <1>2 DEF NewRequest, shared, network
  <2> QED BY <2>1, <2>2, <2>3 DEF DataTypes, BufferTypes
<1>3. ASSUME NEW rand \in RandKeys, SendPacket(rand) PROVE DataTypes'
  <2> DEFINE p == Prepared(packet[Main], rand)
  <2>1. /\ p \in Packet /\ p.mDeserialingSize <= Len(p.payload)
        /\ packet' = [packet EXCEPT ![Main] = p]
    BY <1>3, SentPacket
  <2> HIDE DEF p
  <2>2. /\ packet' \in [Threads -> Packet]
        /\ \A u \in Threads : packet'[u].mDeserialingSize <= Len(packet'[u].payload)
    BY <1>1, <2>1, PacketReplaced
  <2>3. UNCHANGED <<mSendErrorCode, leftover, filled, crashed, mRecvBuffer, mRear, pending,
                    values, delivered, content, requests>> /\ calls < MaxCalls /\ calls' = calls + 1
    BY <1>3 DEF SendPacket, shared, network
  <2>4. calls' \in 0 .. MaxCalls
    BY <2>3, ClientConstants DEF DataTypes
  <2> QED BY <2>2, <2>3, <2>4 DEF DataTypes, BufferTypes
<1>4. ASSUME Send PROVE DataTypes'
  <2>1. UNCHANGED <<leftover, filled, crashed, calls, mRecvBuffer, mRear, pending, packet,
                    values, delivered, content>> /\ mSendErrorCode' \in BOOLEAN
    BY <1>4 DEF Send, locals, history, DataTypes
  <2>2. mSocket \in Sockets
    BY <1>1, <1>4, SocketThere DEF Send, At
  <2> DEFINE r == [sent |-> packet[Main], content |-> content]
             R == [sent : Packet, content : Seq(Byte)]
  <2>3. requests' = requests \/ requests' = [requests EXCEPT ![mSocket] = Append(@, r)]
    BY <1>4 DEF Send
  <2>4. r \in R
    BY <1>1 DEF DataTypes
  <2>5. requests \in [Sockets -> Seq(R)]
    BY DEF DataTypes
  <2> HIDE DEF r, R
  <2>6. requests' \in [Sockets -> Seq(R)]
    <3>1. Append(requests[mSocket], r) \in Seq(R)
      BY <2>2, <2>4, <2>5
    <3> QED BY <2>3, <2>5, <3>1
  <2> QED BY <2>1, <2>6 DEF DataTypes, BufferTypes, R
<1>5. ASSUME Disconnect PROVE DataTypes'
  <2>1. UNCHANGED <<mSendErrorCode, leftover, filled, crashed, mRecvBuffer, mRear, pending, packet, values,
                    delivered, content, requests>> /\ calls < MaxCalls /\ calls' = calls + 1
    BY <1>5 DEF Disconnect, shared, locals, network
  <2>2. calls' \in 0 .. MaxCalls
    BY <2>1, ClientConstants DEF DataTypes
  <2> QED BY <2>1, <2>2 DEF DataTypes, BufferTypes
<1>6. ASSUME ClearConnected \/ Shutdown PROVE DataTypes'
  <2>1. UNCHANGED dataVars
    BY <1>6 DEF ClearConnected, Shutdown, shared, locals, network, history, dataVars
  <2> QED BY <2>1, DataStays
<1> QED BY <1>2, <1>3, <1>4, <1>5, <1>6 DEF MainStep

\* One byte read from a packet that has one.
LEMMA ReadByte ==
  ASSUME NEW p \in Packet, p.mDeserialingSize <= Len(p.payload), CanGet(p, 1)
  PROVE  LET q == AfterGet(p, 1)
         IN  /\ q \in Packet /\ q.mDeserialingSize = p.mDeserialingSize + 1
             /\ q.payload = p.payload /\ q.mDeserialingSize <= Len(q.payload)
             /\ p.mDeserialingSize + 1 \in 1 .. Len(p.payload)
             /\ Got(p, 1) \in Seq(Byte) /\ Len(Got(p, 1)) = 1
             /\ Got(p, 1)[1] = p.payload[p.mDeserialingSize + 1]
<1> DEFINE k == p.RandKey
           c == p.CheckSum
           d == p.payload
           n == p.mDeserialingSize
           b == p.mbSendPrepared
<1>1. /\ k \in Byte /\ c \in Byte /\ d \in Seq(Byte) /\ Len(d) <= mCapacity
      /\ n \in 0 .. mCapacity /\ b \in BOOLEAN
      /\ p = [ RandKey |-> k, CheckSum |-> c, payload |-> d, mDeserialingSize |-> n,
               mbSendPrepared |-> b ]
  BY PacketFields
<1>2. n + 1 <= Len(d) /\ Got(p, 1) = SubSeq(d, n + 1, n + 1)
      /\ AfterGet(p, 1) = [p EXCEPT !.mDeserialingSize = n + 1]
  BY DEF CanGet, Got, AfterGet, GetUseSize
<1> HIDE DEF k, c, d, n, b
<1> DEFINE q == [ RandKey |-> k, CheckSum |-> c, payload |-> d, mDeserialingSize |-> n + 1,
                  mbSendPrepared |-> b ]
<1>3. AfterGet(p, 1) = q
  BY <1>1, <1>2
<1>4. n + 1 \in 0 .. mCapacity /\ n + 1 \in 1 .. Len(d) /\ n \in Nat
  <2>1. Len(d) \in Nat /\ mCapacity \in Nat /\ Len(d) <= mCapacity
    BY <1>1, SerializerConstants
  <2>2. n \in Nat /\ n + 1 <= Len(d)
    BY <1>1, <1>2, <2>1
  <2> QED BY <2>1, <2>2
<1>5. q \in Packet
  BY <1>1, <1>4, PacketMade
<1>6. /\ SubSeq(d, n + 1, n + 1) \in Seq(Byte) /\ Len(SubSeq(d, n + 1, n + 1)) = 1
      /\ SubSeq(d, n + 1, n + 1)[1] = d[n + 1]
  <2>1. /\ d \in Seq(Byte) /\ n + 1 \in 1 .. Len(d) + 1 /\ n + 1 \in (n + 1) - 1 .. Len(d)
        /\ (n + 1) + 1 - (n + 1) = 1 /\ (n + 1) - 1 + 1 = n + 1 /\ 1 \in 1 .. 1
    BY <1>1, <1>4
  <2>2. /\ SubSeq(d, n + 1, n + 1) \in Seq(Byte)
        /\ Len(SubSeq(d, n + 1, n + 1)) = (n + 1) + 1 - (n + 1)
        /\ \A i \in 1 .. (n + 1) + 1 - (n + 1) :
             SubSeq(d, n + 1, n + 1)[i] = d[(n + 1) - 1 + i]
    BY <2>1, PartOf
  <2> QED BY <2>1, <2>2
<1>7. q.mDeserialingSize = n + 1 /\ q.payload = d
  OBVIOUS
<1> HIDE DEF q
<1> QED BY <1>2, <1>3, <1>4, <1>5, <1>6, <1>7 DEF d, n

\* What TakePacket does, by whether the pieces it takes are a packet of one connection.
LEMMA TakeCases ==
  ASSUME DataTypes, NEW t \in RecvThreads, At(t, "loop"), Len(mRecvBuffer) >= 2,
         NEW h \in PeekHeader, TakePacket(t, h), ~crashed'
  PROVE  \E n \in 2 .. Len(mRecvBuffer), p \in Packet :
           /\ h.pieces = n
           /\ p.mDeserialingSize = 0 /\ packet' = [packet EXCEPT ![t] = p]
           /\ mRecvBuffer' = SubSeq(mRecvBuffer, n + 1, Len(mRecvBuffer))
           /\ Goto(t, "OnReceive")
           /\ SubSeq(mRecvBuffer, 1, n) = Pieces(mRecvBuffer[1][1], mRecvBuffer[1][2])
                => p.payload = Replies[mRecvBuffer[1][2]].content
           /\ UNCHANGED <<mSocket, mbIsConnected, mSendErrorCode, mRear, socket, values, network,
                            history>>
<1>1. /\ mRecvBuffer \in Seq(Piece) /\ Len(mRecvBuffer) \in Nat
      /\ Len(mRecvBuffer) >= 2 /\ Len(mRecvBuffer) >= h.pieces
  BY DEF DataTypes, TakePacket, PayloadThere
<1>2. h.pieces \in 2 .. BufferSize /\ BufferSize \in Nat
  BY ClientConstants DEF PeekHeader
<1> DEFINE n == h.pieces
           taken == SubSeq(mRecvBuffer, 1, n)
           i == Head(taken)[2]
           Whole == taken = Pieces(Head(taken)[1], i)
<1>3. n \in 2 .. Len(mRecvBuffer) /\ n \in Nat
  BY <1>1, <1>2
<1> HIDE DEF n
<1>4. Head(taken) = mRecvBuffer[1] /\ mRecvBuffer[1] \in Piece
  BY <1>1, <1>3
<1>5. i \in 1 .. Len(Replies) /\ i = mRecvBuffer[1][2]
  BY <1>4 DEF Piece
<1>6. (IF Len(mRecvBuffer) < n THEN Len(mRecvBuffer) ELSE n) = n
  BY <1>3
<1>7. \/ /\ IF Whole
            THEN /\ checkSumRight(Reply(i))
                 /\ packet' = [packet EXCEPT ![t] = [decoded(Reply(i)) EXCEPT !.mbSendPrepared = FALSE]]
            ELSE packet' = [packet EXCEPT ![t] = NewPacket]
         /\ mRecvBuffer' = SubSeq(mRecvBuffer, n + 1, Len(mRecvBuffer))
         /\ Goto(t, "OnReceive")
         /\ UNCHANGED <<mSocket, mbIsConnected, mSendErrorCode, mRear, socket, values, network,
                            history>>
      \/ (Whole => ~checkSumRight(Reply(i))) /\ Crash(t)
  BY <1>6 DEF TakePacket, n
<1>8. ~Crash(t)
  BY DEF Crash
<1> DEFINE q == decoded(Reply(i))
           p == IF Whole THEN [q EXCEPT !.mbSendPrepared = FALSE] ELSE NewPacket
<1>9. p \in Packet /\ p.mDeserialingSize = 0 /\ (Whole => p.payload = Replies[i].content)
  <2>1. q \in Packet /\ q.payload = Replies[i].content /\ q.mDeserialingSize = 0
    BY <1>5, ReplyIs
  <2>2. NewPacket \in Packet /\ NewPacket.mDeserialingSize = 0
    BY NewPacketType
  <2> HIDE DEF q, Whole
  <2> DEFINE k == q.RandKey
             c == q.CheckSum
             d == q.payload
             b == q.mbSendPrepared
  <2>3. /\ k \in Byte /\ c \in Byte /\ d \in Seq(Byte) /\ Len(d) <= mCapacity
        /\ 0 \in 0 .. mCapacity
        /\ q = [ RandKey |-> k, CheckSum |-> c, payload |-> d, mDeserialingSize |-> 0,
                 mbSendPrepared |-> b ]
    BY <2>1, PacketFields
  <2> HIDE DEF k, c, d, b
  <2>4. \A v : [q EXCEPT !.mbSendPrepared = v]
                 = [ RandKey |-> k, CheckSum |-> c, payload |-> d, mDeserialingSize |-> 0,
                     mbSendPrepared |-> v ]
    <3> TAKE v
    <3> QED BY <2>3
  <2> DEFINE r == [ RandKey |-> k, CheckSum |-> c, payload |-> d, mDeserialingSize |-> 0,
                    mbSendPrepared |-> FALSE ]
  <2>5. r \in Packet
    BY <2>3, PacketMade
  <2>6. r.mDeserialingSize = 0 /\ r.payload = d
    OBVIOUS
  <2>7. [q EXCEPT !.mbSendPrepared = FALSE] = r
    BY <2>4
  <2> HIDE DEF r
  <2>8. d = Replies[i].content
    BY <2>1 DEF d
  <2> QED BY <2>2, <2>5, <2>6, <2>7, <2>8
<1>10. packet' = [packet EXCEPT ![t] = p]
  BY <1>7, <1>8
<1>11. mRecvBuffer' = SubSeq(mRecvBuffer, n + 1, Len(mRecvBuffer)) /\ Goto(t, "OnReceive")
       /\ UNCHANGED <<mSocket, mbIsConnected, mSendErrorCode, mRear, socket, values, network,
                            history>>
  BY <1>7, <1>8
<1>12. SubSeq(mRecvBuffer, 1, n) = Pieces(mRecvBuffer[1][1], mRecvBuffer[1][2])
         => p.payload = Replies[mRecvBuffer[1][2]].content
  BY <1>4, <1>5, <1>9
<1> HIDE DEF p
<1> QED BY <1>3, <1>9, <1>10, <1>11, <1>12 DEF n

LEMMA DataRecvStep ==
  ASSUME ControlInv, DataTypes, NEW t \in RecvThreads, ~crashed, RecvStep(t)
  PROVE  DataTypes'
<1>0. t \in Threads
  BY ControlParts
<1>1. ASSUME Recv(t) \/ LoseConnection(t) \/ CloseSocket(t) \/ HeaderIncomplete(t)
      PROVE  DataTypes'
  <2>1. UNCHANGED dataVars
    BY <1>1 DEF Recv, LoseConnection, CloseSocket, HeaderIncomplete, shared, locals, network,
                history, dataVars
  <2> QED BY <2>1, DataStays
<1>2. ASSUME NEW n \in 1 .. 3 * Len(Replies), RecvReturns(t, n) PROVE DataTypes'
  <2> DEFINE arrived == pending[socket[t]]
  <2> DEFINE bytes == mRecvBuffer \o SubSeq(arrived, 1, n)
  <2>1. /\ n \in DOMAIN arrived /\ n <= GetDirectEnqueueSize
        /\ mRecvBuffer' = IF Len(bytes) = BufferSize THEN <<>> ELSE bytes
        /\ mRear' = (mRear + n) % BufferSize
        /\ filled' = (filled \/ Len(bytes) = BufferSize)
        /\ pending' = [pending EXCEPT ![socket[t]] = SubSeq(arrived, n + 1, Len(arrived))]
        /\ UNCHANGED <<mSendErrorCode, leftover, crashed, calls, packet, values,
                       delivered, content, requests>>
    BY <1>2 DEF RecvReturns, locals
  <2>2. socket[t] \in Sockets
    BY <1>0, <1>2, ControlParts, SocketThere DEF RecvReturns, At, SocketUsed
  <2>3. arrived \in Seq(Piece) /\ mRecvBuffer \in Seq(Piece) /\ pending \in [Sockets -> Seq(Piece)]
        /\ filled \in BOOLEAN /\ BufferTypes
    BY <2>2 DEF DataTypes
  <2> HIDE DEF arrived, Piece
  <2>4. SubSeq(arrived, 1, n) \in Seq(Piece) /\ SubSeq(arrived, n + 1, Len(arrived)) \in Seq(Piece)
    BY <2>1, <2>3
  <2>5. /\ bytes \in Seq(Piece) /\ Len(bytes) = Len(mRecvBuffer) + n
    <3> DEFINE part == SubSeq(arrived, 1, n)
    <3>1. part \in Seq(Piece) /\ Len(part) = n
      <4>1. /\ 1 \in 1 .. Len(arrived) + 1 /\ n \in 1 - 1 .. Len(arrived)
            /\ n + 1 - 1 = n
        BY <2>1, <2>3
      <4> QED BY <2>3, <4>1, PartOf
    <3>2. bytes = mRecvBuffer \o part
      OBVIOUS
    <3> HIDE DEF part, bytes
    <3>3. mRecvBuffer \o part \in Seq(Piece)
          /\ Len(mRecvBuffer \o part) = Len(mRecvBuffer) + Len(part)
      BY <2>3, <3>1, Concatenated
    <3> QED BY <3>1, <3>2, <3>3
  <2> HIDE DEF bytes
  <2>6. pending' \in [Sockets -> Seq(Piece)]
    <3> DEFINE part == SubSeq(arrived, n + 1, Len(arrived))
    <3>1. part \in Seq(Piece) /\ pending' = [pending EXCEPT ![socket[t]] = part]
      BY <2>1, <2>4
    <3> HIDE DEF part
    <3> QED BY <2>3, <3>1
  <2>7. BufferTypes'
    <3> DEFINE L == Len(mRecvBuffer)
    <3>1. /\ L \in Nat /\ L < BufferSize /\ mRear \in 0 .. BufferSize - 1
          /\ BufferSize \in Nat /\ BufferSize > 3 /\ n \in Nat
      BY <2>3, ClientConstants DEF BufferTypes
    <3>2. n <= (IF mRear > L THEN BufferSize - mRear ELSE BufferSize - L)
      BY <2>1 DEF GetDirectEnqueueSize
    <3> HIDE DEF L
    <3>3. L + n <= BufferSize
      BY <3>1, <3>2
    <3>4. (mRear + n) % BufferSize \in 0 .. BufferSize - 1
      BY <3>1
    <3>5. Len(mRecvBuffer') < BufferSize
      <4>1. CASE Len(bytes) = BufferSize
        BY <2>1, <3>1, <4>1
      <4>2. CASE Len(bytes) # BufferSize
        BY <2>1, <2>5, <3>1, <3>3, <4>2 DEF L
      <4> QED BY <4>1, <4>2
    <3> QED BY <2>1, <3>4, <3>5 DEF BufferTypes
  <2>8. mRecvBuffer' \in Seq(Piece) /\ filled' \in BOOLEAN
    BY <2>1, <2>3, <2>5
  <2> QED BY <2>1, <2>6, <2>7, <2>8 DEF DataTypes
<1>3. ASSUME RecvFails(t) PROVE DataTypes'
  <2>1. UNCHANGED <<mSendErrorCode, filled, crashed, calls, mRecvBuffer, mRear, pending, packet,
                    values, delivered, content, requests>> /\ leftover' \in BOOLEAN
    BY <1>3 DEF RecvFails, shared, network, DataTypes
  <2> QED BY <2>1 DEF DataTypes, BufferTypes
<1>4. ASSUME LoopStep(t) PROVE DataTypes'
  <2>1. PICK h \in PeekHeader : CodeIsWrong(t, h) \/ PayloadIncomplete(t, h) \/ TakePacket(t, h)
    BY <1>4 DEF LoopStep
  <2>2. ASSUME Crash(t) PROVE DataTypes'
    <3>1. UNCHANGED <<mSendErrorCode, leftover, filled, calls, mRecvBuffer, mRear, pending, packet,
                      values, delivered, content, requests>> /\ crashed' \in BOOLEAN
      BY <2>2 DEF Crash, shared, locals, network
    <3> QED BY <3>1 DEF DataTypes, BufferTypes
  <2>3. ASSUME PayloadIncomplete(t, h), ~Crash(t) PROVE DataTypes'
    <3>1. UNCHANGED dataVars
      BY <2>3 DEF PayloadIncomplete, shared, locals, network, history, dataVars
    <3> QED BY <3>1, DataStays
  <2>4. ASSUME TakePacket(t, h), ~Crash(t) PROVE DataTypes'
    <3>1. ~crashed'
      BY <2>4 DEF TakePacket, history
    <3>2. PICK n \in 2 .. Len(mRecvBuffer), p \in Packet :
            /\ p.mDeserialingSize = 0 /\ packet' = [packet EXCEPT ![t] = p]
            /\ mRecvBuffer' = SubSeq(mRecvBuffer, n + 1, Len(mRecvBuffer))
            /\ UNCHANGED <<mSocket, mbIsConnected, mSendErrorCode, mRear, socket, values, network,
                           history>>
      BY <1>4, <2>4, <3>1, TakeCases DEF LoopStep
    <3>3. p.mDeserialingSize <= Len(p.payload)
      BY <3>2, PacketFields
    <3>4. /\ packet' \in [Threads -> Packet]
          /\ \A u \in Threads : packet'[u].mDeserialingSize <= Len(packet'[u].payload)
      BY <1>0, <3>2, <3>3, PacketReplaced
    <3>5. mRecvBuffer' \in Seq(Piece)
      BY <3>2 DEF DataTypes
    <3>6. UNCHANGED <<mSendErrorCode, leftover, filled, crashed, calls, mRear, pending, values,
                      delivered, content, requests>>
      BY <3>2 DEF network, history
    <3>7. BufferTypes'
      <4>1. Len(mRecvBuffer') <= Len(mRecvBuffer)
        <5>1. n \in 1 .. Len(mRecvBuffer) /\ mRecvBuffer \in Seq(Piece)
          BY <3>2 DEF DataTypes
        <5> HIDE DEF Piece
        <5> QED BY <3>2, <5>1
      <4>2. Len(mRecvBuffer) \in Nat /\ Len(mRecvBuffer') \in Nat
        BY <3>5 DEF DataTypes
      <4> QED BY <3>6, <4>1, <4>2, ClientConstants DEF DataTypes, BufferTypes
    <3> QED BY <3>4, <3>5, <3>6, <3>7 DEF DataTypes
  <2> QED BY <2>1, <2>2, <2>3, <2>4 DEF CodeIsWrong
<1>5. ASSUME OnReceive(t) PROVE DataTypes'
  <2>1. UNCHANGED <<mSendErrorCode, leftover, filled, crashed, calls, mRecvBuffer, mRear, pending,
                    content, requests>>
    BY <1>5 DEF OnReceive, shared, network
  <2>2. /\ packet[t] \in Packet /\ packet[t].mDeserialingSize <= Len(packet[t].payload)
        /\ values \in [RecvThreads -> Seq(Byte)] /\ values[t] \in Seq(Byte)
        /\ delivered \in [RecvThreads -> Seq(Seq(Byte))] /\ delivered[t] \in Seq(Seq(Byte))
    BY <1>0 DEF DataTypes
  <2>3. CASE CanGet(packet[t], 1)
    <3> DEFINE p == AfterGet(packet[t], 1)
               g == Got(packet[t], 1)
    <3>1. values' = [values EXCEPT ![t] = @ \o g] /\ packet' = [packet EXCEPT ![t] = p]
          /\ UNCHANGED delivered
      BY <1>5, <2>3 DEF OnReceive
    <3>2. p \in Packet /\ p.mDeserialingSize <= Len(p.payload) /\ g \in Seq(Byte)
      BY <2>2, <2>3, ReadByte
    <3> HIDE DEF p, g
    <3>3. values[t] \o g \in Seq(Byte)
      BY <2>2, <3>2
    <3>4. values' \in [RecvThreads -> Seq(Byte)]
      BY <2>2, <3>1, <3>3
    <3>5. /\ packet' \in [Threads -> Packet]
          /\ \A u \in Threads : packet'[u].mDeserialingSize <= Len(packet'[u].payload)
      BY <1>0, <3>1, <3>2, PacketReplaced
    <3> QED BY <2>1, <3>1, <3>4, <3>5 DEF DataTypes, BufferTypes
  <2>4. CASE ~CanGet(packet[t], 1)
    <3>1. values' = [values EXCEPT ![t] = <<>>] /\ UNCHANGED packet
          /\ delivered' = [delivered EXCEPT ![t] = Append(@, values[t])]
      BY <1>5, <2>4 DEF OnReceive
    <3>2. values' \in [RecvThreads -> Seq(Byte)]
      BY <2>2, <3>1
    <3>3. Append(delivered[t], values[t]) \in Seq(Seq(Byte))
      BY <2>2
    <3>4. delivered' \in [RecvThreads -> Seq(Seq(Byte))]
      BY <2>2, <3>1, <3>3
    <3> QED BY <2>1, <3>1, <3>2, <3>4 DEF DataTypes, BufferTypes
  <2> QED BY <2>3, <2>4
<1> QED BY <1>1, <1>2, <1>3, <1>4, <1>5 DEF RecvStep

LEMMA DataStep ==
  ASSUME ControlInv, DataTypes, [Next]_vars
  PROVE  DataTypes'
<1>1. CASE UNCHANGED vars
  <2>1. UNCHANGED dataVars
    BY <1>1 DEF vars, shared, locals, network, history, dataVars
  <2> QED BY <2>1, DataStays
<1>2. ASSUME NEW s \in Sockets, ConnectionEnds(s) PROVE DataTypes'
  <2>1. UNCHANGED dataVars
    BY <1>2 DEF ConnectionEnds, shared, locals, history, dataVars
  <2> QED BY <2>1, DataStays
<1> QED BY <1>1, <1>2, DataConnectStep, DataMainStep, DataRecvStep DEF Next

\* Every variable keeps to its values: packets are packets, whatever is read into them,
\* and no deserialising position passes the end of a payload.
THEOREM ClientTyped == Spec => []TypeOK
<1>1. Init => ControlInv /\ DataTypes
  BY ControlInit, DataInit
<1>2. ControlInv /\ DataTypes /\ [Next]_vars => ControlInv' /\ DataTypes'
  BY ControlStep, DataStep
<1>3. ASSUME ControlInv, DataTypes PROVE TypeOK
  <2>1. /\ mSocket \in Sockets \cup {NoSocket} /\ mbIsConnected \in BOOLEAN
        /\ socket \in [Threads -> Sockets \cup {NoSocket}]
        /\ conn \in [Sockets -> {"none", "made", "open", "down", "closed"}]
    BY <1>3, ControlParts DEF ControlTypes
  <2>2. /\ mSendErrorCode \in BOOLEAN /\ leftover \in BOOLEAN /\ filled \in BOOLEAN
        /\ crashed \in BOOLEAN /\ calls \in 0 .. MaxCalls
        /\ Len(mRecvBuffer) < BufferSize /\ mRear \in 0 .. BufferSize - 1
    BY <1>3 DEF DataTypes, BufferTypes
  <2>3. \A t \in Threads : /\ packet[t] \in Packet
                           /\ packet[t].mDeserialingSize <= GetUseSize(packet[t])
    BY <1>3 DEF DataTypes, GetUseSize
  <2> QED BY <2>1, <2>2, <2>3 DEF TypeOK
<1> QED BY <1>1, <1>2, <1>3, PTL DEF Spec

----------------------------------------------------------------------------
(* The packets that are sent *)

LEMMA WireInit == Init => WireInv
<1> SUFFICES ASSUME Init PROVE WireInv
  OBVIOUS
<1>1. packet[Main] = NewPacket /\ content = <<>> /\ pc[Main] = "check"
  BY Names DEF Init
<1>2. NewPacket.mbSendPrepared = FALSE /\ NewPacket.payload = <<>>
  BY NewPacketType
<1>3. \A s \in Sockets : requests[s] = <<>>
  BY DEF Init
<1>4. WireDecodes
  BY <1>3 DEF WireDecodes
<1> QED BY <1>1, <1>2, <1>4 DEF WireInv

LEMMA WireStays ==
  ASSUME WireInv, UNCHANGED <<requests, content>>, packet'[Main] = packet[Main],
         pc'[Main] = "send" => pc[Main] = "send"
  PROVE  WireInv'
<1>1. WireDecodes'
  BY DEF WireInv, WireDecodes
<1> QED BY <1>1 DEF WireInv

LEMMA WireMainStep ==
  ASSUME ControlInv, DataTypes, WireInv, MainStep
  PROVE  WireInv'
<1>1. Main \in Threads /\ pc \in [Threads -> MainLabels \cup RecvLabels]
      /\ packet \in [Threads -> Packet]
  BY ControlParts DEF ControlTypes, DataTypes
<1>2. ASSUME NEW c \in Contents, NewRequest(c) PROVE WireInv'
  <2> DEFINE p == Insert(Alloc(packet[Main]), c)
  <2>1. /\ p.payload = c /\ p.mbSendPrepared = FALSE
        /\ packet' = [packet EXCEPT ![Main] = p] /\ content' = c
    BY <1>2, RequestPacket
  <2> HIDE DEF p
  <2>2. packet'[Main] = p
    BY <1>1, <2>1
  <2>3. pc[Main] = "idle" /\ UNCHANGED <<pc, requests>>
    BY <1>2 DEF NewRequest, At, network
  <2>4. WireDecodes'
    BY <2>3 DEF WireInv, WireDecodes
  <2> QED BY <2>1, <2>2, <2>3, <2>4 DEF WireInv
<1>3. ASSUME NEW rand \in RandKeys, SendPacket(rand) PROVE WireInv'
  <2> DEFINE q == packet[Main]
             p == Prepared(q, rand)
  <2>1. /\ packet' = [packet EXCEPT ![Main] = p] /\ p.mbSendPrepared
        /\ q.mbSendPrepared => p = q
        /\ ~q.mbSendPrepared => checkSumRight(p) /\ decoded(p).payload = q.payload
    BY <1>3, SentPacket
  <2>2. UNCHANGED <<content, requests>>
    BY <1>3 DEF SendPacket, network
  <2> HIDE DEF p
  <2>3. packet'[Main] = p
    BY <1>1, <2>1
  <2>4. WireDecodes'
    BY <2>2 DEF WireInv, WireDecodes
  <2>5. checkSumRight(p) /\ decoded(p).payload = content
    BY <2>1 DEF WireInv
  <2> QED BY <2>1, <2>2, <2>3, <2>4, <2>5 DEF WireInv
<1>4. ASSUME Send PROVE WireInv'
  <2> DEFINE r == [sent |-> packet[Main], content |-> content]
  <2>1. /\ pc[Main] = "send" /\ pc' = [pc EXCEPT ![Main] = "idle"] /\ UNCHANGED <<packet, content>>
        /\ \/ UNCHANGED requests
           \/ requests' = [requests EXCEPT ![mSocket] = Append(@, r)]
    BY <1>4 DEF Send, At, Goto, locals, history
  <2>2. pc'[Main] = "idle"
    BY <1>1, <2>1
  <2>3. checkSumRight(r.sent) /\ decoded(r.sent).payload = r.content
    BY <2>1 DEF WireInv
  <2>4. mSocket \in Sockets
    BY <1>1, <2>1, SocketThere
  <2>5. CASE UNCHANGED requests
    BY <2>1, <2>2, <2>5, WireStays
  <2>6. CASE requests' = [requests EXCEPT ![mSocket] = Append(@, r)]
    <3> DEFINE R == [sent : Packet, content : Seq(Byte)]
    <3>1. requests \in [Sockets -> Seq(R)]
      BY DEF DataTypes
    <3>2. r \in R
      BY <1>1 DEF DataTypes
    <3> HIDE DEF r, R
    <3>3. /\ requests'[mSocket] = Append(requests[mSocket], r)
          /\ \A s \in Sockets : s # mSocket => requests'[s] = requests[s]
      BY <2>4, <2>6, <3>1
    <3>4. /\ \A i \in DOMAIN requests'[mSocket] :
               i \in DOMAIN requests[mSocket] \/ requests'[mSocket][i] = r
          /\ \A i \in DOMAIN requests[mSocket] :
               requests'[mSocket][i] = requests[mSocket][i]
      <4>1. requests[mSocket] \in Seq(R)
        BY <2>4, <3>1
      <4> QED BY <3>2, <3>3, <4>1
    <3>5. ASSUME NEW s \in Sockets, NEW i \in DOMAIN requests'[s]
          PROVE  checkSumRight(requests'[s][i].sent)
                 /\ decoded(requests'[s][i].sent).payload = requests'[s][i].content
      <4>1. CASE s # mSocket
        BY <3>3, <4>1 DEF WireInv, WireDecodes
      <4>2. CASE s = mSocket /\ i \in DOMAIN requests[mSocket]
        BY <2>4, <3>4, <4>2 DEF WireInv, WireDecodes
      <4>3. CASE s = mSocket /\ requests'[mSocket][i] = r
        BY <2>3, <4>3
      <4> QED BY <3>4, <4>1, <4>2, <4>3
    <3>6. WireDecodes'
      BY <3>5 DEF WireDecodes
    <3> QED BY <2>1, <2>2, <3>6 DEF WireInv
  <2> QED BY <2>1, <2>5, <2>6
<1>5. ASSUME Disconnect \/ ClearConnected \/ Shutdown PROVE WireInv'
  <2>1. UNCHANGED <<packet, content, requests>>
    BY <1>5 DEF Disconnect, ClearConnected, Shutdown, locals, network, history
  <2>2. PICK l \in {"disconnect", "shutdown", "idle"} : pc' = [pc EXCEPT ![Main] = l]
    BY <1>5 DEF Disconnect, ClearConnected, Shutdown, Goto
  <2>3. pc'[Main] # "send"
    BY <1>1, <2>2
  <2> QED BY <2>1, <2>3, WireStays
<1> QED BY <1>2, <1>3, <1>4, <1>5 DEF MainStep

\* The steps of the other threads, of Connect and of the network leave the main thread's
\* packet alone.
LEMMA WireOtherStep ==
  ASSUME ControlInv, DataTypes, WireInv,
         \/ \E t \in Threads : ConnectStep(t)
         \/ \E t \in RecvThreads : RecvStep(t)
         \/ \E s \in Sockets : ConnectionEnds(s)
  PROVE  WireInv'
<1>1. /\ Main \in Threads /\ pc \in [Threads -> MainLabels \cup RecvLabels]
      /\ packet \in [Threads -> Packet] /\ \A t \in RecvThreads : t # Main
  BY ControlParts DEF ControlTypes, DataTypes
<1>2. ASSUME NEW t \in Threads, ConnectStep(t) PROVE WireInv'
  <2>1. UNCHANGED <<packet, content, requests>>
    BY <1>2 DEF ConnectStep, CheckConnected, CreateSocket, TryConnect, BeginThread, SetConnected,
                locals, network, history
  <2>2. CASE BeginThread(t)
    <3>1. PICK r \in RecvThreads : pc' = [pc EXCEPT ![r] = "recv", ![t] = "connected"]
      BY <2>2 DEF BeginThread
    <3>2. pc'[Main] = "connected" \/ pc'[Main] = pc[Main]
      BY <1>1, <3>1
    <3> QED BY <2>1, <3>2, WireStays
  <2>3. CASE ~BeginThread(t)
    <3>1. PICK l \in {"idle", "close", "check", "socket", "connect", "begin"} :
            pc' = [pc EXCEPT ![t] = l]
      BY <1>2, <2>3 DEF ConnectStep, CheckConnected, CreateSocket, TryConnect, SetConnected,
                        ConnectReturns, Goto
    <3>2. pc'[Main] = l \/ pc'[Main] = pc[Main]
      BY <1>1, <3>1
    <3> QED BY <2>1, <3>1, <3>2, WireStays
  <2> QED BY <2>2, <2>3
<1>3. ASSUME NEW t \in RecvThreads, RecvStep(t) PROVE WireInv'
  <2>1. UNCHANGED <<content, requests>>
    BY <1>3, LoopCases DEF RecvStep, Recv, RecvReturns, RecvFails, LoseConnection, CloseSocket,
           HeaderIncomplete, OnReceive, network, history
  <2>2. UNCHANGED pc \/ \E l : pc' = [pc EXCEPT ![t] = l]
    BY <1>3, LoopCases DEF RecvStep, Recv, RecvReturns, RecvFails, LoseConnection, CloseSocket,
           HeaderIncomplete, OnReceive, Goto
  <2>3. UNCHANGED packet \/ \E p : packet' = [packet EXCEPT ![t] = p]
    <3>1. CASE LoopStep(t)
      <4>1. PICK h \in PeekHeader :
              CodeIsWrong(t, h) \/ PayloadIncomplete(t, h) \/ TakePacket(t, h)
        BY <3>1 DEF LoopStep
      <4> QED BY <4>1 DEF CodeIsWrong, PayloadIncomplete, TakePacket, Crash, locals
    <3>2. CASE ~LoopStep(t)
      BY <1>3, <3>2 DEF RecvStep, Recv, RecvReturns, RecvFails, LoseConnection, CloseSocket,
           HeaderIncomplete, OnReceive, locals
    <3> QED BY <3>1, <3>2
  <2>4. pc'[Main] = pc[Main] /\ packet'[Main] = packet[Main]
    BY <1>1, <2>2, <2>3
  <2> QED BY <2>1, <2>4, WireStays
<1>4. ASSUME NEW s \in Sockets, ConnectionEnds(s) PROVE WireInv'
  <2>1. UNCHANGED <<pc, packet, content, requests>>
    BY <1>4 DEF ConnectionEnds, locals, history
  <2> QED BY <2>1, WireStays
<1> QED BY <1>2, <1>3, <1>4

LEMMA WireStep ==
  ASSUME ControlInv, DataTypes, WireInv, [Next]_vars
  PROVE  WireInv'
<1>1. CASE UNCHANGED vars
  <2>1. UNCHANGED <<pc, packet, content, requests>>
    BY <1>1 DEF vars, locals, network, history
  <2> QED BY <2>1, WireStays
<1> QED BY <1>1, WireMainStep, WireOtherStep DEF Next

\* The server decodes from every packet what the application wrote into it, for all keys,
\* contents and numbers of calls: also from one that is sent again after a connection was
\* lost, and from one that stands where another packet was sent from (NetServer.cpp:140,
\* NetClient.cpp:57).
THEOREM RequestsDecode == Spec => []WireDecodes
<1>1. Init => ControlInv /\ DataTypes /\ WireInv
  BY ControlInit, DataInit, WireInit
<1>2. ControlInv /\ DataTypes /\ WireInv /\ [Next]_vars => ControlInv' /\ DataTypes' /\ WireInv'
  BY ControlStep, DataStep, WireStep
<1>3. WireInv => WireDecodes
  BY DEF WireInv
<1> QED BY <1>1, <1>2, <1>3, PTL DEF Spec

----------------------------------------------------------------------------
(* The packets that are received *)

streamVars == <<mSocket, mRecvBuffer, pending, delivered, values, leftover, filled, crashed>>

LEMMA StreamInit == Init => StreamInv
<1> SUFFICES ASSUME Init PROVE StreamInv
  OBVIOUS
<1>1. /\ mRecvBuffer = <<>> /\ crashed = FALSE
      /\ \A t \in RecvThreads : delivered[t] = <<>> /\ values[t] = <<>>
      /\ \A t \in Threads : pc[t] \in {"check", "none"}
  BY DEF Init
<1>2. \A t \in Threads : Stream(t)
  BY <1>1 DEF Stream
<1>3. Len(Replies) \in Nat
  BY ClientConstants
<1> QED BY <1>1, <1>2, <1>3 DEF StreamInv

\* A step of one thread that receives nothing.
LEMMA StreamMoves ==
  ASSUME ControlInv, StreamInv, UNCHANGED streamVars, NEW t \in Threads, NEW l, Goto(t, l),
         UNCHANGED packet,
         l \notin {"none", "OnReceive"}, pc[t] # "OnReceive",
         l \in {"recv", "wait", "loop"} => pc[t] \in {"recv", "wait", "loop"},
         l \in {"check", "socket", "connect", "begin", "lost"}
           => pc[t] \in {"check", "socket", "connect", "begin", "lost"},
         l = "begin" => pc[t] = "begin"
  PROVE  StreamInv'
<1>1. pc'[t] = l /\ \A u \in Threads : u # t => pc'[u] = pc[u]
  BY ControlParts DEF ControlTypes, Goto
<1>2. UNCHANGED <<mSocket, mRecvBuffer, pending, delivered, values, leftover, filled, crashed>>
  BY DEF streamVars
<1>3. \A u \in Threads : pc'[u] \in {"none", "OnReceive"} => pc'[u] = pc[u]
  BY <1>1
<1>4. \A u \in RecvThreads : pc'[u] # "OnReceive" => pc[u] # "OnReceive"
  BY <1>1, ControlParts
<1>5. ASSUME NEW u \in Threads, Stream(u)
      PROVE  Stream(u)'
  <2>1. pc'[u] \in {"recv", "wait", "loop", "OnReceive"} => InOrder(u)'
    <3>1. pc'[u] \in {"recv", "wait", "loop", "OnReceive"} => Taken(u)' = Taken(u) /\ InOrder(u)
      BY <1>1, <1>2, <1>5 DEF Stream, Taken
    <3> QED BY <1>2, <3>1 DEF InOrder
  <2>2. pc'[u] = "OnReceive" => Reading(u)'
    BY <1>2, <1>3, <1>5 DEF Stream, Reading
  <2>3. pc'[u] \in {"check", "socket", "connect", "begin", "lost"} => mRecvBuffer' = <<>>
    BY <1>1, <1>2, <1>5 DEF Stream
  <2>4. pc'[u] = "begin" => pending'[mSocket'] = AllPieces(mSocket')
    BY <1>1, <1>2, <1>5 DEF Stream
  <2> QED BY <2>1, <2>2, <2>3, <2>4 DEF Stream
<1> HIDE DEF Stream
<1>6. \A u \in RecvThreads : pc'[u] = "none" => pc[u] = "none"
  BY <1>3, ControlParts
<1> QED BY <1>2, <1>4, <1>5, <1>6 DEF StreamInv

\* A step that changes nothing of threads and what they receive.
LEMMA StreamStays ==
  ASSUME StreamInv, UNCHANGED streamVars, UNCHANGED pc,
         \A t \in RecvThreads : packet'[t] = packet[t],
         \A t \in Threads : pc[t] = "OnReceive" => t \in RecvThreads
  PROVE  StreamInv'
<1>1. UNCHANGED <<mSocket, mRecvBuffer, pending, delivered, values, leftover, filled, crashed, pc>>
  BY DEF streamVars
<1>2. ASSUME NEW u \in Threads, Stream(u)
      PROVE  Stream(u)'
  <2>1. Taken(u)' = Taken(u)
    BY <1>1 DEF Taken
  <2>2. InOrder(u) => InOrder(u)'
    BY <1>1, <2>1 DEF InOrder
  <2>3. pc[u] = "OnReceive" /\ Reading(u) => Reading(u)'
    BY <1>1 DEF Reading
  <2> QED BY <1>1, <1>2, <2>2, <2>3 DEF Stream
<1> HIDE DEF Stream
<1> QED BY <1>1, <1>2 DEF StreamInv

\* The threads but t, which is the only active one, have nothing to do with the stream.
LEMMA OthersQuiet ==
  ASSUME ControlInv, NEW t \in Threads, pc[t] \in Active,
         \A u \in Threads : u # t => pc'[u] = pc[u]
  PROVE  \A u \in Threads : u # t => pc[u] \notin Active /\ Stream(u)'
<1>1. \A u \in Threads : u # t => pc[u] \notin Active
  BY ControlParts DEF Alone
<1> QED BY <1>1 DEF Active, Stream

LEMMA MainNeverReceives ==
  ASSUME ControlInv, NEW t \in Threads, pc[t] \in {"recv", "wait", "loop", "OnReceive"}
  PROVE  t \in RecvThreads
BY ControlParts DEF ControlTypes, MainLabels

LEMMA StreamConnectStep ==
  ASSUME ControlInv, DataTypes, StreamInv, NEW t \in Threads, ConnectStep(t)
  PROVE  StreamInv'
<1>1. pc \in [Threads -> MainLabels \cup RecvLabels]
  BY ControlParts DEF ControlTypes
<1>2. ASSUME CheckConnected(t) PROVE StreamInv'
  <2>1. pc[t] = "check" /\ UNCHANGED streamVars /\ UNCHANGED packet
    BY <1>2 DEF CheckConnected, At, shared, locals, network, history, streamVars
  <2>2. Goto(t, "idle") \/ Goto(t, "check") \/ Goto(t, "socket")
    BY <1>2 DEF CheckConnected, ConnectReturns
  <2> QED BY <2>1, <2>2, StreamMoves
<1>3. ASSUME CreateSocket(t) PROVE StreamInv'
  <2>1. /\ pc[t] = "socket" /\ pc' = [pc EXCEPT ![t] = "connect"]
        /\ UNCHANGED <<mRecvBuffer, pending, delivered, values, leftover, filled, crashed, packet>>
    BY <1>3 DEF CreateSocket, At, Goto, locals, history
  <2>2. pc'[t] = "connect" /\ \A u \in Threads : u # t => pc'[u] = pc[u]
    BY <1>1, <2>1
  <2>3. \A u \in Threads : u # t => Stream(u)'
    BY <2>1, <2>2, OthersQuiet DEF Active
  <2>4. ~leftover /\ ~filled => Stream(t)'
    <3>1. ~leftover /\ ~filled => mRecvBuffer = <<>>
      BY <2>1 DEF StreamInv, Stream
    <3> QED BY <2>1, <2>2, <3>1 DEF Stream
  <2>5. \A u \in RecvThreads : /\ pc'[u] = "none" => pc[u] = "none"
                               /\ pc'[u] # "OnReceive" => pc[u] # "OnReceive"
    BY <2>1, <2>2, ControlParts
  <2> HIDE DEF Stream
  <2> QED BY <2>1, <2>3, <2>4, <2>5 DEF StreamInv
<1>4. ASSUME TryConnect(t) PROVE StreamInv'
  <2>1. /\ pc[t] = "connect"
        /\ UNCHANGED <<mSocket, mRecvBuffer, delivered, values, leftover, filled, crashed, packet>>
    BY <1>4 DEF TryConnect, At, shared, locals, history
  <2>2. CASE UNCHANGED pending /\ ConnectReturns(t, FALSE)
    <3>1. Goto(t, "idle") \/ Goto(t, "check")
      BY <2>2 DEF ConnectReturns
    <3>2. UNCHANGED streamVars
      BY <2>1, <2>2 DEF streamVars
    <3> QED BY <2>1, <3>1, <3>2, StreamMoves
  <2>3. CASE pending' = [pending EXCEPT ![mSocket] = AllPieces(mSocket)] /\ Goto(t, "begin")
    <3>1. pc'[t] = "begin" /\ \A u \in Threads : u # t => pc'[u] = pc[u]
      BY <1>1, <2>3 DEF Goto
    <3>2. \A u \in Threads : u # t => Stream(u)'
      BY <2>1, <3>1, OthersQuiet DEF Active
    <3>3. pending'[mSocket'] = AllPieces(mSocket')
      <4>1. mSocket \in Sockets /\ pending \in [Sockets -> Seq(Piece)]
        BY <2>1, SocketThere DEF DataTypes
      <4> HIDE DEF AllPieces, Piece
      <4> QED BY <2>1, <2>3, <4>1
    <3>4. ~leftover /\ ~filled => Stream(t)'
      <4>1. ~leftover /\ ~filled => mRecvBuffer = <<>>
        BY <2>1 DEF StreamInv, Stream
      <4> QED BY <2>1, <3>1, <3>3, <4>1 DEF Stream
    <3>5. \A u \in RecvThreads : /\ pc'[u] = "none" => pc[u] = "none"
                                 /\ pc'[u] # "OnReceive" => pc[u] # "OnReceive"
      BY <2>1, <3>1, ControlParts
    <3> HIDE DEF Stream
    <3> QED BY <2>1, <3>2, <3>4, <3>5 DEF StreamInv
  <2> QED BY <1>4, <2>2, <2>3 DEF TryConnect
<1>5. ASSUME BeginThread(t) PROVE StreamInv'
  <2>1. PICK r \in RecvThreads :
          pc[r] = "none" /\ pc' = [pc EXCEPT ![r] = "recv", ![t] = "connected"]
    BY <1>5 DEF BeginThread, At
  <2>2. /\ pc[t] = "begin" /\ r \in Threads /\ r # t
        /\ UNCHANGED <<mSocket, mRecvBuffer, pending, delivered, values, leftover, filled, crashed, packet>>
    BY <1>5, <2>1, ControlParts DEF BeginThread, At, shared, locals, network, history
  <2>3. /\ pc'[t] = "connected" /\ pc'[r] = "recv"
        /\ \A u \in Threads : u # t /\ u # r => pc'[u] = pc[u]
    BY <1>1, <2>1, <2>2
  <2>4. \A u \in Threads : u # r => Stream(u)'
    <3>1. \A u \in Threads : u # t => pc[u] \notin Active
      BY <2>2, ControlParts DEF Alone, Active
    <3>2. \A u \in Threads : u # r => pc'[u] \notin Active
      BY <2>3, <3>1 DEF Active
    <3> QED BY <3>2 DEF Active, Stream
  <2>5. ASSUME ~leftover, ~filled PROVE Stream(r)'
    <3>1. mRecvBuffer = <<>> /\ pending[mSocket] = AllPieces(mSocket) /\ delivered[r] = <<>>
      BY <2>1, <2>2, <2>5 DEF StreamInv, Stream
    <3>2. mSocket \in Sockets
      BY <2>2, SocketThere
    <3>3. Taken(r)' = 0 /\ Len(mRecvBuffer) = 0
      BY <2>2, <2>3, <3>1 DEF Taken
    <3> DEFINE a == pending[mSocket]
    <3>4. /\ Len(a) = 3 * Len(Replies) /\ Len(Replies) \in Nat
          /\ \A j \in 1 .. Len(a) : a[j] = PieceAt(mSocket, j)
      BY <3>1, <3>2, AllPiecesType, ClientConstants
    <3> HIDE DEF a, PieceAt
    <3>5. Taken(r)' + Len(mRecvBuffer) + Len(a) = 3 * Len(Replies)
      BY <3>3, <3>4
    <3>6. \A j \in 1 .. Len(a) : Taken(r)' + Len(mRecvBuffer) + j = j
      BY <3>3
    <3>7. \A j \in 1 .. Len(a) : a[j] = PieceAt(mSocket, Taken(r)' + Len(mRecvBuffer) + j)
      BY <3>4, <3>6
    <3>8. InOrder(r)'
      <4>1. \A j \in 1 .. Len(mRecvBuffer) : FALSE
        BY <3>3
      <4> QED BY <2>2, <3>5, <3>7, <4>1 DEF InOrder, a, PieceAt
    <3> QED BY <2>3, <3>8 DEF Stream
  <2>6. \A u \in RecvThreads : /\ pc'[u] = "none" => pc[u] = "none"
                               /\ pc'[u] # "OnReceive" => pc[u] # "OnReceive"
    BY <2>1, <2>2, <2>3, ControlParts
  <2> HIDE DEF Stream
  <2> QED BY <2>2, <2>4, <2>5, <2>6 DEF StreamInv
<1>6. ASSUME SetConnected(t) PROVE StreamInv'
  <2>1. pc[t] = "connected" /\ UNCHANGED streamVars /\ UNCHANGED packet
    BY <1>6 DEF SetConnected, At, locals, network, history, streamVars
  <2>2. Goto(t, "idle") \/ Goto(t, "close")
    BY <1>6 DEF SetConnected, ConnectReturns
  <2> QED BY <2>1, <2>2, StreamMoves
<1> QED BY <1>2, <1>3, <1>4, <1>5, <1>6 DEF ConnectStep

LEMMA StreamMainStep ==
  ASSUME ControlInv, DataTypes, StreamInv, MainStep
  PROVE  StreamInv'
<1>1. /\ pc \in [Threads -> MainLabels \cup RecvLabels] /\ packet \in [Threads -> Packet]
      /\ Main \in Threads /\ \A t \in RecvThreads : t \in Threads /\ t # Main
  BY ControlParts DEF ControlTypes, DataTypes
<1>2. \A t \in Threads : pc[t] = "OnReceive" => t \in RecvThreads
  BY MainNeverReceives
<1>3. UNCHANGED streamVars
  BY DEF MainStep, NewRequest, SendPacket, Send, Disconnect, ClearConnected, Shutdown, shared,
         locals, network, history, streamVars
<1>4. ASSUME NEW c, NewRequest(c) PROVE StreamInv'
  <2>1. UNCHANGED pc /\ \E p : packet' = [packet EXCEPT ![Main] = p]
    BY <1>4 DEF NewRequest
  <2>2. \A t \in RecvThreads : packet'[t] = packet[t]
    BY <1>1, <2>1
  <2> QED BY <1>2, <1>3, <2>1, <2>2, StreamStays
<1>5. ASSUME NEW rand, SendPacket(rand) PROVE StreamInv'
  <2>1. /\ pc[Main] = "idle" /\ pc' = [pc EXCEPT ![Main] = "send"]
        /\ \E p : packet' = [packet EXCEPT ![Main] = p]
    BY <1>5 DEF SendPacket, At, Goto
  <2>2. \A t \in RecvThreads : packet'[t] = packet[t] /\ pc'[t] = pc[t]
    BY <1>1, <2>1
  <2>3. pc'[Main] = "send"
    BY <1>1, <2>1
  <2>4. UNCHANGED <<mSocket, mRecvBuffer, pending, delivered, values, leftover, filled, crashed>>
    BY <1>3 DEF streamVars
  <2>5. ASSUME NEW u \in Threads, Stream(u) PROVE Stream(u)'
    <3>1. CASE u = Main
      BY <2>3, <3>1 DEF Stream
    <3>2. CASE u # Main
      <4>1. u \in RecvThreads
        BY <3>2, ControlParts
      <4>2. Taken(u)' = Taken(u)
        BY <2>2, <2>4, <4>1 DEF Taken
      <4>3. InOrder(u) => InOrder(u)'
        BY <2>4, <4>2 DEF InOrder
      <4>4. Reading(u) => Reading(u)'
        BY <2>2, <2>4, <4>1 DEF Reading
      <4> QED BY <2>2, <2>4, <2>5, <4>1, <4>3, <4>4 DEF Stream
    <3> QED BY <3>1, <3>2
  <2> HIDE DEF Stream
  <2> QED BY <2>2, <2>4, <2>5 DEF StreamInv
<1>6. ASSUME Send \/ Disconnect \/ ClearConnected \/ Shutdown PROVE StreamInv'
  <2>1. PICK l \in {"idle", "disconnect", "shutdown"} : Goto(Main, l)
    BY <1>6 DEF Send, Disconnect, ClearConnected, Shutdown
  <2>2. UNCHANGED packet /\ pc[Main] # "OnReceive"
    BY <1>6 DEF Send, Disconnect, ClearConnected, Shutdown, At, locals
  <2> QED BY <1>1, <1>3, <2>1, <2>2, StreamMoves
<1> QED BY <1>4, <1>5, <1>6 DEF MainStep

\* The three pieces of a packet.
LEMMA PieceNumbers ==
  ASSUME NEW s, NEW d \in Nat
  PROVE  /\ PieceAt(s, 3 * d + 1) = <<s, d + 1, 1>>
         /\ PieceAt(s, 3 * d + 2) = <<s, d + 1, 2>>
         /\ PieceAt(s, 3 * d + 3) = <<s, d + 1, 3>>
<1>1. /\ (3 * d + 1 + 2) \div 3 = d + 1 /\ (3 * d + 2 + 2) \div 3 = d + 1
      /\ (3 * d + 3 + 2) \div 3 = d + 1
  OBVIOUS
<1>2. /\ ((3 * d + 1 + 2) % 3) + 1 = 1 /\ ((3 * d + 2 + 2) % 3) + 1 = 2
      /\ ((3 * d + 3 + 2) % 3) + 1 = 3
  OBVIOUS
<1> QED BY <1>1, <1>2 DEF PieceAt

\* Between packets the buffer starts with the header of the next one, and that packet
\* is what its first three pieces are.
LEMMA NextPacket ==
  ASSUME DataTypes, NEW t \in RecvThreads, pc[t] = "loop", InOrder(t), Len(mRecvBuffer) >= 2
  PROVE  /\ PeekHeader = { [code |-> TRUE, pieces |-> 3] }
         /\ mRecvBuffer[1] = <<mSocket, Len(delivered[t]) + 1, 1>>
         /\ Len(mRecvBuffer) >= 3
              => /\ SubSeq(mRecvBuffer, 1, 3) = Pieces(mRecvBuffer[1][1], mRecvBuffer[1][2])
                 /\ Len(delivered[t]) < Len(Replies)
<1> DEFINE d == Len(delivered[t])
<1>1. /\ d \in Nat /\ Len(mRecvBuffer) \in Nat /\ mRecvBuffer \in Seq(Piece)
      /\ Len(Replies) \in Nat /\ pending \in [Sockets -> Seq(Piece)]
  BY ClientConstants DEF DataTypes
<1>2. Taken(t) = 3 * d
  BY <1>1 DEF Taken
<1>3. \A j \in 1 .. Len(mRecvBuffer) : mRecvBuffer[j] = PieceAt(mSocket, 3 * d + j)
  BY <1>2 DEF InOrder
<1> HIDE DEF d
<1>4. /\ mRecvBuffer[1] = <<mSocket, d + 1, 1>> /\ mRecvBuffer[2] = <<mSocket, d + 1, 2>>
      /\ Len(mRecvBuffer) >= 3 => mRecvBuffer[3] = <<mSocket, d + 1, 3>>
  <2>1. 1 \in 1 .. Len(mRecvBuffer) /\ 2 \in 1 .. Len(mRecvBuffer)
        /\ (Len(mRecvBuffer) >= 3 => 3 \in 1 .. Len(mRecvBuffer))
    BY <1>1
  <2> HIDE DEF PieceAt
  <2> QED BY <1>1, <1>3, <2>1, PieceNumbers
<1>5. PeekHeader = { [code |-> TRUE, pieces |-> 3] }
  BY <1>4 DEF PeekHeader
<1>6. ASSUME Len(mRecvBuffer) >= 3
      PROVE  /\ SubSeq(mRecvBuffer, 1, 3) = Pieces(mSocket, d + 1)
             /\ d < Len(Replies)
  <2>1. SubSeq(mRecvBuffer, 1, 3) = <<mRecvBuffer[1], mRecvBuffer[2], mRecvBuffer[3]>>
    BY <1>1, <1>6, FirstThree
  <2>2. SubSeq(mRecvBuffer, 1, 3) = Pieces(mSocket, d + 1)
    BY <1>4, <1>6, <2>1 DEF Pieces
  <2>3. Len(pending[mSocket]) \in Nat
    <3>1. mRecvBuffer[1] \in Piece
      BY <1>1, <1>6, ElementOf
    <3>2. mSocket \in Sockets
      BY <1>4, <3>1 DEF Piece
    <3> QED BY <1>1, <3>2
  <2>4. 3 * d + Len(mRecvBuffer) + Len(pending[mSocket]) = 3 * Len(Replies)
    BY <1>2 DEF InOrder
  <2>5. d < Len(Replies)
    <3>1. \A k, x, y, m \in Nat : 3 * k + x + y = 3 * m /\ x >= 3 => k < m
      OBVIOUS
    <3> QED BY <1>1, <1>6, <2>3, <2>4, <3>1
  <2> QED BY <2>2, <2>5
<1> QED BY <1>4, <1>5, <1>6 DEF d

\* What recv brings is put behind what the buffer has.
LEMMA StreamRecvReturns ==
  ASSUME ControlInv, DataTypes, StreamInv, NEW t \in RecvThreads, NEW n, RecvReturns(t, n)
  PROVE  StreamInv'
<1> DEFINE a == pending[mSocket]
           L == Len(mRecvBuffer)
<1>1. /\ pc[t] = "wait" /\ t \in Threads /\ pc' = [pc EXCEPT ![t] = "loop"]
      /\ UNCHANGED <<mSocket, delivered, values, leftover, crashed, packet>>
      /\ pc \in [Threads -> MainLabels \cup RecvLabels]
  BY ControlParts DEF RecvReturns, At, Goto, locals, ControlTypes
<1>2. socket[t] = mSocket /\ mSocket \in Sockets
  BY <1>1, ControlParts, SocketThere DEF SocketUsed
<1> DEFINE bytes == mRecvBuffer \o SubSeq(a, 1, n)
<1>3. /\ n \in DOMAIN a /\ mRecvBuffer' = IF Len(bytes) = BufferSize THEN <<>> ELSE bytes
      /\ filled' = (filled \/ Len(bytes) = BufferSize)
      /\ pending' = [pending EXCEPT ![mSocket] = SubSeq(a, n + 1, Len(a))]
  BY <1>2 DEF RecvReturns
<1>4. /\ pc'[t] = "loop" /\ \A u \in Threads : u # t => pc'[u] = pc[u]
  BY <1>1
<1>5. \A u \in Threads : u # t => Stream(u)'
  BY <1>1, <1>4, OthersQuiet DEF Active
<1>6. /\ a \in Seq(Piece) /\ mRecvBuffer \in Seq(Piece) /\ Len(a) \in Nat /\ L \in Nat
      /\ pending \in [Sockets -> Seq(Piece)]
  BY <1>2 DEF DataTypes
<1> HIDE DEF a, bytes
<1>7. n \in Nat /\ n \in 1 .. Len(a)
  BY <1>3, <1>6
<1>8. ASSUME ~leftover, ~filled' PROVE Stream(t)'
  <2> DEFINE x == SubSeq(a, 1, n)
             y == SubSeq(a, n + 1, Len(a))
             b == Taken(t)
  <2>1. InOrder(t)
    BY <1>1, <1>3, <1>8 DEF StreamInv, Stream
  <2>2. x \in Seq(Piece) /\ Len(x) = n /\ \A j \in 1 .. n : x[j] = a[j]
    <3>1. 1 \in 1 .. Len(a) + 1 /\ n \in 1 - 1 .. Len(a) /\ n + 1 - 1 = n
          /\ \A j \in 1 .. n : 1 - 1 + j = j
      BY <1>6, <1>7
    <3>2. /\ SubSeq(a, 1, n) \in Seq(Piece) /\ Len(SubSeq(a, 1, n)) = n + 1 - 1
          /\ \A i \in 1 .. n + 1 - 1 : SubSeq(a, 1, n)[i] = a[1 - 1 + i]
      BY <1>6, <3>1, PartOf
    <3> QED BY <3>1, <3>2
  <2>3. y \in Seq(Piece) /\ Len(y) = Len(a) - n /\ \A j \in 1 .. Len(a) - n : y[j] = a[n + j]
    <3>1. n + 1 \in 1 .. Len(a) + 1 /\ Len(a) \in (n + 1) - 1 .. Len(a)
          /\ Len(a) + 1 - (n + 1) = Len(a) - n /\ \A j \in 1 .. Len(a) - n : (n + 1) - 1 + j = n + j
      BY <1>6, <1>7
    <3>2. /\ SubSeq(a, n + 1, Len(a)) \in Seq(Piece)
          /\ Len(SubSeq(a, n + 1, Len(a))) = Len(a) + 1 - (n + 1)
          /\ \A i \in 1 .. Len(a) + 1 - (n + 1) :
               SubSeq(a, n + 1, Len(a))[i] = a[(n + 1) - 1 + i]
      BY <1>6, <3>1, PartOf
    <3> QED BY <3>1, <3>2
  <2>4. mRecvBuffer' = mRecvBuffer \o x /\ pending'[mSocket] = y
    BY <1>2, <1>3, <1>6, <1>8 DEF bytes
  <2> HIDE DEF x, y
  <2>5. /\ Len(mRecvBuffer') = L + n
        /\ \A j \in 1 .. L : mRecvBuffer'[j] = mRecvBuffer[j]
        /\ \A j \in 1 .. n : mRecvBuffer'[L + j] = a[j]
    <3>1. /\ Len(mRecvBuffer \o x) = Len(mRecvBuffer) + Len(x)
          /\ \A i \in 1 .. Len(mRecvBuffer) : (mRecvBuffer \o x)[i] = mRecvBuffer[i]
          /\ \A i \in 1 .. Len(x) : (mRecvBuffer \o x)[Len(mRecvBuffer) + i] = x[i]
      <4>1. x \in Seq(Piece) /\ mRecvBuffer \in Seq(Piece)
        BY <1>6, <2>2
      <4> QED BY ONLY <4>1, Concatenated
    <3> QED BY <2>2, <2>4, <3>1
  <2>6. Taken(t)' = b /\ b \in Nat
    <3>1. delivered'[t] = delivered[t] /\ pc[t] # "OnReceive" /\ pc'[t] # "OnReceive"
      BY <1>1, <1>4
    <3>2. Len(delivered[t]) \in Nat
      BY DEF DataTypes
    <3> QED BY <3>1, <3>2 DEF Taken
  <2>7. /\ b + L + Len(a) = 3 * Len(Replies)
        /\ \A j \in 1 .. L : mRecvBuffer[j] = PieceAt(mSocket, b + j)
        /\ \A j \in 1 .. Len(a) : a[j] = PieceAt(mSocket, b + L + j)
    BY <2>1 DEF InOrder, a
  <2> HIDE DEF b, L, PieceAt
  <2>8. b + (L + n) + (Len(a) - n) = 3 * Len(Replies)
    <3>1. \A i, j, k, m \in Nat : i + (j + m) + (k - m) = i + j + k
      OBVIOUS
    <3>2. b + (L + n) + (Len(a) - n) = b + L + Len(a)
      BY <1>6, <1>7, <2>6, <3>1
    <3> QED BY <2>7, <3>2
  <2>9. ASSUME NEW j \in 1 .. L + n PROVE mRecvBuffer'[j] = PieceAt(mSocket, b + j)
    <3>1. CASE j <= L
      <4>1. j \in 1 .. L
        BY <1>6, <1>7, <3>1
      <4> QED BY <2>5, <2>7, <4>1
    <3>2. CASE ~(j <= L)
      <4> DEFINE i == j - L
      <4>1. i \in 1 .. n /\ L + i = j /\ i \in 1 .. Len(a) /\ b + L + i = b + j
        BY <1>6, <1>7, <2>6, <3>2
      <4> HIDE DEF i
      <4>2. mRecvBuffer'[L + i] = a[i] /\ a[i] = PieceAt(mSocket, b + L + i)
        BY <2>5, <2>7, <4>1
      <4> QED BY <4>1, <4>2
    <3> QED BY <3>1, <3>2
  <2>10. ASSUME NEW j \in 1 .. Len(a) - n
         PROVE  pending'[mSocket][j] = PieceAt(mSocket, b + (L + n) + j)
    <3>1. n + j \in 1 .. Len(a) /\ b + L + (n + j) = b + (L + n) + j
      BY <1>6, <1>7, <2>6
    <3>2. y[j] = a[n + j] /\ a[n + j] = PieceAt(mSocket, b + L + (n + j))
      BY <2>3, <2>7, <3>1
    <3> QED BY <2>4, <3>1, <3>2
  <2>11. InOrder(t)'
    <3>1. mSocket' = mSocket /\ Len(pending'[mSocket]) = Len(a) - n
      BY <1>1, <2>3, <2>4
    <3> QED BY <2>5, <2>6, <2>8, <2>9, <2>10, <3>1 DEF InOrder, PieceAt
  <2> QED BY <1>4, <2>11 DEF Stream
<1>9. \A u \in RecvThreads : /\ pc'[u] = "none" => pc[u] = "none"
                             /\ pc'[u] # "OnReceive" => pc[u] # "OnReceive"
  BY <1>1, <1>4, ControlParts
<1> HIDE DEF Stream
<1> QED BY <1>1, <1>3, <1>5, <1>8, <1>9 DEF StreamInv

\* A packet taken from the buffer is the next one, and nothing ends the process.
LEMMA StreamLoopStep ==
  ASSUME ControlInv, DataTypes, StreamInv, ~crashed, NEW t \in RecvThreads, LoopStep(t)
  PROVE  StreamInv'
<1>1. /\ pc[t] = "loop" /\ t \in Threads /\ Len(mRecvBuffer) >= 2
      /\ pc \in [Threads -> MainLabels \cup RecvLabels]
  BY ControlParts DEF LoopStep, At, ControlTypes
<1>2. PICK h \in PeekHeader : CodeIsWrong(t, h) \/ PayloadIncomplete(t, h) \/ TakePacket(t, h)
  BY DEF LoopStep
<1>3. ~leftover /\ ~filled => InOrder(t)
  BY <1>1 DEF StreamInv, Stream
<1>4. ~leftover /\ ~filled => h.code = TRUE /\ h.pieces = 3
  <2>1. ~leftover /\ ~filled => PeekHeader = { [code |-> TRUE, pieces |-> 3] }
    BY <1>1, <1>3, NextPacket
  <2> QED BY <1>2, <2>1
<1>5. ASSUME Crash(t), leftover \/ filled PROVE StreamInv'
  <2>1. UNCHANGED <<pc, delivered, values, leftover, filled>>
    BY <1>5 DEF Crash, locals
  <2> QED BY <1>5, <2>1 DEF StreamInv
<1>6. ASSUME PayloadIncomplete(t, h), ~Crash(t) PROVE StreamInv'
  <2>1. Goto(t, "recv") /\ UNCHANGED streamVars /\ UNCHANGED packet
    BY <1>6 DEF PayloadIncomplete, shared, locals, network, history, streamVars
  <2> QED BY <1>1, <2>1, StreamMoves
<1>7. ASSUME TakePacket(t, h), ~Crash(t) PROVE StreamInv'
  <2>1. ~crashed'
    BY <1>7 DEF TakePacket, history
  <2>2. PICK n \in 2 .. Len(mRecvBuffer), p \in Packet :
          /\ h.pieces = n
          /\ p.mDeserialingSize = 0 /\ packet' = [packet EXCEPT ![t] = p]
          /\ mRecvBuffer' = SubSeq(mRecvBuffer, n + 1, Len(mRecvBuffer))
          /\ Goto(t, "OnReceive")
          /\ SubSeq(mRecvBuffer, 1, n) = Pieces(mRecvBuffer[1][1], mRecvBuffer[1][2])
               => p.payload = Replies[mRecvBuffer[1][2]].content
          /\ UNCHANGED <<mSocket, mbIsConnected, mSendErrorCode, mRear, socket, values, network,
                            history>>
    BY <1>1, <1>7, <2>1, TakeCases DEF At
  <2>3. UNCHANGED <<mSocket, pending, delivered, values, leftover, filled, crashed>>
    BY <2>2 DEF network, history
  <2>4. pc'[t] = "OnReceive" /\ \A u \in Threads : u # t => pc'[u] = pc[u]
    BY <1>1, <2>2 DEF Goto
  <2>5. \A u \in Threads : u # t => Stream(u)'
    BY <1>1, <2>4, OthersQuiet DEF Active
  <2>6. values[t] = <<>>
    BY <1>1 DEF StreamInv
  <2>7. ASSUME ~leftover, ~filled PROVE Stream(t)'
    <3> DEFINE L == Len(mRecvBuffer)
               b == Taken(t)
               d == Len(delivered[t])
               a == pending[mSocket]
    <3>1. n = 3 /\ InOrder(t) /\ L \in Nat /\ L >= 3 /\ mRecvBuffer \in Seq(Piece) /\ d \in Nat
      BY <1>3, <1>4, <2>2, <2>7 DEF DataTypes
    <3>2. /\ b + L + Len(a) = 3 * Len(Replies)
          /\ \A j \in 1 .. L : mRecvBuffer[j] = PieceAt(mSocket, b + j)
          /\ \A j \in 1 .. Len(a) : a[j] = PieceAt(mSocket, b + L + j)
      BY <3>1 DEF InOrder
    <3>3. b = 3 * d
      BY <1>1, <3>1 DEF Taken
    <3>4. Taken(t)' = b + 3
      <4>1. delivered'[t] = delivered[t] /\ pc'[t] = "OnReceive"
        BY <2>3, <2>4
      <4> QED BY <3>3, <4>1 DEF Taken
    <3>5. /\ mRecvBuffer[1][2] = d + 1 /\ d < Len(Replies)
          /\ SubSeq(mRecvBuffer, 1, 3) = Pieces(mRecvBuffer[1][1], mRecvBuffer[1][2])
      BY <1>1, <3>1, NextPacket
    <3>6. p.payload = Replies[d + 1].content
      BY <2>2, <3>1, <3>5
    <3>7. packet'[t] = p
      BY <1>1, <2>2 DEF DataTypes
    <3>8. Reading(t)'
      <4>1. Len(values'[t]) = 0 /\ \A j \in 1 .. 0 : FALSE
        BY <2>3, <2>6
      <4>2. Len(delivered'[t]) = d
        BY <2>3
      <4> QED BY <2>2, <3>5, <3>6, <3>7, <4>1, <4>2 DEF Reading
    <3> DEFINE y == SubSeq(mRecvBuffer, 4, L)
    <3>9. Len(y) = L - 3 /\ \A j \in 1 .. L - 3 : y[j] = mRecvBuffer[3 + j]
      <4>1. 4 \in 1 .. L + 1 /\ L \in 4 - 1 .. L /\ L + 1 - 4 = L - 3
            /\ \A j \in 1 .. L - 3 : 4 - 1 + j = 3 + j
        BY <3>1
      <4>2. Len(y) = L + 1 - 4 /\ \A i \in 1 .. L + 1 - 4 : y[i] = mRecvBuffer[4 - 1 + i]
        BY <3>1, <4>1, PartOf
      <4> QED BY <4>1, <4>2
    <3>10. mRecvBuffer' = y
      BY <2>2, <3>1
    <3>11. b \in Nat /\ Len(a) \in Nat
      <4>1. mSocket \in Sockets
        BY <1>1, SocketThere
      <4> QED BY <3>1, <3>3, <4>1 DEF DataTypes
    <3>12. UNCHANGED <<mSocket, a>>
      BY <2>3
    <3> HIDE DEF b, a, L, d, y, PieceAt
    <3>13. (b + 3) + (L - 3) + Len(a) = 3 * Len(Replies)
      <4>1. L \in Nat /\ b + L + Len(a) = 3 * Len(Replies)
        BY <3>1, <3>2
      <4>2. (b + 3) + (L - 3) + Len(a) = b + L + Len(a)
        BY ONLY <4>1, <3>11
      <4> QED BY ONLY <4>1, <4>2
    <3>14. ASSUME NEW j \in 1 .. L - 3 PROVE y[j] = PieceAt(mSocket, (b + 3) + j)
      <4>1. 3 + j \in 1 .. L /\ b + (3 + j) = (b + 3) + j
        BY <3>1, <3>11
      <4> QED BY <3>2, <3>9, <4>1
    <3>15. ASSUME NEW j \in 1 .. Len(a) PROVE a[j] = PieceAt(mSocket, (b + 3) + (L - 3) + j)
      <4>1. (b + 3) + (L - 3) + j = b + L + j
        BY <3>1, <3>11
      <4> QED BY <3>2, <4>1
    <3>16. InOrder(t)'
      BY <3>4, <3>9, <3>10, <3>12, <3>13, <3>14, <3>15 DEF InOrder, PieceAt, a
    <3> QED BY <2>4, <3>8, <3>16 DEF Stream
  <2>8. \A u \in RecvThreads : /\ pc'[u] = "none" => pc[u] = "none"
                               /\ pc'[u] # "OnReceive" => pc[u] # "OnReceive"
    BY <1>1, <2>4, ControlParts
  <2> HIDE DEF Stream
  <2> QED BY <2>3, <2>5, <2>7, <2>8 DEF StreamInv
<1>8. ASSUME TakePacket(t, h), Crash(t), ~leftover /\ ~filled PROVE FALSE
  <2>1. Len(mRecvBuffer) >= 3 /\ mRecvBuffer \in Seq(Piece)
    BY <1>4, <1>8 DEF TakePacket, PayloadThere, DataTypes
  <2>2. /\ SubSeq(mRecvBuffer, 1, 3) = Pieces(mRecvBuffer[1][1], mRecvBuffer[1][2])
    BY <1>1, <1>3, <1>8, <2>1, NextPacket
  <2>3. mRecvBuffer[1] \in Piece /\ (IF Len(mRecvBuffer) < 3 THEN Len(mRecvBuffer) ELSE 3) = 3
    BY <2>1
  <2>4. mRecvBuffer[1][2] \in 1 .. Len(Replies)
    BY <2>3 DEF Piece
  <2>5. Head(SubSeq(mRecvBuffer, 1, 3)) = mRecvBuffer[1]
    BY <2>1
  <2>6. checkSumRight(Reply(mRecvBuffer[1][2]))
    BY <2>4, ReplyIs
  <2>7. crashed'
    BY <1>8 DEF Crash
  <2> QED BY <1>4, <1>8, <2>2, <2>3, <2>5, <2>6, <2>7 DEF TakePacket, history
<1>10. ASSUME PayloadIncomplete(t, h), Crash(t), ~leftover, ~filled PROVE FALSE
  <2> DEFINE L == Len(mRecvBuffer)
  <2>1. L \in Nat /\ ~(L >= 3) /\ L >= 2
    BY <1>1, <1>4, <1>10 DEF PayloadIncomplete, PayloadThere, DataTypes
  <2>2. RoomLeft = BufferSize - L - 1
    BY DEF RoomLeft
  <2> HIDE DEF L
  <2>3. RoomLeft # 0
    BY <2>1, <2>2, ClientConstants
  <2>4. crashed'
    BY <1>10 DEF Crash
  <2> QED BY <1>10, <2>3, <2>4 DEF PayloadIncomplete, history
<1>9. CASE CodeIsWrong(t, h)
  <2>1. Crash(t) /\ ~h.code
    BY <1>9 DEF CodeIsWrong
  <2> QED BY <1>4, <1>5, <2>1
<1> QED BY <1>2, <1>5, <1>6, <1>7, <1>8, <1>9, <1>10

\* OnReceive reads a byte, or has read all of the packet and is done with it.
LEMMA StreamOnReceive ==
  ASSUME ControlInv, DataTypes, StreamInv, NEW t \in RecvThreads, OnReceive(t)
  PROVE  StreamInv'
<1> DEFINE p == packet[t]
           v == values[t]
           d == delivered[t]
           N == Len(Replies)
<1>1. /\ pc[t] = "OnReceive" /\ t \in Threads
      /\ pc \in [Threads -> MainLabels \cup RecvLabels]
      /\ UNCHANGED <<mSocket, mRecvBuffer, pending, leftover, filled, crashed>>
  BY ControlParts DEF OnReceive, At, ControlTypes, shared, network
<1>2. /\ p \in Packet /\ p.mDeserialingSize <= Len(p.payload) /\ v \in Seq(Byte)
      /\ d \in Seq(Seq(Byte)) /\ N \in Nat
      /\ packet \in [Threads -> Packet] /\ values \in [RecvThreads -> Seq(Byte)]
      /\ delivered \in [RecvThreads -> Seq(Seq(Byte))]
  BY <1>1, ClientConstants DEF DataTypes
<1>3. Len(v) \in Nat /\ Len(d) \in Nat
  BY <1>2
<1>4. ~leftover /\ ~filled => InOrder(t) /\ Reading(t)
  BY <1>1 DEF StreamInv, Stream
<1>5. ASSUME CanGet(p, 1) PROVE StreamInv'
  <2> DEFINE g == Got(p, 1)
             q == AfterGet(p, 1)
             n == p.mDeserialingSize
  <2>1. /\ values' = [values EXCEPT ![t] = v \o g] /\ packet' = [packet EXCEPT ![t] = q]
        /\ UNCHANGED <<pc, delivered>>
    BY <1>5 DEF OnReceive
  <2>2. /\ q.mDeserialingSize = n + 1 /\ q.payload = p.payload
        /\ n + 1 \in 1 .. Len(p.payload)
        /\ g \in Seq(Byte) /\ Len(g) = 1 /\ g[1] = p.payload[n + 1]
    BY <1>2, <1>5, ReadByte
  <2>3. /\ values'[t] = v \o g /\ packet'[t] = q
        /\ \A u \in RecvThreads : u # t => values'[u] = values[u]
    BY <1>1, <1>2, <2>1
  <2> HIDE DEF g, q, n
  <2>4. \A u \in Threads : u # t => Stream(u)'
    BY <1>1, <2>1, OthersQuiet DEF Active
  <2>5. ASSUME ~leftover, ~filled PROVE Stream(t)'
    <3>1. /\ Len(d) < N /\ p.payload = Replies[Len(d) + 1].content /\ Len(v) = n
          /\ \A j \in 1 .. Len(v) : v[j] = p.payload[j]
      BY <1>4, <2>5 DEF Reading, n
    <3>2. /\ Len(v \o g) = Len(v) + 1 /\ \A i \in 1 .. Len(v) : (v \o g)[i] = v[i]
          /\ (v \o g)[Len(v) + 1] = g[1]
      <4>1. /\ Len(v \o g) = Len(v) + Len(g)
            /\ \A i \in 1 .. Len(v) : (v \o g)[i] = v[i]
            /\ \A i \in 1 .. Len(g) : (v \o g)[Len(v) + i] = g[i]
        <5>1. v \in Seq(Byte) /\ g \in Seq(Byte)
          BY <1>2, <2>2
        <5> HIDE DEF v
        <5> QED BY ONLY <5>1, Concatenated
      <4>2. 1 \in 1 .. Len(g)
        BY <2>2
      <4> QED BY <2>2, <4>1, <4>2
    <3>3. ASSUME NEW j \in 1 .. Len(v) + 1 PROVE (v \o g)[j] = q.payload[j]
      <4>1. j \in 1 .. Len(v) \/ j = Len(v) + 1
        BY <1>3
      <4> QED BY <2>2, <3>1, <3>2, <4>1
    <3>4. Reading(t)'
      BY <2>1, <2>2, <2>3, <3>1, <3>2, <3>3 DEF Reading
    <3>5. InOrder(t)'
      <4>1. Taken(t)' = Taken(t)
        BY <2>1 DEF Taken
      <4> QED BY <1>1, <1>4, <2>5, <4>1 DEF InOrder
    <3> QED BY <1>1, <2>1, <3>4, <3>5 DEF Stream
  <2>6. \A u \in RecvThreads : pc'[u] # "OnReceive" => values'[u] = values[u]
    BY <1>1, <2>1, <2>3
  <2> HIDE DEF Stream
  <2> QED BY <1>1, <2>1, <2>4, <2>5, <2>6 DEF StreamInv
<1>6. ASSUME ~CanGet(p, 1) PROVE StreamInv'
  <2>1. /\ values' = [values EXCEPT ![t] = <<>>]
        /\ delivered' = [delivered EXCEPT ![t] = Append(d, v)]
        /\ pc' = [pc EXCEPT ![t] = "loop"] /\ UNCHANGED packet
    BY <1>6 DEF OnReceive, Goto
  <2>2. /\ values'[t] = <<>> /\ delivered'[t] = Append(d, v) /\ pc'[t] = "loop"
        /\ \A u \in RecvThreads : u # t => values'[u] = values[u] /\ delivered'[u] = delivered[u]
        /\ \A u \in Threads : u # t => pc'[u] = pc[u]
    BY <1>1, <1>2, <2>1
  <2>3. \A u \in Threads : u # t => Stream(u)'
    BY <1>1, <2>2, OthersQuiet DEF Active
  <2>4. /\ Len(Append(d, v)) = Len(d) + 1 /\ \A i \in 1 .. Len(d) : Append(d, v)[i] = d[i]
        /\ Append(d, v)[Len(d) + 1] = v
    BY <1>2, Appended
  <2>5. ASSUME ~leftover, ~filled
        PROVE  /\ Stream(t)' /\ Len(d) + 1 <= N /\ v = Replies[Len(d) + 1].content
    <3>1. /\ Len(d) < N /\ p.payload = Replies[Len(d) + 1].content
          /\ Len(v) = p.mDeserialingSize
          /\ \A j \in 1 .. Len(v) : v[j] = p.payload[j]
      BY <1>4, <2>5 DEF Reading
    <3>2. p.payload \in Seq(Byte) /\ p.mDeserialingSize \in Nat /\ Len(p.payload) \in Nat
      BY <1>2, PacketFields
    <3>3. Len(v) = Len(p.payload)
      <4>1. ~(p.mDeserialingSize + 1 <= Len(p.payload))
        BY <1>6 DEF CanGet, GetUseSize
      <4> QED BY <1>2, <3>1, <3>2, <4>1
    <3>4. v = p.payload
      BY <1>2, <3>1, <3>2, <3>3, SameSequence
    <3>5. Taken(t)' = Taken(t)
      <4>1. 3 * (Len(d) + 1) + 0 = 3 * Len(d) + 3
        BY <1>3
      <4> QED BY <1>1, <2>2, <2>4, <4>1 DEF Taken
    <3>6. InOrder(t)'
      BY <1>1, <1>4, <2>5, <3>5 DEF InOrder
    <3> QED BY <1>2, <1>3, <2>2, <3>1, <3>4, <3>6 DEF Stream
  <2>6. ASSUME ~leftover, ~filled, NEW u \in RecvThreads
        PROVE  /\ Len(delivered'[u]) <= N
               /\ \A i \in 1 .. Len(delivered'[u]) : delivered'[u][i] = Replies[i].content
    <3>1. /\ Len(delivered[u]) <= N
          /\ \A i \in 1 .. Len(delivered[u]) : delivered[u][i] = Replies[i].content
      BY <2>6 DEF StreamInv
    <3>2. CASE u # t
      BY <2>2, <3>1, <3>2
    <3>3. CASE u = t
      <4>1. ASSUME NEW i \in 1 .. Len(d) + 1 PROVE Append(d, v)[i] = Replies[i].content
        <5>1. i \in 1 .. Len(d) \/ i = Len(d) + 1
          BY <1>3
        <5> QED BY <2>4, <2>5, <2>6, <3>1, <3>3, <5>1
      <4> QED BY <2>2, <2>4, <2>5, <2>6, <3>3, <4>1
    <3> QED BY <3>2, <3>3
  <2>7. /\ \A u \in RecvThreads : pc'[u] = "none" => u # t /\ pc[u] = "none"
        /\ \A u \in RecvThreads : pc'[u] # "OnReceive" => u = t \/ pc[u] # "OnReceive"
    BY <2>2, ControlParts
  <2> HIDE DEF Stream
  <2> QED BY <1>1, <2>2, <2>3, <2>5, <2>6, <2>7 DEF StreamInv
<1> QED BY <1>5, <1>6

\* A connection that ends inside a packet is remembered; one that does not leaves the
\* buffer empty.
LEMMA StreamRecvFails ==
  ASSUME ControlInv, DataTypes, StreamInv, NEW t \in RecvThreads, RecvFails(t)
  PROVE  StreamInv'
<1>1. /\ pc[t] = "wait" /\ t \in Threads /\ pc' = [pc EXCEPT ![t] = "lost"]
      /\ pc \in [Threads -> MainLabels \cup RecvLabels]
      /\ leftover' = (leftover \/ mRecvBuffer # <<>>)
      /\ UNCHANGED <<mSocket, mRecvBuffer, pending, delivered, values, filled, crashed, packet>>
  BY ControlParts DEF RecvFails, At, Goto, ControlTypes, shared, network
<1>2. pc'[t] = "lost" /\ \A u \in Threads : u # t => pc'[u] = pc[u]
  BY <1>1
<1>3. \A u \in Threads : u # t => Stream(u)'
  BY <1>1, <1>2, OthersQuiet DEF Active
<1>4. ~leftover' => ~leftover /\ Stream(t)'
  BY <1>1, <1>2 DEF Stream
<1>5. \A u \in RecvThreads : /\ pc'[u] = "none" => pc[u] = "none"
                             /\ pc'[u] # "OnReceive" => pc[u] # "OnReceive"
  BY <1>1, <1>2, ControlParts
<1> HIDE DEF Stream
<1> QED BY <1>1, <1>3, <1>4, <1>5 DEF StreamInv

LEMMA StreamRecvStep ==
  ASSUME ControlInv, DataTypes, StreamInv, ~crashed, NEW t \in RecvThreads, RecvStep(t)
  PROVE  StreamInv'
<1>1. t \in Threads
  BY ControlParts
<1>2. CASE Recv(t)
  <2>1. /\ pc[t] = "recv" /\ Goto(t, "wait") /\ UNCHANGED streamVars /\ UNCHANGED packet
    BY <1>2 DEF Recv, At, shared, network, history, streamVars
  <2> QED BY <1>1, <2>1, StreamMoves
<1>3. CASE LoseConnection(t)
  <2>1. /\ pc[t] = "lost" /\ Goto(t, "check") /\ UNCHANGED streamVars /\ UNCHANGED packet
    BY <1>3 DEF LoseConnection, At, locals, network, history, streamVars
  <2> QED BY <1>1, <2>1, StreamMoves
<1>4. CASE CloseSocket(t)
  <2>1. /\ pc[t] = "close" /\ Goto(t, "ended") /\ UNCHANGED streamVars /\ UNCHANGED packet
    BY <1>4 DEF CloseSocket, AfterClose, At, shared, locals, history, streamVars
  <2> QED BY <1>1, <2>1, StreamMoves
<1>5. CASE HeaderIncomplete(t)
  <2>1. /\ pc[t] = "loop" /\ Goto(t, "recv") /\ UNCHANGED streamVars /\ UNCHANGED packet
    BY <1>5 DEF HeaderIncomplete, At, shared, locals, network, history, streamVars
  <2> QED BY <1>1, <2>1, StreamMoves
<1> QED BY <1>2, <1>3, <1>4, <1>5, StreamRecvReturns, StreamRecvFails, StreamLoopStep,
          StreamOnReceive DEF RecvStep

LEMMA StreamStep ==
  ASSUME ControlInv, DataTypes, StreamInv, [Next]_vars
  PROVE  StreamInv'
<1>1. \A t \in Threads : pc[t] = "OnReceive" => t \in RecvThreads
  BY MainNeverReceives
<1>2. CASE UNCHANGED vars
  <2>1. UNCHANGED streamVars /\ UNCHANGED pc /\ UNCHANGED packet
    BY <1>2 DEF vars, shared, locals, network, history, streamVars
  <2> QED BY <1>1, <2>1, StreamStays
<1>3. ASSUME NEW s \in Sockets, ConnectionEnds(s) PROVE StreamInv'
  <2>1. UNCHANGED streamVars /\ UNCHANGED pc /\ UNCHANGED packet
    BY <1>3 DEF ConnectionEnds, shared, locals, history, streamVars
  <2> QED BY <1>1, <2>1, StreamStays
<1> QED BY <1>2, <1>3, StreamConnectStep, StreamMainStep, StreamRecvStep DEF Next

\* OnReceive is given the server's packets, whole and in order, and reads from each what
\* the server wrote, for any cuts by TCP and any number of connections, and no assertion of
\* recvThread fails (NetClient.cpp:107-128): for as long as no connection has ended inside
\* a packet and no recv has filled the buffer, the two conditions of ReceivesWhole.  The
\* code ensures neither.
THEOREM RepliesArriveWhole == Spec => []ReceivesWhole
<1>1. ASSUME DataTypes, StreamInv PROVE ReceivesWhole
  <2>1. \A t \in RecvThreads : DOMAIN delivered[t] = 1 .. Len(delivered[t])
    BY <1>1 DEF DataTypes
  <2> QED BY <1>1, <2>1 DEF StreamInv, ReceivesWhole
<1>2. Init => ControlInv /\ DataTypes /\ StreamInv
  BY ControlInit, DataInit, StreamInit
<1>3. ControlInv /\ DataTypes /\ StreamInv /\ [Next]_vars
        => ControlInv' /\ DataTypes' /\ StreamInv'
  BY ControlStep, DataStep, StreamStep
<1> QED BY <1>1, <1>2, <1>3, PTL DEF Spec
=============================================================================
