--------------------------- MODULE ReceiveProofs ---------------------------
(***************************************************************************)
(* Proofs about the ring buffer and the receive path above it.             *)
(*                                                                         *)
(* For every capacity, every length of the stream and every sequence of    *)
(* calls the ring buffer loses no byte until a direct write fills it; for  *)
(* every stream of packets and every way TCP cuts it OnReceive gets the    *)
(* packets whole, in order and each once, until a receive fills the        *)
(* buffer.  Nothing is assumed of the writers: what they may do is in the  *)
(* specification, and the properties say when they hold (~filled).         *)
(*                                                                         *)
(* The lemmas about the buffer take the values of mFront, mRear and the    *)
(* other variables as parameters, so that they say the same of a state and *)
(* of its successor.  RingInv is inductive because its last conjunct       *)
(* speaks of each cell and not, as BytesKept, of each byte: a step is then *)
(* linear arithmetic on the distance of a cell from mFront.                *)
(***************************************************************************)
EXTENDS Receive, ProofLemmas

----------------------------------------------------------------------------
(* The ring buffer *)

\* How far cell c is behind the one at f, around the buffer.
Distance(f, c) == IF c >= f THEN c - f ELSE c - f + mCapacity

\* The u cells from f on hold the bytes after r, in order.
HoldsStream(B, f, u, r) ==
  \A c \in Cells : Distance(f, c) < u => B[c] = r + 1 + Distance(f, c)

\* The cells behind them hold none of the bytes after r.
OthersRead(B, f, u, r) == \A c \in Cells : Distance(f, c) >= u => B[c] <= r

\* The unread bytes, all of them and nothing else, are in the used cells.
InOrder ==
  /\ GetUseSize = written - read
  /\ HoldsStream(mBuffer, mFront, GetUseSize, read)
  /\ OthersRead(mBuffer, mFront, GetUseSize, read)

\* A buffer that was filled may hold fewer bytes than were written and not read,
\* never more.
RingInv ==
  /\ RingTypeOK
  /\ GetUseSize <= written - read
  /\ ~filled => InOrder

----------------------------------------------------------------------------
(* Arithmetic around the buffer *)

\* The remainder by the capacity, for the sums the buffer computes.
LEMMA Remainder ==
  \A n \in Nat \ {0}, a \in Nat : a < 2 * n => a % n = IF a < n THEN a ELSE a - n
  BY SMT

\* GetUseSize is the distance from mFront to mRear.
LEMMA UseSize ==
  ASSUME NEW f \in Cells, NEW r \in Cells
  PROVE  (r - f + mCapacity) % mCapacity = Distance(f, r)
  <1> DEFINE a == r - f + mCapacity
  <1>1. mCapacity \in Nat \ {0} /\ a \in Nat /\ a < 2 * mCapacity
    BY RingConstants DEF Cells
  <1>2. a % mCapacity = IF a < mCapacity THEN a ELSE a - mCapacity
    <2> HIDE DEF a
    <2> QED BY <1>1, Remainder
  <1> QED BY <1>1, <1>2, RingConstants DEF Cells, Distance

\* A pointer moves on by at most the capacity: it wraps at most once.
LEMMA Moves ==
  ASSUME NEW p \in Cells, NEW n \in 0 .. mCapacity
  PROVE  (p + n) % mCapacity = IF p + n < mCapacity THEN p + n ELSE p + n - mCapacity
  <1> DEFINE a == p + n
  <1>1. mCapacity \in Nat \ {0} /\ a \in Nat /\ a < 2 * mCapacity
    BY RingConstants DEF Cells
  <1>2. a % mCapacity = IF a < mCapacity THEN a ELSE a - mCapacity
    <2> HIDE DEF a
    <2> QED BY <1>1, Remainder
  <1> QED BY <1>1, <1>2, RingConstants DEF Cells

\* Cells and unread bytes: the statement by bytes, of BytesKept, and the one by
\* cells say the same.
LEMMA ByCellsByBytes ==
  ASSUME NEW B, NEW f \in Cells, NEW u \in 0 .. mCapacity - 1, NEW r \in Nat
  PROVE  HoldsStream(B, f, u, r) <=> \A i \in 1 .. u : B[(f + i - 1) % mCapacity] = r + i
  <1>1. \A i \in 1 .. u : /\ (f + i - 1) % mCapacity \in Cells
                          /\ Distance(f, (f + i - 1) % mCapacity) = i - 1
    <2> TAKE i \in 1 .. u
    <2>1. i - 1 \in 0 .. mCapacity /\ f + i - 1 = f + (i - 1)
      BY RingConstants DEF Cells
    <2>2. (f + i - 1) % mCapacity = IF f + (i - 1) < mCapacity THEN f + (i - 1)
                                    ELSE f + (i - 1) - mCapacity
      BY <2>1, Moves
    <2> QED BY <2>1, <2>2, RingConstants DEF Cells, Distance
  <1>2. \A c \in Cells : /\ Distance(f, c) \in Cells
                         /\ (f + (Distance(f, c) + 1) - 1) % mCapacity = c
    <2> TAKE c \in Cells
    <2>1. /\ Distance(f, c) \in Cells /\ Distance(f, c) \in 0 .. mCapacity
          /\ f + (Distance(f, c) + 1) - 1 = f + Distance(f, c)
      BY RingConstants DEF Cells, Distance
    <2>2. (f + Distance(f, c)) % mCapacity
            = IF f + Distance(f, c) < mCapacity THEN f + Distance(f, c)
              ELSE f + Distance(f, c) - mCapacity
      BY <2>1, Moves
    <2> QED BY <2>1, <2>2, RingConstants DEF Cells, Distance
  <1>3. ASSUME HoldsStream(B, f, u, r), NEW i \in 1 .. u
        PROVE  B[(f + i - 1) % mCapacity] = r + i
    BY <1>1, <1>3 DEF HoldsStream
  <1>4. ASSUME \A i \in 1 .. u : B[(f + i - 1) % mCapacity] = r + i,
               NEW c \in Cells, Distance(f, c) < u
        PROVE  B[c] = r + 1 + Distance(f, c)
    <2>1. Distance(f, c) + 1 \in 1 .. u
      BY <1>2, <1>4 DEF Cells
    <2>2. B[(f + (Distance(f, c) + 1) - 1) % mCapacity] = r + (Distance(f, c) + 1)
      BY <1>4, <2>1, Zenon
    <2>3. B[c] = r + (Distance(f, c) + 1)
      BY <1>2, <2>2, Zenon
    <2>4. Distance(f, c) \in 0 .. mCapacity - 1
      BY <1>2 DEF Cells
    <2> QED BY <2>3, <2>4, RingConstants
  <1> QED BY <1>3, <1>4 DEF HoldsStream

----------------------------------------------------------------------------
(* The calls *)

\* GetUseSize never reaches the capacity, and the region a direct writer is
\* given ends inside the buffer and holds no unread byte.
LEMMA Sizes ==
  ASSUME mFront \in Cells, mRear \in Cells
  PROVE  /\ GetUseSize = Distance(mFront, mRear)
         /\ GetUseSize \in 0 .. mCapacity - 1
         /\ GetDirectEnqueueSize \in 1 .. mCapacity
         /\ mRear + GetDirectEnqueueSize <= mCapacity
         /\ GetUseSize + GetDirectEnqueueSize <= mCapacity
  <1>1. GetUseSize = Distance(mFront, mRear)
    BY UseSize DEF GetUseSize
  <1> QED BY <1>1, RingConstants DEF Cells, Distance, GetDirectEnqueueSize

\* The invariant gives the property, and the type of what it needs.
LEMMA InvGivesBytesKept == RingInv => BytesKept
  <1> SUFFICES ASSUME RingInv, ~filled
               PROVE  /\ GetUseSize = written - read
                      /\ \A i \in 1 .. GetUseSize : mBuffer[(mFront + i - 1) % mCapacity] = read + i
    BY DEF BytesKept
  <1>1. mFront \in Cells /\ GetUseSize \in 0 .. mCapacity - 1 /\ read \in Nat
    BY Sizes, RingConstants DEF RingInv, RingTypeOK
  <1>2. InOrder
    BY DEF RingInv
  <1>3. \A i \in 1 .. GetUseSize : mBuffer[(mFront + i - 1) % mCapacity] = read + i
    BY <1>1, <1>2, ByCellsByBytes DEF InOrder
  <1> QED BY <1>2, <1>3 DEF InOrder

\* n bytes written from mRear on, k of them before the end of the buffer: the
\* pointer wraps, and reaches mFront when the last free byte is taken.
LEMMA WriteTyped ==
  ASSUME RingTypeOK, NEW n \in 1 .. mCapacity, NEW k \in 0 .. n,
         GetUseSize + n <= mCapacity, written + n <= MaxBytes
  PROVE  /\ Written(n, k) \in [Cells -> 0 .. MaxBytes]
         /\ (mRear + n) % mCapacity \in Cells
         /\ Distance(mFront, (mRear + n) % mCapacity)
              = IF GetUseSize + n = mCapacity THEN 0 ELSE GetUseSize + n
  <1> DEFINE u == GetUseSize
             m == (mRear + n) % mCapacity
  <1>1. /\ mBuffer \in [Cells -> 0 .. MaxBytes] /\ mFront \in Cells /\ mRear \in Cells
        /\ written \in Nat /\ MaxBytes \in Nat /\ n \in Nat /\ k \in Nat /\ k <= n
        /\ u = Distance(mFront, mRear) /\ u \in 0 .. mCapacity - 1
    BY Sizes, RingConstants DEF RingTypeOK
  <1>2. m = IF mRear + n < mCapacity THEN mRear + n ELSE mRear + n - mCapacity
    BY <1>1, Moves, RingConstants
  <1>3. u + n <= mCapacity /\ n >= 1
    OBVIOUS
  <1> HIDE DEF u, m
  <1>4. m \in Cells
    BY <1>1, <1>2, <1>3, RingConstants DEF Cells
  <1>5. Distance(mFront, m) = IF u + n = mCapacity THEN 0 ELSE u + n
    BY <1>1, <1>2, <1>3, RingConstants DEF Cells, Distance
  <1>6. Written(n, k) \in [Cells -> 0 .. MaxBytes]
    <2>1. ASSUME NEW c \in Cells, mRear <= c, c < mRear + k
          PROVE  written + 1 + (c - mRear) \in 0 .. MaxBytes
      BY <1>1, <2>1 DEF Cells
    <2>2. ASSUME NEW c \in Cells, c < n - k
          PROVE  written + 1 + k + c \in 0 .. MaxBytes
      BY <1>1, <2>2 DEF Cells
    <2>3. \A c \in Cells : mBuffer[c] \in 0 .. MaxBytes
      BY <1>1
    <2> QED BY <2>1, <2>2, <2>3 DEF Written
  <1> QED BY <1>4, <1>5, <1>6 DEF u, m

\* With one byte left free the stream goes on where it was.
LEMMA WriteKeeps ==
  ASSUME RingInv, ~filled, NEW n \in 1 .. mCapacity, NEW k \in 0 .. n,
         GetUseSize + n < mCapacity, written + n <= MaxBytes,
         \/ k = n /\ mRear + n <= mCapacity
         \/ k = mCapacity - mRear
  PROVE  /\ HoldsStream(Written(n, k), mFront, GetUseSize + n, read)
         /\ OthersRead(Written(n, k), mFront, GetUseSize + n, read)
  <1> DEFINE u == GetUseSize
  <1>0. InOrder
    BY DEF RingInv
  <1>1. /\ mFront \in Cells /\ mRear \in Cells
        /\ written \in 0 .. MaxBytes /\ read \in 0 .. MaxBytes
        /\ written = read + u /\ u = Distance(mFront, mRear) /\ u \in 0 .. mCapacity - 1
    BY <1>0, Sizes, RingConstants DEF InOrder, RingInv, RingTypeOK
  <1>2. HoldsStream(mBuffer, mFront, u, read) /\ OthersRead(mBuffer, mFront, u, read)
    BY <1>0 DEF InOrder
  <1>3. u + n < mCapacity
    OBVIOUS
  <1> HIDE DEF u
  <1>n. /\ mRear \in Nat /\ written \in Nat /\ read \in Nat /\ u \in Nat /\ n \in Nat /\ k \in Nat
        /\ k <= n /\ written = read + u
    BY <1>1, RingConstants DEF Cells
  <1>7. ASSUME NEW c \in Cells, Distance(mFront, c) < u + n
        PROVE  Written(n, k)[c] = read + 1 + Distance(mFront, c)
    <2>1. CASE Distance(mFront, c) < u
      <3>1. mBuffer[c] = read + 1 + Distance(mFront, c)
        BY <1>2, <2>1 DEF HoldsStream
      <3>2. ~(mRear <= c /\ c < mRear + k) /\ ~(c < n - k)
        BY <1>1, <1>3, <2>1, RingConstants DEF Cells, Distance
      <3> QED BY <3>1, <3>2 DEF Written
    <2>2. CASE Distance(mFront, c) >= u
      <3>1. \/ mRear <= c /\ c < mRear + k
            \/ ~(mRear <= c /\ c < mRear + k) /\ c < n - k
        BY <1>1, <1>3, <1>7, <2>2, RingConstants DEF Cells, Distance
      <3>2. CASE mRear <= c /\ c < mRear + k
        <4>1. Written(n, k)[c] = written + 1 + (c - mRear)
          BY <3>2 DEF Written
        <4>2. Distance(mFront, c) = u + (c - mRear)
          BY <1>1, <1>3, <1>7, <2>2, <3>2, RingConstants DEF Cells, Distance
        <4>3. written + 1 + (c - mRear) = read + 1 + (u + (c - mRear))
          BY <1>n DEF Cells
        <4> QED BY <4>1, <4>2, <4>3
      <3>3. CASE ~(mRear <= c /\ c < mRear + k) /\ c < n - k
        <4>1. Written(n, k)[c] = written + 1 + k + c
          BY <3>3 DEF Written
        <4>2. Distance(mFront, c) = u + k + c
          BY <1>1, <1>3, <1>7, <2>2, <3>3, RingConstants DEF Cells, Distance
        <4>3. written + 1 + k + c = read + 1 + (u + k + c)
          BY <1>n DEF Cells
        <4> QED BY <4>1, <4>2, <4>3
      <3> QED BY <3>1, <3>2, <3>3
    <2> QED BY <1>1, <2>1, <2>2, RingConstants DEF Cells, Distance
  <1>8. ASSUME NEW c \in Cells, Distance(mFront, c) >= u + n
        PROVE  Written(n, k)[c] <= read
    <2>1. Distance(mFront, c) >= u
      BY <1>1, <1>n, <1>8, RingConstants DEF Cells, Distance
    <2>2. ~(mRear <= c /\ c < mRear + k) /\ ~(c < n - k)
      BY <1>1, <1>3, <1>8, RingConstants DEF Cells, Distance
    <2>3. Written(n, k)[c] = mBuffer[c]
      BY <2>2 DEF Written
    <2> QED BY <1>2, <2>1, <2>3 DEF OthersRead
  <1> QED BY <1>7, <1>8 DEF HoldsStream, OthersRead, u

\* n bytes taken from mFront on.
LEMMA TakeTyped ==
  ASSUME RingTypeOK, NEW n \in 1 .. mCapacity, GetUseSize >= n
  PROVE  /\ (mFront + n) % mCapacity \in Cells
         /\ Distance((mFront + n) % mCapacity, mRear) = GetUseSize - n
  <1> DEFINE u == GetUseSize
             m == (mFront + n) % mCapacity
  <1>1. /\ mFront \in Cells /\ mRear \in Cells
        /\ u = Distance(mFront, mRear) /\ u \in 0 .. mCapacity - 1 /\ n <= u
    BY Sizes, RingConstants DEF RingTypeOK
  <1>2. m = IF mFront + n < mCapacity THEN mFront + n ELSE mFront + n - mCapacity
    BY <1>1, Moves, RingConstants
  <1> HIDE DEF u, m
  <1>3. m \in Cells /\ Distance(m, mRear) = u - n
    BY <1>1, <1>2, RingConstants DEF Cells, Distance
  <1> QED BY <1>3 DEF u, m

\* The others stay where they are.
LEMMA TakeKeeps ==
  ASSUME RingInv, ~filled, NEW n \in 1 .. mCapacity, GetUseSize >= n
  PROVE  /\ HoldsStream(mBuffer, (mFront + n) % mCapacity, GetUseSize - n, read + n)
         /\ OthersRead(mBuffer, (mFront + n) % mCapacity, GetUseSize - n, read + n)
  <1> DEFINE u == GetUseSize
             m == (mFront + n) % mCapacity
  <1>0. InOrder
    BY DEF RingInv
  <1>1. /\ mFront \in Cells /\ mRear \in Cells /\ read \in Nat
        /\ mBuffer \in [Cells -> 0 .. MaxBytes] /\ MaxBytes \in Nat
        /\ u = Distance(mFront, mRear) /\ u \in 0 .. mCapacity - 1
        /\ n <= u
    BY Sizes, RingConstants DEF RingInv, RingTypeOK
  <1>2. HoldsStream(mBuffer, mFront, u, read) /\ OthersRead(mBuffer, mFront, u, read)
    BY <1>0 DEF InOrder
  <1>3. m = IF mFront + n < mCapacity THEN mFront + n ELSE mFront + n - mCapacity
    BY <1>1, Moves, RingConstants
  <1> HIDE DEF u, m
  <1>5. ASSUME NEW c \in Cells, Distance(m, c) < u - n
        PROVE  mBuffer[c] = read + n + 1 + Distance(m, c)
    <2>1. Distance(mFront, c) = n + Distance(m, c) /\ Distance(m, c) \in Nat
      BY <1>1, <1>3, <1>5, RingConstants DEF Cells, Distance
    <2>2. Distance(mFront, c) < u
      BY <1>1, <1>5, <2>1, RingConstants
    <2>3. mBuffer[c] = read + 1 + Distance(mFront, c)
      BY <1>2, <2>2 DEF HoldsStream
    <2> QED BY <1>1, <2>1, <2>3, RingConstants
  <1>6. ASSUME NEW c \in Cells, Distance(m, c) >= u - n
        PROVE  mBuffer[c] <= read + n
    <2>1. \/ Distance(mFront, c) >= u
          \/ Distance(mFront, c) < u /\ Distance(mFront, c) < n /\ Distance(mFront, c) \in Nat
      BY <1>1, <1>3, <1>6, RingConstants DEF Cells, Distance
    <2>2. CASE Distance(mFront, c) >= u
      <3>1. mBuffer[c] <= read /\ mBuffer[c] \in 0 .. MaxBytes
        BY <1>1, <1>2, <2>2 DEF OthersRead
      <3> QED BY <1>1, <3>1
    <2>3. CASE Distance(mFront, c) < u /\ Distance(mFront, c) < n /\ Distance(mFront, c) \in Nat
      <3>1. mBuffer[c] = read + 1 + Distance(mFront, c)
        BY <1>2, <2>3 DEF HoldsStream
      <3> QED BY <1>1, <2>3, <3>1
    <2> QED BY <2>1, <2>2, <2>3
  <1> QED BY <1>5, <1>6 DEF HoldsStream, OthersRead, u, m

----------------------------------------------------------------------------
(* The steps *)

\* The empty buffer holds nothing.
LEMMA InvInit == RingInit => RingInv
  <1> SUFFICES ASSUME RingInit PROVE RingInv
    OBVIOUS
  <1>1. mFront \in Cells /\ mRear \in Cells /\ mFront = 0 /\ mRear = 0
    BY RingConstants DEF RingInit, Cells
  <1>2. GetUseSize = 0
    BY <1>1, Sizes, RingConstants DEF Distance
  <1>3. \A c \in Cells : ~(Distance(mFront, c) < 0) /\ mBuffer[c] = 0
    BY <1>1, RingConstants DEF Cells, Distance, RingInit
  <1>4. HoldsStream(mBuffer, mFront, GetUseSize, read) /\ OthersRead(mBuffer, mFront, GetUseSize, read)
    BY <1>2, <1>3 DEF HoldsStream, OthersRead, RingInit
  <1>5. RingTypeOK
    <2>1. mBuffer \in [Cells -> 0 .. MaxBytes]
      <3>1. 0 \in 0 .. MaxBytes
        BY RingConstants
      <3> QED BY <3>1 DEF RingInit
    <2>2. /\ written = 0 /\ read = 0 /\ filled \in BOOLEAN
      BY DEF RingInit
    <2>3. written \in 0 .. MaxBytes /\ read \in 0 .. MaxBytes
      BY <2>2, RingConstants
    <2> QED BY <1>1, <2>1, <2>2, <2>3 DEF RingTypeOK
  <1>6. GetUseSize = written - read
    BY <1>2 DEF RingInit
  <1>7. GetUseSize <= written - read
    BY <1>2 DEF RingInit
  <1> QED BY <1>4, <1>5, <1>6, <1>7 DEF RingInv, InOrder

\* From the parts of RingInv in a state to the parts in its successor.
LEMMA WriteInv ==
  ASSUME RingInv, NEW n \in 1 .. mCapacity, NEW k \in 0 .. n,
         GetUseSize + n <= mCapacity, written + n <= MaxBytes,
         \/ k = n /\ mRear + n <= mCapacity
         \/ k = mCapacity - mRear,
         mBuffer' = Written(n, k), mRear' = (mRear + n) % mCapacity, written' = written + n,
         mFront' = mFront, read' = read,
         filled' \in BOOLEAN, ~filled' => ~filled /\ GetUseSize + n # mCapacity
  PROVE  RingInv'
  <1>1. /\ mFront \in Cells /\ mRear \in Cells /\ GetUseSize \in 0 .. mCapacity - 1
        /\ written \in Nat /\ read \in Nat /\ MaxBytes \in Nat /\ mCapacity \in Nat
        /\ read \in 0 .. MaxBytes /\ RingTypeOK /\ GetUseSize <= written - read
    BY Sizes, RingConstants DEF RingInv, RingTypeOK
  <1>2. /\ mBuffer' \in [Cells -> 0 .. MaxBytes] /\ mRear' \in Cells
        /\ Distance(mFront, mRear') = IF GetUseSize + n = mCapacity THEN 0 ELSE GetUseSize + n
    BY <1>1, WriteTyped
  <1>3. GetUseSize' = IF GetUseSize + n = mCapacity THEN 0 ELSE GetUseSize + n
    BY <1>1, <1>2, UseSize DEF GetUseSize
  <1>4. RingTypeOK'
    BY <1>1, <1>2 DEF RingTypeOK, Cells
  <1>5. GetUseSize' <= written' - read'
    BY <1>1, <1>3
  <1>6. ASSUME ~filled' PROVE InOrder'
    <2>1. ~filled /\ GetUseSize + n < mCapacity
      BY <1>1, <1>6
    <2>2. /\ HoldsStream(Written(n, k), mFront, GetUseSize + n, read)
          /\ OthersRead(Written(n, k), mFront, GetUseSize + n, read)
      BY <2>1, WriteKeeps
    <2>3. GetUseSize' = GetUseSize + n
      BY <1>1, <1>3, <2>1
    <2>4. GetUseSize = written - read
      BY <2>1 DEF RingInv, InOrder
    <2>5. GetUseSize' = written' - read'
      BY <1>1, <2>3, <2>4
    <2>6. HoldsStream(mBuffer', mFront', GetUseSize', read')
          /\ OthersRead(mBuffer', mFront', GetUseSize', read')
      BY <2>2, <2>3
    <2> QED BY <2>5, <2>6 DEF InOrder, HoldsStream, OthersRead, Distance, Cells
  <1> QED BY <1>4, <1>5, <1>6 DEF RingInv

\* Enqueue writes before the end of the buffer what fits there, the rest at its start.
LEMMA EnqueueInv ==
  ASSUME RingInv, NEW n \in 1 .. mCapacity, written + n <= MaxBytes, Enqueue(n)
  PROVE  RingInv'
  <1> DEFINE k == IF GetDirectEnqueueSize >= n THEN n ELSE GetDirectEnqueueSize
  <1>1. /\ mFront \in Cells /\ mRear \in Cells /\ GetUseSize \in 0 .. mCapacity - 1
        /\ GetDirectEnqueueSize \in 1 .. mCapacity /\ mRear + GetDirectEnqueueSize <= mCapacity
    BY Sizes DEF RingInv, RingTypeOK
  <1>2. GetUseSize + n < mCapacity
    BY <1>1, RingConstants DEF Enqueue, HasRoom, GetFreeSize
  <1>3. /\ k \in 0 .. n
        /\ (k = n /\ mRear + n <= mCapacity) \/ k = mCapacity - mRear
    BY <1>1, <1>2, RingConstants DEF Cells, GetDirectEnqueueSize
  <1>4. /\ mBuffer' = Written(n, k) /\ mRear' = (mRear + n) % mCapacity
        /\ written' = written + n /\ mFront' = mFront /\ read' = read /\ filled' = filled
    BY DEF Enqueue
  <1>5. filled \in BOOLEAN
    BY DEF RingInv, RingTypeOK
  <1> HIDE DEF k
  <1>6. GetUseSize + n <= mCapacity /\ GetUseSize + n # mCapacity
    BY <1>1, <1>2, RingConstants
  <1> QED BY <1>3, <1>4, <1>5, <1>6, WriteInv

\* A direct writer, who may fill the buffer.
LEMMA DirectWriteInv ==
  ASSUME RingInv, NEW n \in 1 .. mCapacity, written + n <= MaxBytes, DirectWrite(n)
  PROVE  RingInv'
  <1>1. /\ mFront \in Cells /\ mRear \in Cells /\ GetUseSize \in 0 .. mCapacity - 1
        /\ GetDirectEnqueueSize \in 1 .. mCapacity /\ mRear + GetDirectEnqueueSize <= mCapacity
        /\ GetUseSize + GetDirectEnqueueSize <= mCapacity
    BY Sizes DEF RingInv, RingTypeOK
  <1>2. n <= GetDirectEnqueueSize
    BY DEF DirectWrite
  <1>3. GetUseSize + n <= mCapacity /\ mRear + n <= mCapacity /\ n \in 0 .. n
    BY <1>1, <1>2, RingConstants DEF Cells
  <1>4. mRear' = (mRear + n) % mCapacity
    BY <1>1, <1>3, RingConstants DEF DirectWrite, MoveRear, Wrap
  <1>5. /\ mBuffer' = Written(n, n) /\ written' = written + n /\ mFront' = mFront /\ read' = read
        /\ filled' = (filled \/ GetUseSize + n = mCapacity)
    BY DEF DirectWrite
  <1>6. filled' \in BOOLEAN /\ (~filled' => ~filled /\ GetUseSize + n # mCapacity)
    BY <1>5
  <1> QED BY <1>3, <1>4, <1>5, <1>6, WriteInv

\* Dequeue and MoveFront.
LEMMA DequeueInv ==
  ASSUME RingInv, NEW n \in 1 .. mCapacity, Dequeue(n)
  PROVE  RingInv'
  <1>1. /\ mRear \in Cells /\ GetUseSize \in 0 .. mCapacity - 1 /\ GetUseSize >= n
        /\ written \in 0 .. MaxBytes /\ read \in Nat /\ GetUseSize <= written - read
        /\ mBuffer \in [Cells -> 0 .. MaxBytes] /\ filled \in BOOLEAN /\ MaxBytes \in Nat
        /\ mCapacity \in Nat /\ RingTypeOK
    BY Sizes, RingConstants DEF RingInv, RingTypeOK, Dequeue, MoveFront
  <1>2. /\ mFront' = (mFront + n) % mCapacity /\ read' = read + n
        /\ UNCHANGED <<mBuffer, mRear, written, filled>>
    BY DEF Dequeue, MoveFront
  <1>3. mFront' \in Cells /\ Distance(mFront', mRear) = GetUseSize - n
    BY <1>1, <1>2, TakeTyped
  <1>4. GetUseSize' = GetUseSize - n
    BY <1>1, <1>2, <1>3, UseSize DEF GetUseSize
  <1>5. read' \in 0 .. MaxBytes /\ GetUseSize' <= written' - read'
    BY <1>1, <1>2, <1>4
  <1>6. RingTypeOK'
    BY <1>1, <1>2, <1>3, <1>5 DEF RingTypeOK, Cells
  <1>7. ASSUME ~filled' PROVE InOrder'
    <2>1. ~filled
      BY <1>2, <1>7
    <2>2. /\ HoldsStream(mBuffer, mFront', GetUseSize - n, read + n)
          /\ OthersRead(mBuffer, mFront', GetUseSize - n, read + n)
      BY <1>1, <1>2, <2>1, TakeKeeps
    <2>3. GetUseSize = written - read
      BY <2>1 DEF RingInv, InOrder
    <2>4. GetUseSize' = written' - read'
      BY <1>1, <1>2, <1>4, <2>3
    <2>5. HoldsStream(mBuffer', mFront', GetUseSize', read')
          /\ OthersRead(mBuffer', mFront', GetUseSize', read')
      BY <1>2, <1>4, <2>2
    <2> QED BY <2>4, <2>5 DEF InOrder, HoldsStream, OthersRead, Distance, Cells
  <1> QED BY <1>5, <1>6, <1>7 DEF RingInv

\* A step that leaves the buffer alone.
LEMMA RingUntouched == RingInv /\ UNCHANGED ringVars => RingInv'
  <1> SUFFICES ASSUME RingInv, UNCHANGED ringVars PROVE RingInv'
    OBVIOUS
  <1>1. UNCHANGED <<mBuffer, mFront, mRear, written, read, filled>>
    BY DEF ringVars
  <1>2. GetUseSize' = GetUseSize /\ RingTypeOK'
    BY <1>1 DEF RingInv, RingTypeOK, GetUseSize, Cells
  <1>3. InOrder => InOrder'
    BY <1>1, <1>2 DEF InOrder, HoldsStream, OthersRead, Distance, Cells
  <1> QED BY <1>1, <1>2, <1>3 DEF RingInv

\* Every step of the buffer keeps the invariant.
LEMMA InvStep == RingInv /\ [RingNext]_ringVars => RingInv'
  <1> SUFFICES ASSUME RingInv, [RingNext]_ringVars PROVE RingInv'
    OBVIOUS
  <1>1. ASSUME NEW n \in 1 .. mCapacity, written + n <= MaxBytes /\ Enqueue(n)
        PROVE  RingInv'
    BY <1>1, EnqueueInv
  <1>2. ASSUME NEW n \in 1 .. mCapacity, written + n <= MaxBytes /\ DirectWrite(n)
        PROVE  RingInv'
    BY <1>2, DirectWriteInv
  <1>3. ASSUME NEW n \in 1 .. mCapacity, Dequeue(n)
        PROVE  RingInv'
    BY <1>3, DequeueInv
  <1>4. CASE UNCHANGED ringVars
    BY <1>4, RingUntouched
  <1>5. CASE StreamEnds
    BY <1>5, RingUntouched DEF StreamEnds
  <1> QED BY <1>1, <1>2, <1>3, <1>4, <1>5 DEF RingNext

\* The invariant gives the copies: the piece up to the end of the buffer and the
\* one from its start are the oldest bytes, in order.
LEMMA InvGivesPeek == RingInv => PeekIsOldest
  <1> SUFFICES ASSUME RingInv, ~filled, NEW n \in 0 .. GetUseSize
               PROVE  Copied(n) = [i \in 1 .. n |-> read + i]
    BY DEF PeekIsOldest
  <1> DEFINE u == GetUseSize
             first == IF GetDirectDequeueSize >= n THEN n ELSE GetDirectDequeueSize
  <1>1. /\ mFront \in Cells /\ mRear \in Cells /\ read \in Nat /\ u \in 0 .. mCapacity - 1
        /\ u = Distance(mFront, mRear) /\ n \in 0 .. u
    BY Sizes, RingConstants DEF RingInv, RingTypeOK
  <1>2. HoldsStream(mBuffer, mFront, u, read)
    BY DEF RingInv, InOrder
  <1>3. /\ first \in 0 .. n /\ mFront + first <= mCapacity
        /\ first < n => first = mCapacity - mFront
    BY <1>1, RingConstants DEF GetDirectDequeueSize, Cells, Distance
  <1> HIDE DEF u, first
  <1>4. ASSUME NEW i \in 1 .. n, i <= first
        PROVE  mBuffer[mFront + i - 1] = read + i
    <2>1. mFront + i - 1 \in Cells /\ Distance(mFront, mFront + i - 1) = i - 1 /\ i - 1 < u
      BY <1>1, <1>3, <1>4, RingConstants DEF Cells, Distance
    <2>2. mBuffer[mFront + i - 1] = read + 1 + Distance(mFront, mFront + i - 1)
      BY <1>2, <2>1 DEF HoldsStream
    <2> QED BY <1>1, <2>1, <2>2
  <1>5. ASSUME NEW i \in 1 .. n, ~(i <= first)
        PROVE  mBuffer[i - first - 1] = read + i
    <2>1. /\ i - first - 1 \in Cells /\ Distance(mFront, i - first - 1) = i - 1 /\ i - 1 < u
      BY <1>1, <1>3, <1>5, RingConstants DEF Cells, Distance
    <2>2. mBuffer[i - first - 1] = read + 1 + Distance(mFront, i - first - 1)
      BY <1>2, <2>1 DEF HoldsStream
    <2> QED BY <1>1, <2>1, <2>2
  <1>6. Copied(n) = [i \in 1 .. n |-> IF i <= first THEN mBuffer[mFront + i - 1]
                                      ELSE mBuffer[i - first - 1]]
    BY DEF Copied, first
  <1> QED BY <1>4, <1>5, <1>6

----------------------------------------------------------------------------
\* For every capacity and stream, whatever direct writers bring: RingInv holds in
\* every state.
THEOREM RingInvariant == RingSpec => []RingInv
  <1>1. RingInit => RingInv
    BY InvInit
  <1>2. RingInv /\ [RingNext]_ringVars => RingInv'
    BY InvStep
  <1> QED BY <1>1, <1>2, PTL DEF RingSpec

\* The values stay in their ranges, also after a write that fills the buffer:
\* mFront and mRear wrap in time.
THEOREM RingTyped == RingSpec => []RingTypeOK
  <1>1. RingInv => RingTypeOK
    BY DEF RingInv
  <1> QED BY <1>1, RingInvariant, PTL

\* Until a direct write fills the buffer no byte is lost, doubled or overwritten
\* before it is read.
THEOREM RingKeepsBytes == RingSpec => []BytesKept
  <1>1. RingInv => BytesKept
    BY InvGivesBytesKept
  <1> QED BY <1>1, RingInvariant, PTL

\* Until a direct write fills the buffer Peek and Dequeue copy the oldest bytes in
\* order, in one piece or in two.
THEOREM RingPeeksOldest == RingSpec => []PeekIsOldest
  <1>1. RingInv => PeekIsOldest
    BY InvGivesPeek
  <1> QED BY <1>1, RingInvariant, PTL

\* The memory lent to recv: cells of the buffer from mRear on, none of them used,
\* so that what they hold has been read.
LEMMA InvGivesDirectWrite == RingInv => DirectWriteIsSafe
  <1> SUFFICES ASSUME RingInv, ~filled, NEW c \in mRear .. mRear + GetDirectEnqueueSize - 1
               PROVE  c \in Cells /\ mBuffer[c] \notin Unread
    BY DEF DirectWriteIsSafe
  <1> DEFINE u == GetUseSize
             d == GetDirectEnqueueSize
  <1>1. /\ mFront \in Cells /\ mRear \in Cells /\ u = Distance(mFront, mRear)
        /\ d \in 1 .. mCapacity /\ mRear + d <= mCapacity /\ u + d <= mCapacity
        /\ u \in 0 .. mCapacity - 1 /\ read \in Nat /\ mBuffer \in [Cells -> 0 .. MaxBytes]
    BY Sizes, RingConstants DEF RingInv, RingTypeOK
  <1>2. OthersRead(mBuffer, mFront, u, read)
    BY DEF RingInv, InOrder
  <1>3. c \in mRear .. mRear + d - 1
    OBVIOUS
  <1> HIDE DEF u, d
  <1>4. c \in Cells /\ Distance(mFront, c) >= u
    BY <1>1, <1>3, RingConstants DEF Cells, Distance
  <1>5. mBuffer[c] <= read /\ mBuffer[c] \in 0 .. MaxBytes
    BY <1>1, <1>2, <1>4 DEF OthersRead
  <1>6. mBuffer[c] \notin Unread
    BY <1>1, <1>5, RingConstants DEF Unread
  <1> QED BY <1>4, <1>6

\* Until a direct write fills the buffer, the memory lent to recv lies in it and
\* holds no unread byte.
THEOREM RingLendsFreeMemory == RingSpec => []DirectWriteIsSafe
  <1>1. RingInv => DirectWriteIsSafe
    BY InvGivesDirectWrite
  <1> QED BY <1>1, RingInvariant, PTL

----------------------------------------------------------------------------
(* Where the packets are in the stream *)

PacketType == [code : BOOLEAN, length : Nat, checksum : BOOLEAN]

\* s is the function Starts defines, up to packet n.
StartsUpTo(s, ps, n) ==
  s = [i \in 1 .. n |-> IF i = 1 THEN 0 ELSE s[i - 1] + Size(ps[i - 1])]

\* The recursion of Starts has a solution.
LEMMA StartsExist ==
  ASSUME NEW ps \in Seq(PacketType), NEW n \in 1 .. Len(ps) + 1
  PROVE  \E s \in [1 .. n -> Nat] : StartsUpTo(s, ps, n)
<1> DEFINE T == { m \in 1 .. Len(ps) + 1 :
                    ~ \E s \in [1 .. m -> Nat] : StartsUpTo(s, ps, m) }
<1>0. HeaderSize \in Nat /\ Len(ps) \in Nat
  BY ReceiveConstants
<1>1. SUFFICES ASSUME T # {} PROVE FALSE
  OBVIOUS
<1>2. PICK m \in T : \A y \in T : m <= y
  <2>1. T \subseteq Nat
    BY <1>0
  <2> HIDE DEF T
  <2> QED BY <1>1, <2>1, LeastNumber
<1>3. CASE m = 1
  <2> DEFINE s == [i \in 1 .. 1 |-> 0]
  <2>1. s \in [1 .. m -> Nat] /\ StartsUpTo(s, ps, m)
    BY <1>3 DEF StartsUpTo
  <2> QED BY <2>1
<1>4. CASE m # 1
  <2>0. m \in 1 .. Len(ps) + 1 /\ m - 1 \in 1 .. Len(ps) /\ m - 1 \in 1 .. Len(ps) + 1
    BY <1>0, <1>4
  <2>1. m - 1 \notin T
    <3>1. m \in Nat /\ m - 1 \in Nat
      BY <1>0, <2>0
    <3> HIDE DEF T
    <3> QED BY <1>2, <3>1
  <2>2. PICK s \in [1 .. m - 1 -> Nat] : StartsUpTo(s, ps, m - 1)
    BY <2>0, <2>1
  <2> DEFINE r == [i \in 1 .. m |-> IF i = m THEN s[m - 1] + Size(ps[m - 1]) ELSE s[i]]
  <2>3. ps[m - 1] \in PacketType
    BY <2>0
  <2>4. s[m - 1] \in Nat /\ Size(ps[m - 1]) \in Nat
    <3> DEFINE p == ps[m - 1]
    <3>1. p.length \in Nat
      BY <2>3 DEF PacketType
    <3>2. Size(p) \in Nat
      BY <1>0, <3>1 DEF Size
    <3>3. s[m - 1] \in Nat
      <4>1. m - 1 \in 1 .. m - 1
        BY <1>0, <2>0
      <4> HIDE DEF T
      <4> QED BY <4>1
    <3> QED BY <3>2, <3>3
  <2>5. r \in [1 .. m -> Nat]
    BY <2>0, <2>4
  <2>6. \A i \in 1 .. m - 1 : s[i] = IF i = 1 THEN 0 ELSE s[i - 1] + Size(ps[i - 1])
    <3> HIDE DEF r
    <3> QED BY <2>2 DEF StartsUpTo
  <2>7. \A i \in 1 .. m : r[i] = IF i = 1 THEN 0 ELSE r[i - 1] + Size(ps[i - 1])
    BY <1>4, <2>0, <2>6
  <2>8. r = [i \in 1 .. m |-> IF i = 1 THEN 0 ELSE r[i - 1] + Size(ps[i - 1])]
    BY <2>7
  <2> HIDE DEF r
  <2>9. StartsUpTo(r, ps, m)
    BY <2>8 DEF StartsUpTo
  <2> QED BY <2>5, <2>9
<1> QED BY <1>3, <1>4

\* What Starts computes: the sum of the sizes, packet by packet.
LEMMA StartsDefined ==
  ASSUME NEW ps \in Seq(PacketType)
  PROVE  /\ Starts(ps)[1] = 0
         /\ \A i \in 1 .. Len(ps) : Starts(ps)[i + 1] = Starts(ps)[i] + Size(ps[i])
<1> DEFINE N == Len(ps) + 1
           F(s) == [i \in 1 .. N |-> IF i = 1 THEN 0 ELSE s[i - 1] + Size(ps[i - 1])]
           st == CHOOSE s : s = F(s)
<1>0. Len(ps) \in Nat
  OBVIOUS
<1>1. \E s : s = F(s)
  BY <1>0, StartsExist DEF StartsUpTo
<1>2. st = F(st)
  <2> HIDE DEF F
  <2> QED BY <1>1
<1>3. Starts(ps) = st
  BY DEF Starts
<1> HIDE DEF st
<1>4. \A i \in 1 .. N : st[i] = IF i = 1 THEN 0 ELSE st[i - 1] + Size(ps[i - 1])
  BY <1>2
<1>5. st[1] = 0
  BY <1>0, <1>4
<1>6. ASSUME NEW i \in 1 .. Len(ps)
      PROVE  st[i + 1] = st[i] + Size(ps[i])
  <2>1. i + 1 \in 1 .. N /\ i + 1 # 1 /\ (i + 1) - 1 = i
    BY <1>0
  <2> HIDE DEF N
  <2>2. st[i + 1] = IF i + 1 = 1 THEN 0 ELSE st[(i + 1) - 1] + Size(ps[(i + 1) - 1])
    BY <1>4, <2>1
  <2> QED BY <2>1, <2>2
<1> QED BY <1>3, <1>5, <1>6

\* The packets follow one another, none is empty.
LEMMA StartsIncrease ==
  ASSUME NEW ps \in Seq(PacketType), NEW i \in 1 .. Len(ps) + 1, NEW j \in 1 .. Len(ps) + 1, i < j
  PROVE  Starts(ps)[i] \in Nat /\ Starts(ps)[j] \in Nat /\ Starts(ps)[i] < Starts(ps)[j]
<1> DEFINE st == Starts(ps)
           T == { m \in 1 .. Len(ps) + 1 :
                    st[m] \notin Nat \/ \E k \in 1 .. m - 1 : ~(st[k] < st[m]) }
<1>0. Len(ps) \in Nat /\ HeaderSize \in Nat \ {0}
  BY ReceiveConstants
<1>1. /\ st[1] = 0
      /\ \A m \in 1 .. Len(ps) : st[m + 1] = st[m] + Size(ps[m])
  BY StartsDefined
<1> HIDE DEF st
<1>2. ASSUME T # {} PROVE FALSE
  <2>1. PICK m \in T : \A y \in T : m <= y
    <3>1. T \subseteq Nat
      BY <1>0
    <3> HIDE DEF T
    <3> QED BY <1>2, <3>1, LeastNumber
  <2>2. m # 1
    BY <1>1, <2>1
  <2>3. /\ m - 1 \in 1 .. Len(ps) /\ m - 1 \in 1 .. Len(ps) + 1
        /\ m \in 1 .. Len(ps) + 1 /\ m = (m - 1) + 1
    BY <1>0, <2>1, <2>2
  <2>4. m - 1 \notin T
    BY <2>1, <2>3
  <2>5. st[m - 1] \in Nat /\ \A k \in 1 .. (m - 1) - 1 : st[k] < st[m - 1]
    BY <2>3, <2>4
  <2>6. ps[m - 1] \in PacketType
    BY <2>3
  <2>7. Size(ps[m - 1]) \in Nat /\ Size(ps[m - 1]) > 0
    <3> DEFINE p == ps[m - 1]
    <3>1. p.length \in Nat
      BY <2>6 DEF PacketType
    <3> QED BY <1>0, <3>1 DEF Size
  <2>8. st[m] = st[m - 1] + Size(ps[m - 1])
    BY <1>1, <2>3
  <2>9. ASSUME NEW k \in 1 .. m - 1 PROVE st[k] < st[m]
    <3>1. CASE k = m - 1
      BY <2>5, <2>7, <2>8, <3>1
    <3>2. CASE k # m - 1
      <4>1. k \in 1 .. (m - 1) - 1 /\ k \in 1 .. Len(ps) + 1 /\ k \in Nat /\ ~(m <= k)
        BY <1>0, <2>3, <3>2
      <4>2. k \notin T
        <5> HIDE DEF T
        <5> QED BY <2>1, <4>1
      <4>3. st[k] \in Nat /\ st[k] < st[m - 1]
        BY <2>5, <4>1, <4>2
      <4> QED BY <2>5, <2>7, <2>8, <4>3
    <3> QED BY <3>1, <3>2
  <2> QED BY <2>1, <2>5, <2>7, <2>8, <2>9
<1>3. i \notin T /\ j \notin T /\ i \in 1 .. j - 1
  BY <1>0, <1>2
<1> QED BY <1>3 DEF st

----------------------------------------------------------------------------
(* The invariant *)

\* A packet the loop hands to OnReceive.
Good(p) == p.code /\ p.length <= mMaxPayloadLength /\ p.checksum

\* What one of the deployments gives the program and the peer.
Deployed ==
  /\ mMaxPayloadLength \in Nat /\ lead \in Nat
  /\ packets \in Seq(PacketType)
  /\ Total <= MaxBytes

\* While the loop goes on and no receive has filled the buffer, it has read exactly
\* the packets it has handed out, so mFront is at the start of the next one.
ReceiveInv ==
  /\ Deployed
  /\ RingInv /\ written <= Total
  /\ bDisconnectRegistered \in BOOLEAN
  /\ pc \in {"posted", "loop", "stopped"}
  /\ received \in Seq(Seq(0 .. MaxBytes))
  /\ PacketsWhole
  /\ ~filled /\ pc # "stopped" => read = Start(Len(received) + 1)

\* What Starts says, of the packets of this peer.
LEMMA StreamOfPackets ==
  ASSUME Deployed
  PROVE  /\ Start(1) = 0
         /\ Len(packets) \in Nat /\ Total \in Nat
         /\ \A i \in 1 .. Len(packets) :
              /\ packets[i] \in PacketType
              /\ Size(packets[i]) \in Nat /\ Size(packets[i]) >= HeaderSize
              /\ Start(i) \in Nat
              /\ Start(i + 1) = Start(i) + Size(packets[i])
              /\ Start(i + 1) <= Total
         /\ \A i, j \in 1 .. Len(packets) + 1 : Start(i) = Start(j) => i = j
<1> USE DEF Start
<1>1. packets \in Seq(PacketType) /\ Len(packets) \in Nat /\ HeaderSize \in Nat
  BY ReceiveConstants DEF Deployed
<1>2. Start(1) = 0 /\ \A i \in 1 .. Len(packets) : Start(i + 1) = Start(i) + Size(packets[i])
  BY <1>1, StartsDefined
<1>3. \A i, j \in 1 .. Len(packets) + 1 :
        i < j => Start(i) \in Nat /\ Start(j) \in Nat /\ Start(i) < Start(j)
  BY <1>1, StartsIncrease
<1> HIDE DEF Start
<1>4. \A i, j \in 1 .. Len(packets) + 1 : Start(i) = Start(j) => i = j
  BY <1>1, <1>3
<1>5. ASSUME NEW i \in 1 .. Len(packets)
      PROVE  /\ packets[i] \in PacketType
             /\ Size(packets[i]) \in Nat /\ Size(packets[i]) >= HeaderSize
             /\ Start(i) \in Nat /\ Start(i + 1) <= Total
  <2> DEFINE p == packets[i]
  <2>1. p \in PacketType
    BY <1>1
  <2>2. p.length \in Nat
    BY <2>1 DEF PacketType
  <2>3. Size(p) \in Nat /\ Size(p) >= HeaderSize
    BY <1>1, <2>2 DEF Size
  <2>4. i \in 1 .. Len(packets) + 1 /\ i + 1 \in 1 .. Len(packets) + 1
        /\ Len(packets) + 1 \in 1 .. Len(packets) + 1 /\ i < i + 1
        /\ (i + 1 = Len(packets) + 1 \/ i + 1 < Len(packets) + 1)
    BY <1>1
  <2>5. Start(i) \in Nat /\ Start(i + 1) \in Nat
    BY <1>3, <2>4
  <2>6. Start(i + 1) <= Total
    BY <1>3, <2>4, <2>5 DEF Total
  <2> QED BY <2>1, <2>3, <2>5, <2>6
<1>6. Total \in Nat
  <2>1. CASE Len(packets) = 0
    BY <1>2, <2>1 DEF Total
  <2>2. CASE Len(packets) # 0
    <3>1. 1 \in 1 .. Len(packets) + 1 /\ Len(packets) + 1 \in 1 .. Len(packets) + 1
          /\ 1 < Len(packets) + 1
      BY <1>1, <2>2
    <3> QED BY <1>3, <3>1 DEF Total
  <2> QED BY <2>1, <2>2
<1> QED BY <1>1, <1>2, <1>4, <1>5, <1>6

\* When the buffer holds a header, it is that of the next packet: Peek finds nothing else.
LEMMA NextPacket ==
  ASSUME ReceiveInv, InLoop, ~filled
  PROVE  /\ Len(received) + 1 \in 1 .. Len(packets)
         /\ PeekHeader = {packets[Len(received) + 1]}
         /\ \A n \in 0 .. GetUseSize :
              Copied(n) = [k \in 1 .. n |-> Start(Len(received) + 1) + k]
<1> DEFINE i == Len(received) + 1
<1>1. /\ HeaderSize \in Nat /\ HeaderSize >= 1 /\ GetUseSize >= HeaderSize
      /\ GetUseSize \in Nat /\ read \in Nat /\ written \in Nat /\ GetUseSize = written - read
      /\ written <= Total /\ read = Start(i) /\ Len(received) \in Nat
      /\ Len(received) <= Len(packets)
  BY ReceiveConstants, Sizes, RingConstants
     DEF ReceiveInv, RingInv, InOrder, RingTypeOK, InLoop, PacketsWhole
<1>2. /\ Len(packets) \in Nat /\ Total \in Nat
      /\ \A j \in 1 .. Len(packets) : Size(packets[j]) \in Nat /\ Size(packets[j]) >= HeaderSize
      /\ \A j \in 1 .. Len(packets) : Start(j) \in Nat
      /\ \A j, k \in 1 .. Len(packets) + 1 : Start(j) = Start(k) => j = k
  BY StreamOfPackets DEF ReceiveInv
<1>3. i \in 1 .. Len(packets)
  <2>1. read # Total
    BY <1>1, <1>2
  <2>2. Len(received) # Len(packets)
    BY <1>1, <2>1 DEF Total
  <2> QED BY <1>1, <1>2, <2>2
<1>4. ASSUME NEW n \in 0 .. GetUseSize
      PROVE  Copied(n) = [k \in 1 .. n |-> Start(i) + k]
  BY <1>1, InvGivesPeek DEF ReceiveInv, PeekIsOldest
<1>5. Copied(HeaderSize) = [k \in 1 .. HeaderSize |-> Start(i) + k]
  BY <1>1, <1>4
<1>6. ASSUME NEW j \in 1 .. Len(packets)
      PROVE  SubSeq(Bytes(j), 1, HeaderSize) = [k \in 1 .. HeaderSize |-> Start(j) + k]
  <2> DEFINE b == [k \in 1 .. Size(packets[j]) |-> Start(j) + k]
  <2>1. Start(j) \in Nat /\ Size(packets[j]) \in Nat /\ HeaderSize <= Size(packets[j])
    BY <1>1, <1>2
  <2>2. b \in Seq(Nat) /\ Len(b) = Size(packets[j])
    BY <2>1
  <2>3. b = Bytes(j)
    BY DEF Bytes
  <2>4. SubSeq(b, 1, HeaderSize) = [k \in 1 .. HeaderSize |-> b[k]]
    <3> HIDE DEF b
    <3> QED BY <1>1, <2>1, <2>2
  <2>5. \A k \in 1 .. HeaderSize : b[k] = Start(j) + k
    BY <1>1, <2>1
  <2> HIDE DEF b
  <2> QED BY <2>3, <2>4, <2>5
<1>7. { j \in 1 .. Len(packets) : Copied(HeaderSize) = SubSeq(Bytes(j), 1, HeaderSize) } = {i}
  <2>1. Copied(HeaderSize) = SubSeq(Bytes(i), 1, HeaderSize)
    BY <1>3, <1>5, <1>6
  <2>2. ASSUME NEW j \in 1 .. Len(packets), Copied(HeaderSize) = SubSeq(Bytes(j), 1, HeaderSize)
        PROVE  j = i
    <3>1. [k \in 1 .. HeaderSize |-> Start(i) + k] = [k \in 1 .. HeaderSize |-> Start(j) + k]
      BY <1>5, <1>6, <2>2
    <3>2. Start(i) + 1 = Start(j) + 1
      BY <1>1, <3>1
    <3>3. Start(i) = Start(j) /\ i \in 1 .. Len(packets) + 1 /\ j \in 1 .. Len(packets) + 1
      BY <1>2, <1>3, <3>2
    <3> QED BY <1>2, <3>3
  <2> QED BY <1>3, <2>1, <2>2
<1>8. DOMAIN packets = 1 .. Len(packets)
  BY DEF ReceiveInv, Deployed
<1>9. PeekHeader = {packets[i]}
  BY <1>7, <1>8 DEF PeekHeader
<1> QED BY <1>3, <1>4, <1>9

----------------------------------------------------------------------------
(* The steps *)

\* A step that takes nothing out of the buffer and hands out nothing.
LEMMA NothingTaken ==
  ASSUME ReceiveInv, RingInv', written' <= Total, UNCHANGED <<deployment, read, received>>,
         filled => filled', filled' \in BOOLEAN,
         bDisconnectRegistered' \in BOOLEAN, pc' \in {"posted", "loop", "stopped"},
         pc = "stopped" => pc' = "stopped"
  PROVE  ReceiveInv'
<1>1. UNCHANGED <<packets, mMaxPayloadLength, lead, read, received>>
  BY DEF deployment
<1>2. Total' = Total /\ Start(Len(received) + 1)' = Start(Len(received) + 1)
  BY <1>1 DEF Total, Start
<1>3. Deployed'
  BY <1>1, <1>2 DEF ReceiveInv, Deployed
<1>4. PacketsWhole'
  BY <1>1 DEF ReceiveInv, PacketsWhole, Bytes, Start
<1> QED BY <1>1, <1>2, <1>3, <1>4 DEF ReceiveInv

LEMMA ReceiveInit == Init => ReceiveInv
<1> SUFFICES ASSUME Init PROVE ReceiveInv
  OBVIOUS
<1>1. PICK d \in Deployments :
        packets = d.packets /\ mMaxPayloadLength = d.mMaxPayloadLength /\ lead = d.lead
  BY DEF Init
<1>2. Deployed
  BY <1>1, ReceiveConstants DEF Deployed, PacketType, Total, Start
<1>3. RingInv /\ read = 0 /\ written = 0
  BY InvInit DEF Init, RingInit
<1>4. Start(1) = 0 /\ Total \in Nat /\ Len(packets) \in Nat
  BY <1>2, StreamOfPackets
<1>5. received = <<>> /\ Len(received) = 0 /\ pc = "posted" /\ bDisconnectRegistered = FALSE
  BY DEF Init
<1>6. PacketsWhole
  BY <1>4, <1>5 DEF PacketsWhole
<1>7. read = Start(Len(received) + 1)
  BY <1>3, <1>4, <1>5
<1>8. /\ received \in Seq(Seq(0 .. MaxBytes)) /\ bDisconnectRegistered \in BOOLEAN
      /\ pc \in {"posted", "loop", "stopped"} /\ written <= Total
  <2>1. received \in Seq(Seq(0 .. MaxBytes))
    BY <1>5
  <2>2. written <= Total
    BY <1>3, <1>4
  <2>3. bDisconnectRegistered \in BOOLEAN
    BY <1>5
  <2> QED BY <1>5, <2>1, <2>2, <2>3
<1> QED BY <1>2, <1>3, <1>6, <1>7, <1>8 DEF ReceiveInv

\* A receive brings what it likes; it may fill the buffer.
LEMMA RecvCompletesInv ==
  ASSUME ReceiveInv, NEW n \in 1 .. mCapacity, RecvCompletes(n)
  PROVE  ReceiveInv'
<1>1. /\ Total \in Nat /\ Total <= MaxBytes /\ MaxBytes \in Nat /\ written \in Nat
  BY StreamOfPackets, RingConstants DEF ReceiveInv, Deployed, RingInv, RingTypeOK
<1>2. /\ written + n <= Total /\ DirectWrite(n)
      /\ UNCHANGED <<deployment, bDisconnectRegistered, received>>
      /\ pc = "posted" /\ pc' \in {"loop", "stopped"}
  BY DEF RecvCompletes
<1>3. written + n <= MaxBytes
  BY <1>1, <1>2
<1>4. RingInv'
  BY <1>2, <1>3, DirectWriteInv DEF ReceiveInv
<1>5. written' = written + n /\ read' = read /\ (filled => filled') /\ filled' \in BOOLEAN
  BY <1>2 DEF DirectWrite
<1> QED BY <1>2, <1>4, <1>5, NothingTaken DEF ReceiveInv

\* Any header Peek may find.
LEMMA PeekedHeader ==
  ASSUME ReceiveInv, NEW h \in PeekHeader
  PROVE  h \in PacketType /\ Size(h) \in Nat /\ Size(h) >= HeaderSize
<1>1. h \in PacketType
  <2>1. AnyHeader \subseteq PacketType
    BY DEF AnyHeader, PacketType, ReceiveInv, Deployed
  <2>2. \A i \in DOMAIN packets : packets[i] \in PacketType
    BY DEF ReceiveInv, Deployed
  <2> QED BY <2>1, <2>2 DEF PeekHeader
<1>2. h.length \in Nat
  BY <1>1 DEF PacketType
<1> QED BY <1>1, <1>2, ReceiveConstants DEF Size

\* What is copied out is memory of the buffer, whatever it holds.
LEMMA CopiedTyped ==
  ASSUME RingTypeOK, NEW n \in Nat, n <= GetUseSize
  PROVE  Copied(n) \in Seq(0 .. MaxBytes)
<1> DEFINE first == IF GetDirectDequeueSize >= n THEN n ELSE GetDirectDequeueSize
           c == [i \in 1 .. n |-> IF i <= first THEN mBuffer[mFront + i - 1]
                                  ELSE mBuffer[i - first - 1]]
<1>1. /\ mFront \in Cells /\ mRear \in Cells /\ GetUseSize \in 0 .. mCapacity - 1
      /\ GetUseSize = Distance(mFront, mRear) /\ mBuffer \in [Cells -> 0 .. MaxBytes]
  BY Sizes DEF RingTypeOK
<1>2. /\ first \in 0 .. n /\ mFront + first <= mCapacity
      /\ first < n => first = mCapacity - mFront
  BY <1>1, RingConstants DEF GetDirectDequeueSize, Cells, Distance
<1> HIDE DEF first
<1>3. ASSUME NEW i \in 1 .. n, i <= first
      PROVE  mBuffer[mFront + i - 1] \in 0 .. MaxBytes
  <2>1. mFront + i - 1 \in Cells
    BY <1>1, <1>2, <1>3, RingConstants DEF Cells
  <2> QED BY <1>1, <2>1
<1>4. ASSUME NEW i \in 1 .. n, ~(i <= first)
      PROVE  mBuffer[i - first - 1] \in 0 .. MaxBytes
  <2>1. i - first - 1 \in Cells
    BY <1>1, <1>2, <1>4, RingConstants DEF Cells, Distance
  <2> QED BY <1>1, <2>1
<1>5. c \in [1 .. n -> 0 .. MaxBytes]
  BY <1>3, <1>4
<1>6. Copied(n) = c
  BY DEF Copied, first
<1> HIDE DEF c
<1> QED BY <1>5, <1>6, FunctionIsSeq

\* The parts TakePacket leaves alone or has typed, in any buffer.
LEMMA TakePacketTypes ==
  ASSUME ReceiveInv, NEW h \in PeekHeader, TakePacket(h)
  PROVE  /\ Deployed' /\ RingInv' /\ written' <= Total'
         /\ bDisconnectRegistered' \in BOOLEAN
         /\ pc' \in {"loop", "stopped"}
         /\ received' \in Seq(Seq(0 .. MaxBytes))
<1>1. InLoop /\ GetUseSize >= Size(h) /\ Dequeue(Size(h))
  BY DEF TakePacket
<1>2. Size(h) \in Nat /\ Size(h) >= HeaderSize /\ HeaderSize \in Nat \ {0}
  BY PeekedHeader, ReceiveConstants
<1>3. GetUseSize \in 0 .. mCapacity - 1 /\ RingTypeOK /\ mCapacity \in Nat
  BY Sizes, RingConstants DEF ReceiveInv, RingInv, RingTypeOK
<1>4. Size(h) \in 1 .. mCapacity /\ Size(h) <= GetUseSize
  BY <1>1, <1>2, <1>3
<1>5. RingInv'
  BY <1>1, <1>4, DequeueInv DEF ReceiveInv
<1>6. UNCHANGED <<packets, mMaxPayloadLength, lead, bDisconnectRegistered, written>>
  BY <1>1 DEF TakePacket, deployment, Dequeue, MoveFront
<1>7. Deployed' /\ written' <= Total'
  BY <1>6 DEF ReceiveInv, Deployed, Total, Start
<1>8. Copied(Size(h)) \in Seq(0 .. MaxBytes)
  BY <1>2, <1>3, <1>4, CopiedTyped
<1>9. /\ received' = received \/ received' = Append(received, Copied(Size(h)))
      /\ pc' = pc \/ pc' = "stopped"
  BY DEF TakePacket
<1>10. received' \in Seq(Seq(0 .. MaxBytes))
  <2>1. PICK c \in Seq(0 .. MaxBytes) : c = Copied(Size(h))
    BY <1>8
  <2>2. received \in Seq(Seq(0 .. MaxBytes))
    BY DEF ReceiveInv
  <2>3. Append(received, c) \in Seq(Seq(0 .. MaxBytes))
    BY <2>1, <2>2
  <2> QED BY <1>9, <2>1, <2>2, <2>3
<1> QED BY <1>1, <1>5, <1>6, <1>7, <1>9, <1>10 DEF ReceiveInv, InLoop

\* A packet whose payload has come leaves the buffer and, if it is good, goes to OnReceive.
LEMMA TakePacketInv ==
  ASSUME ReceiveInv, NEW h \in PeekHeader, TakePacket(h)
  PROVE  ReceiveInv'
<1>a. /\ Deployed' /\ RingInv' /\ written' <= Total' /\ bDisconnectRegistered' \in BOOLEAN
      /\ pc' \in {"loop", "stopped"} /\ received' \in Seq(Seq(0 .. MaxBytes))
  BY TakePacketTypes
<1>b. InLoop /\ ~HeaderRefused(h) /\ GetUseSize >= Size(h) /\ Dequeue(Size(h))
  BY DEF TakePacket
<1>c. UNCHANGED <<packets, mMaxPayloadLength, filled>> /\ read' = read + Size(h)
  BY <1>b DEF TakePacket, deployment, Dequeue, MoveFront
<1>d. CASE filled
  BY <1>a, <1>c, <1>d DEF ReceiveInv, PacketsWhole
<1>e. CASE ~filled
  <2>0. PICK i \in Nat : i = Len(received) + 1
    BY DEF ReceiveInv
  <2>2. /\ i \in 1 .. Len(packets) /\ h = packets[i]
        /\ \A n \in 0 .. GetUseSize : Copied(n) = [k \in 1 .. n |-> Start(i) + k]
    BY <1>b, <1>e, <2>0, NextPacket
  <2>3. /\ Len(packets) \in Nat /\ Len(received) \in Nat /\ h \in PacketType
        /\ Size(h) \in Nat /\ Start(i) \in Nat /\ Start(i + 1) = Start(i) + Size(h)
    BY <2>0, <2>2, StreamOfPackets DEF ReceiveInv
  <2>4. Size(h) \in 0 .. GetUseSize
    <3>1. GetUseSize \in 0 .. mCapacity - 1
      BY Sizes DEF ReceiveInv, RingInv, RingTypeOK
    <3> QED BY <1>b, <2>3, <3>1, RingConstants
  <2>5. Copied(Size(h)) = Bytes(i)
    BY <2>2, <2>4 DEF Bytes
  <2>6. \A j : Start(j)' = Start(j) /\ Bytes(j)' = Bytes(j)
    BY <1>c DEF Start, Bytes
  <2>7. read = Start(i) /\ pc = "loop"
    BY <1>b, <1>e, <2>0 DEF ReceiveInv, InLoop
  <2>8. CASE received' = Append(received, Copied(Size(h))) /\ pc' = pc /\ h.checksum
    <3>1. received' = Append(received, Bytes(i)) /\ Good(packets[i])
      <4>1. packets[i].code /\ packets[i].length <= mMaxPayloadLength
        <5>1. packets[i].length \in Nat /\ mMaxPayloadLength \in Nat
          BY <2>2, <2>3 DEF PacketType, ReceiveInv, Deployed
        <5> QED BY <1>b, <2>2, <5>1 DEF HeaderRefused
      <4> QED BY <2>2, <2>5, <2>8, <4>1 DEF Good
    <3>2. Len(received') = i /\ received'[i] = Bytes(i)
          /\ \A j \in 1 .. Len(received) : received'[j] = received[j]
      <4>1. received \in Seq(Seq(0 .. MaxBytes))
        BY DEF ReceiveInv
      <4> QED BY <2>0, <3>1, <4>1
    <3>3. PacketsWhole'
      <4>1. Len(received') <= Len(packets')
        BY <1>c, <2>2, <3>2
      <4>2. ASSUME NEW j \in DOMAIN received'
            PROVE  received'[j] = Bytes(j)' /\ Good(packets[j])
        <5>1. j \in 1 .. i
          BY <1>a, <3>2
        <5>2. CASE j = i
          BY <2>6, <3>1, <3>2, <5>2
        <5>3. CASE j # i
          <6>1. j \in 1 .. Len(received) /\ j \in DOMAIN received
            BY <2>0, <2>3, <5>1, <5>3 DEF ReceiveInv
          <6>2. received[j] = Bytes(j) /\ Good(packets[j])
            BY <1>e, <6>1 DEF ReceiveInv, PacketsWhole, Good
          <6> QED BY <2>6, <3>2, <6>1, <6>2
        <5> QED BY <5>2, <5>3
      <4> QED BY <1>c, <4>1, <4>2 DEF PacketsWhole, Good
    <3>4. read' = Start(Len(received) + 1)'
      <4>1. read' = Start(i + 1) /\ Len(received') + 1 = i + 1
        BY <1>c, <2>3, <2>7, <3>2
      <4> QED BY <1>c, <4>1 DEF Start
    <3> QED BY <1>a, <3>3, <3>4 DEF ReceiveInv
  <2>9. CASE received' = received /\ pc' = "stopped"
    <3>1. PacketsWhole'
      BY <1>c, <2>6, <2>9 DEF ReceiveInv, PacketsWhole
    <3> QED BY <1>a, <2>9, <3>1 DEF ReceiveInv
  <2>10. DecodeOutcomes(h, Copied(Size(h))) = {h.checksum}
    <3>1. \E j \in DOMAIN packets : Copied(Size(h)) = Bytes(j)
      BY <2>2, <2>5 DEF ReceiveInv, Deployed
    <3> QED BY <3>1 DEF DecodeOutcomes
  <2>11. IF h.checksum THEN received' = Append(received, Copied(Size(h))) /\ UNCHANGED pc
                       ELSE pc' = "stopped" /\ UNCHANGED received
    BY <2>10 DEF TakePacket
  <2> QED BY <2>8, <2>9, <2>11
<1> QED BY <1>d, <1>e

\* Every step keeps the invariant.
LEMMA ReceiveNext == ReceiveInv /\ [Next]_receiveVars => ReceiveInv'
<1> SUFFICES ASSUME ReceiveInv, [Next]_receiveVars PROVE ReceiveInv'
  OBVIOUS
<1>1. ASSUME UNCHANGED ringVars
      PROVE  RingInv' /\ written' <= Total /\ UNCHANGED <<read, filled>> /\ filled' \in BOOLEAN
  BY <1>1, RingUntouched DEF ringVars, ReceiveInv, RingInv, RingTypeOK
<1> USE DEF ReceiveInv, PostRecv
<1>2. CASE Arrival
  BY <1>2, RecvCompletesInv DEF Arrival
<1>3. CASE PeerCloses
  BY <1>1, <1>3, NothingTaken DEF PeerCloses
<1>4. CASE HeaderIncomplete
  BY <1>1, <1>4, NothingTaken DEF HeaderIncomplete
<1>5. ASSUME NEW h \in PeekHeader, RefuseHeader(h)
      PROVE  ReceiveInv'
  BY <1>1, <1>5, NothingTaken DEF RefuseHeader
<1>6. ASSUME NEW h \in PeekHeader, PayloadIncomplete(h)
      PROVE  ReceiveInv'
  BY <1>1, <1>6, NothingTaken DEF PayloadIncomplete, InLoop
<1>7. ASSUME NEW h \in PeekHeader, TakePacket(h)
      PROVE  ReceiveInv'
  BY <1>7, TakePacketInv
<1>8. CASE RegisterDisconnect
  BY <1>1, <1>8, NothingTaken DEF RegisterDisconnect
<1>9. CASE UNCHANGED receiveVars
  BY <1>1, <1>9, NothingTaken DEF receiveVars
<1> QED BY <1>2, <1>3, <1>4, <1>5, <1>6, <1>7, <1>8, <1>9 DEF Next, LoopStep, Rest

----------------------------------------------------------------------------
\* For every stream, every deployment and every size of the buffer, and whatever
\* the receives bring, the invariant holds in every state.
THEOREM ReceiveInvariant == Spec => []ReceiveInv
<1>1. Init => ReceiveInv
  BY ReceiveInit
<1>2. ReceiveInv /\ [Next]_receiveVars => ReceiveInv'
  BY ReceiveNext
<1> QED BY <1>1, <1>2, PTL DEF Spec

\* Until a receive fills the buffer OnReceive gets the peer's packets whole, in order
\* and each once, none after a bad one, however TCP cuts the stream and wherever the
\* buffer wraps.
THEOREM PacketsAreWhole == Spec => []PacketsWhole
<1>1. ReceiveInv => PacketsWhole
  BY DEF ReceiveInv
<1> QED BY <1>1, ReceiveInvariant, PTL

\* The values stay in their ranges, also after a receive that fills the buffer.
THEOREM ReceiveTyped == Spec => []TypeOK
<1>1. ReceiveInv => TypeOK
  BY DEF ReceiveInv, TypeOK, RingInv
<1> QED BY <1>1, ReceiveInvariant, PTL

\* The packet loop is a client the buffer is right for: until a receive fills it no
\* byte of the stream is lost between a WSARecv and the packet the byte belongs to.
THEOREM ReceiveKeepsBytes == Spec => []BytesKept
<1>1. ReceiveInv => BytesKept
  BY InvGivesBytesKept DEF ReceiveInv
<1> QED BY <1>1, ReceiveInvariant, PTL
=============================================================================
