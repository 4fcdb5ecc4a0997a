----------------------------- MODULE RingBuffer -----------------------------
(***************************************************************************)
(* RingBuffer, the receive buffer of a session and of NetClient.  mFront =  *)
(* mRear is the empty buffer, so one byte has to stay free; Enqueue keeps   *)
(* it free, the writers that go through GetRearBufferPtr, GetDirectEnqueue- *)
(* Size and MoveRear do not.  A direct write that takes the last free byte  *)
(* fills the buffer, which then counts as empty: filled remembers that, and *)
(* what is said of the bytes is said of buffers no write has filled.        *)
(*                                                                          *)
(* A byte is its position in the stream of bytes that were put in, so that  *)
(* the buffer is right when what comes out is 1, 2, 3, ...                  *)
(***************************************************************************)
EXTENDS Integers

CONSTANTS
  mCapacity,    \* size of mBuffer
  MaxBytes      \* bound: length of the stream

ASSUME RingConstants ==
  mCapacity \in Nat \ {0} /\ MaxBytes \in Nat

VARIABLES
  mBuffer, mFront, mRear,
  written,      \* bytes put in so far
  read,         \* bytes taken out so far
  filled        \* history: a direct write has taken the last free byte

ringVars == <<mBuffer, mFront, mRear, written, read, filled>>

Cells == 0 .. mCapacity - 1

\* The memory comes from new char[]: it holds no byte of the stream.
RingInit ==
  /\ mBuffer = [c \in Cells |-> 0]
  /\ mFront = 0 /\ mRear = 0
  /\ written = 0 /\ read = 0 /\ filled = FALSE

----------------------------------------------------------------------------
GetUseSize  == (mRear - mFront + mCapacity) % mCapacity
GetFreeSize == mCapacity - GetUseSize - 1

\* Mutant: all free bytes, as if they were always in one piece.
GetDirectEnqueueSizeAll == mCapacity - GetUseSize

\* Free bytes that follow mRear in one piece.
GetDirectEnqueueSize ==
  IF mRear > GetUseSize THEN mCapacity - mRear ELSE mCapacity - GetUseSize

\* Used bytes that follow mFront in one piece.
GetDirectDequeueSize ==
  IF mCapacity - mFront < GetUseSize THEN mCapacity - mFront ELSE GetUseSize

\* The next n bytes of the stream, the first k of them from cell mRear on and
\* the others from the start of the buffer.
Written(n, k) ==
  [c \in Cells |->
     IF mRear <= c /\ c < mRear + k THEN written + 1 + (c - mRear)
     ELSE IF c < n - k THEN written + 1 + k + c
     ELSE mBuffer[c]]

\* Mutant: the second piece is not taken from the start of the buffer.
CopiedNoOffset(n) ==
  LET first == IF GetDirectDequeueSize >= n THEN n ELSE GetDirectDequeueSize IN
  [i \in 1 .. n |-> IF i <= first THEN mBuffer[mFront + i - 1] ELSE mBuffer[i - 1]]

\* What Peek and Dequeue copy out for n bytes: two pieces at most.
Copied(n) ==
  LET first == IF GetDirectDequeueSize >= n THEN n ELSE GetDirectDequeueSize IN
  [i \in 1 .. n |-> IF i <= first THEN mBuffer[mFront + i - 1] ELSE mBuffer[i - first - 1]]

----------------------------------------------------------------------------
\* Enqueue goes ahead.
HasRoom(n) == GetFreeSize >= n

Enqueue(n) ==
  /\ HasRoom(n)
  /\ mBuffer' = Written(n, IF GetDirectEnqueueSize >= n THEN n ELSE GetDirectEnqueueSize)
  /\ mRear' = (mRear + n) % mCapacity
  /\ written' = written + n
  /\ UNCHANGED <<mFront, read, filled>>

\* Dequeue of n bytes, and MoveFront, which drops them uncopied.
MoveFront(n) ==
  /\ GetUseSize >= n
  /\ mFront' = (mFront + n) % mCapacity
  /\ read' = read + n
  /\ UNCHANGED <<mBuffer, mRear, written, filled>>

Dequeue(n) == MoveFront(n)

\* Mutant: MoveRear forgets to wrap at a full buffer.
WrapAfter(n) == IF n > mCapacity THEN n - mCapacity ELSE n

\* The cell n places behind the start of the buffer.
Wrap(n) == n % mCapacity

MoveRear(n) ==
  IF mCapacity - GetUseSize < n THEN UNCHANGED mRear ELSE mRear' = Wrap(mRear + n)

\* recv into GetRearBufferPtr with GetDirectEnqueueSize brings n bytes.
DirectWrite(n) ==
  /\ n <= GetDirectEnqueueSize
  /\ mBuffer' = Written(n, n)
  /\ MoveRear(n)
  /\ written' = written + n
  /\ filled' = (filled \/ GetUseSize + n = mCapacity)
  /\ UNCHANGED <<mFront, read>>

\* The stream ends at its bound.
StreamEnds == written = MaxBytes /\ GetUseSize = 0 /\ UNCHANGED ringVars

RingNext ==
  \/ \E n \in 1 .. mCapacity :
       \/ written + n <= MaxBytes /\ Enqueue(n)
       \/ written + n <= MaxBytes /\ DirectWrite(n)
       \/ Dequeue(n)
  \/ StreamEnds

RingSpec == RingInit /\ [][RingNext]_ringVars

----------------------------------------------------------------------------
\* The values the variables range over.
RingTypeOK ==
  /\ mBuffer \in [Cells -> 0 .. MaxBytes]
  /\ mFront \in Cells /\ mRear \in Cells
  /\ written \in 0 .. MaxBytes /\ read \in 0 .. MaxBytes
  /\ filled \in BOOLEAN

Unread == read + 1 .. written

\* As long as no direct write has filled the buffer, no byte is lost, doubled or
\* overwritten before it is read: the used part of the buffer is the stream from
\* the first unread byte to the last one written, wherever it wraps and whatever
\* sizes the calls have had (MoveRear, RingBuffer.h:127).
BytesKept ==
  ~filled =>
    /\ GetUseSize = written - read
    /\ \A i \in 1 .. GetUseSize : mBuffer[(mFront + i - 1) % mCapacity] = read + i

\* As long as no direct write has filled the buffer, Peek and Dequeue copy the
\* oldest unread bytes in order, in one piece or in two (RingBuffer.h:76-85).
PeekIsOldest ==
  ~filled => \A n \in 0 .. GetUseSize : Copied(n) = [i \in 1 .. n |-> read + i]

\* As long as no direct write has filled the buffer, the memory a caller may write
\* from outside, GetDirectEnqueueSize bytes at mRear, lies in the buffer and no
\* cell of it holds an unread byte (Session.cpp:92-93).
DirectWriteIsSafe ==
  ~filled =>
    \A c \in mRear .. mRear + GetDirectEnqueueSize - 1 :
      c \in Cells /\ mBuffer[c] \notin Unread

\* What GetUseSize says is there is what has been written and not read: stated
\* without the condition, for the buffer that a receive fills (RingBuffer.h:30).
UseSizeIsUnread == GetUseSize = written - read
=============================================================================
