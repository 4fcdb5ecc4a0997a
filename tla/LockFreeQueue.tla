--------------------------- MODULE LockFreeQueue ---------------------------
(***************************************************************************)
(* LockFreeQueue: a linked list with a dummy at mHead, appended by compare- *)
(* and-swap on the last node's Next.  Its nodes come from a pool of its     *)
(* own, so a node that was dequeued is soon in the list again; a 16-bit ID  *)
(* in the top of every pointer keeps mHead and mTail apart from their past. *)
(*                                                                          *)
(* Every step makes one access to memory that other threads share.  The     *)
(* pool is the stack of free nodes LockFreeObjectPool implements; a value   *)
(* is the pair of the thread that enqueues it and a serial number.          *)
(***************************************************************************)
EXTENDS Integers, Sequences, FiniteSets

CONSTANTS
  Producers,    \* threads that call Enqueue
  Consumers,    \* threads that call TryDequeue
  Quotas,       \* bound: how often each producer calls Enqueue, in one way or another
  TagCount      \* pointer IDs: 2^ID_FLAG_BIT_COUNT

ASSUME QueueThreads == Producers \cap Consumers = {} /\ IsFiniteSet(Producers \cup Consumers)
ASSUME QueueBounds  == /\ Quotas \subseteq [Producers -> Nat] /\ Quotas # {} /\ IsFiniteSet(Quotas)
                       /\ TagCount \in Nat \ {0}

Threads == Producers \cup Consumers
Values  == UNION { {p} \X (1 .. q[p]) : p \in Producers, q \in Quotas }

\* Addresses, in the order new Node hands them out; the first is the dummy.
MaxNodes == 1 + Cardinality(Values)
Nodes    == 1 .. MaxNodes

\* A pointer as stored: an address, 0 for nullptr, and the ID flag.
Pointers == (0 .. MaxNodes) \X (0 .. TagCount - 1)
Null     == <<0, 0>>
NoValue  == <<>>

VARIABLES
  mHead, mTail, mID, mCount,
  Next, Data,       \* the fields of each node
  pool,             \* free nodes, the last one freed on top
  mCapacity,        \* nodes the pool has made with new
  pc, value, newNode, localMyIdFlag, localMyHead, localMyTail, localMyNext, outData,
  serial,           \* Enqueues each producer has begun
  taken             \* values removed from the list, in that order

shared == <<mHead, mTail, mID, mCount, Next, Data, pool, mCapacity>>
locals == <<value, newNode, localMyIdFlag, localMyHead, localMyTail, localMyNext, outData>>
vars   == <<shared, locals, pc, serial, taken>>

\* The constructor: one dummy node, both ends at it.
Init ==
  /\ mHead = <<1, 0>> /\ mTail = <<1, 0>> /\ mID = 0 /\ mCount = 0
  /\ Next = [n \in Nodes |-> Null]
  /\ Data = [n \in Nodes |-> NoValue]
  /\ pool = <<>> /\ mCapacity = 1
  /\ pc = [t \in Threads |-> "idle"]
  /\ value = [t \in Threads |-> NoValue]
  /\ newNode = [t \in Threads |-> 0]
  /\ localMyIdFlag = [t \in Threads |-> 0]
  /\ localMyHead = [t \in Threads |-> Null]
  /\ localMyTail = [t \in Threads |-> Null]
  /\ localMyNext = [t \in Threads |-> Null]
  /\ outData = [t \in Threads |-> NoValue]
  /\ serial = [t \in Producers |-> 0]
  /\ taken = <<>>

At(t, l)   == pc[t] = l
Goto(t, l) == pc' = [pc EXCEPT ![t] = l]

\* A finished call leaves nothing in its locals that a later call reads.
Forget(t) ==
  /\ value' = [value EXCEPT ![t] = NoValue]
  /\ newNode' = [newNode EXCEPT ![t] = 0]
  /\ localMyIdFlag' = [localMyIdFlag EXCEPT ![t] = 0]
  /\ localMyHead' = [localMyHead EXCEPT ![t] = Null]
  /\ localMyTail' = [localMyTail EXCEPT ![t] = Null]
  /\ localMyNext' = [localMyNext EXCEPT ![t] = Null]
  /\ outData' = [outData EXCEPT ![t] = NoValue]

getPurePointer(p) == p[1]

----------------------------------------------------------------------------
(* Enqueue *)

\* Mutant: the pointers carry no ID.
IdFlagZero(id) == 0

\* Mutant: the ID is shifted one bit too far and never cut to its width.
IdFlagTooFar(id) == 2 * id

\* The low 16 bits of mID, in the top 16 bits of the pointer.
IdFlag(id) == id % TagCount

\* The bound leaves producer t another call.
MayEnqueue(t) ==
  \E q \in Quotas : serial[t] < q[t] /\ \A p \in Producers : serial[p] <= q[p]

EnqueueId(t) ==
  /\ At(t, "idle") /\ MayEnqueue(t)
  /\ serial' = [serial EXCEPT ![t] = @ + 1]
  /\ value' = [value EXCEPT ![t] = <<t, serial[t] + 1>>]
  /\ mID' = mID + 1
  /\ localMyIdFlag' = [localMyIdFlag EXCEPT ![t] = IdFlag(mID + 1)]
  /\ Goto(t, "alloc")
  /\ UNCHANGED <<mHead, mTail, mCount, Next, Data, pool, mCapacity, newNode, localMyHead,
                 localMyTail, localMyNext, outData, taken>>

\* mNodePool.Alloc, as the ObjectPool module has it: the node freed last, or,
\* when there was none, a new one.
Alloc(t) ==
  /\ At(t, "alloc")
  /\ \/ /\ pool # <<>>
        /\ newNode' = [newNode EXCEPT ![t] = Head(pool)]
        /\ pool' = Tail(pool)
        /\ Goto(t, "fill")
     \/ /\ pool = <<>>
        /\ Goto(t, "new")
        /\ UNCHANGED <<newNode, pool>>
  /\ UNCHANGED <<mHead, mTail, mID, mCount, Next, Data, mCapacity, value, localMyIdFlag,
                 localMyHead, localMyTail, localMyNext, outData, serial, taken>>

NewNode(t) ==
  /\ At(t, "new")
  /\ newNode' = [newNode EXCEPT ![t] = mCapacity + 1]
  /\ mCapacity' = mCapacity + 1
  /\ Goto(t, "fill")
  /\ UNCHANGED <<mHead, mTail, mID, mCount, Next, Data, pool, value, localMyIdFlag,
                 localMyHead, localMyTail, localMyNext, outData, serial, taken>>

Fill(t) ==
  /\ At(t, "fill")
  /\ Data' = [Data EXCEPT ![newNode[t]] = value[t]]
  /\ Next' = [Next EXCEPT ![newNode[t]] = Null]
  /\ Goto(t, "tail")
  /\ UNCHANGED <<mHead, mTail, mID, mCount, pool, mCapacity, locals, serial, taken>>

newTailHopeToChange(t) == <<newNode[t], localMyIdFlag[t]>>

ReadTail(t) ==
  /\ At(t, "tail")
  /\ localMyTail' = [localMyTail EXCEPT ![t] = mTail]
  /\ Goto(t, "link")
  /\ UNCHANGED <<shared, value, newNode, localMyIdFlag, localMyHead, localMyNext, outData,
                 serial, taken>>

\* Compare-and-swap of the last node's Next from nullptr to the new node.
Link(t) ==
  LET last == getPurePointer(localMyTail[t]) IN
  /\ At(t, "link")
  /\ IF Next[last] = Null
     THEN /\ Next' = [Next EXCEPT ![last] = newTailHopeToChange(t)]
          /\ Goto(t, "swing")
     ELSE /\ UNCHANGED Next
          /\ Goto(t, "read_next")
  /\ UNCHANGED <<mHead, mTail, mID, mCount, Data, pool, mCapacity, locals, serial, taken>>

\* Somebody else appended: help mTail on, then try again.
ReadNext(t) ==
  /\ At(t, "read_next")
  /\ localMyNext' = [localMyNext EXCEPT ![t] = Next[getPurePointer(localMyTail[t])]]
  /\ Goto(t, "help")
  /\ UNCHANGED <<shared, value, newNode, localMyIdFlag, localMyHead, localMyTail, outData,
                 serial, taken>>

\* Mutant: mTail is stored without comparing it.
SwingTailBlind(t, p) == p

\* Compare-and-swap of mTail from the tail this thread has read.
SwingTail(t, p) == IF mTail = localMyTail[t] THEN p ELSE mTail

Help(t) ==
  /\ At(t, "help")
  /\ mTail' = SwingTail(t, localMyNext[t])
  /\ Goto(t, "tail")
  /\ UNCHANGED <<mHead, mID, mCount, Next, Data, pool, mCapacity, locals, serial, taken>>

Swing(t) ==
  /\ At(t, "swing")
  /\ mTail' = SwingTail(t, newTailHopeToChange(t))
  /\ Goto(t, "count")
  /\ UNCHANGED <<mHead, mID, mCount, Next, Data, pool, mCapacity, locals, serial, taken>>

CountUp(t) ==
  /\ At(t, "count")
  /\ mCount' = mCount + 1
  /\ Forget(t)
  /\ Goto(t, "idle")
  /\ UNCHANGED <<mHead, mTail, mID, Next, Data, pool, mCapacity, serial, taken>>

----------------------------------------------------------------------------
(* TryDequeue *)

\* With mCount = 0 it returns false at once.
TryDequeue(t) ==
  /\ At(t, "idle") /\ mCount # 0
  /\ Goto(t, "d_head")
  /\ UNCHANGED <<shared, locals, serial, taken>>

ReadHead(t) ==
  /\ At(t, "d_head")
  /\ localMyHead' = [localMyHead EXCEPT ![t] = mHead]
  /\ Goto(t, "d_tail")
  /\ UNCHANGED <<shared, value, newNode, localMyIdFlag, localMyTail, localMyNext, outData,
                 serial, taken>>

ReadHeadTail(t) ==
  /\ At(t, "d_tail")
  /\ localMyTail' = [localMyTail EXCEPT ![t] = mTail]
  /\ Goto(t, "d_next")
  /\ UNCHANGED <<shared, value, newNode, localMyIdFlag, localMyHead, localMyNext, outData,
                 serial, taken>>

ReadHeadNext(t) ==
  /\ At(t, "d_next")
  /\ localMyNext' = [localMyNext EXCEPT ![t] = Next[getPurePointer(localMyHead[t])]]
  /\ Goto(t, "d_test")
  /\ UNCHANGED <<shared, value, newNode, localMyIdFlag, localMyHead, localMyTail, outData,
                 serial, taken>>

\* Head and tail are one: empty if mCount says so, else look again.
SeemsEmpty(t) ==
  /\ At(t, "d_test") /\ localMyHead[t] = localMyTail[t]
  /\ IF mCount = 0 THEN Forget(t) /\ Goto(t, "idle")
                   ELSE UNCHANGED locals /\ Goto(t, "d_head")
  /\ UNCHANGED <<shared, serial, taken>>

\* A head with no successor is a stale one; otherwise copy the successor's data.
CopyData(t) ==
  LET first == getPurePointer(localMyNext[t]) IN
  /\ At(t, "d_test") /\ localMyHead[t] # localMyTail[t]
  /\ IF first = 0
     THEN UNCHANGED outData /\ Goto(t, "d_head")
     ELSE outData' = [outData EXCEPT ![t] = Data[first]] /\ Goto(t, "d_cas")
  /\ UNCHANGED <<shared, value, newNode, localMyIdFlag, localMyHead, localMyTail, localMyNext,
                 serial, taken>>

\* Compare-and-swap of mHead to the successor, which is the new dummy.
MoveHead(t) ==
  /\ At(t, "d_cas")
  /\ IF mHead = localMyHead[t]
     THEN /\ mHead' = localMyNext[t]
          /\ taken' = Append(taken, outData[t])
          /\ Goto(t, "d_free")
     ELSE /\ UNCHANGED <<mHead, taken>>
          /\ Goto(t, "d_head")
  /\ UNCHANGED <<mTail, mID, mCount, Next, Data, pool, mCapacity, locals, serial>>

\* mNodePool.Free of the old dummy.
Free(t) ==
  /\ At(t, "d_free")
  /\ pool' = <<getPurePointer(localMyHead[t])>> \o pool
  /\ Goto(t, "d_count")
  /\ UNCHANGED <<mHead, mTail, mID, mCount, Next, Data, mCapacity, locals, serial, taken>>

CountDown(t) ==
  /\ At(t, "d_count")
  /\ mCount' = mCount - 1
  /\ Forget(t)
  /\ Goto(t, "idle")
  /\ UNCHANGED <<mHead, mTail, mID, Next, Data, pool, mCapacity, serial, taken>>

----------------------------------------------------------------------------
EnqueueStep(t) == \/ Alloc(t) \/ NewNode(t) \/ Fill(t) \/ ReadTail(t) \/ Link(t)
                  \/ ReadNext(t) \/ Help(t) \/ Swing(t) \/ CountUp(t)

DequeueStep(t) == \/ ReadHead(t) \/ ReadHeadTail(t) \/ ReadHeadNext(t) \/ SeemsEmpty(t)
                  \/ CopyData(t) \/ MoveHead(t) \/ Free(t) \/ CountDown(t)

\* Every value was enqueued and taken, and nobody is inside a call.
Finished == /\ \A t \in Threads : At(t, "idle")
            /\ \A t \in Producers : ~MayEnqueue(t)
            /\ mCount = 0
            /\ UNCHANGED vars

NextStep == \/ \E t \in Producers : EnqueueId(t) \/ EnqueueStep(t)
            \/ \E t \in Consumers : TryDequeue(t) \/ DequeueStep(t)
            \/ Finished

Spec == Init /\ [][NextStep]_vars
=============================================================================
