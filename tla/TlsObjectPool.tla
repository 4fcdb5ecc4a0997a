--------------------------- MODULE TlsObjectPool ---------------------------
(***************************************************************************)
(* TlsObjectPool: each thread has a list of free objects of its own; only   *)
(* whole chunks go through the pool manager, which has a lock.  An object   *)
(* may be freed by another thread than the one that allocated it.           *)
(*                                                                          *)
(* The lists are thread_local, so a call is one step unless it needs the    *)
(* manager: the section under the lock and the making of a chunk outside of *)
(* it are two.                                                              *)
(***************************************************************************)
EXTENDS Integers, Sequences, FiniteSets

CONSTANTS
  Threads,
  ChunkSize,    \* OBJECT_COUNT_PER_CHUNK
  MaxChunks,    \* MAX_CHUNK_COUNT
  MaxEnds       \* bound: threads that end

\* What the constants have to be.
PoolConstants ==
  IsFiniteSet(Threads) /\ ChunkSize \in Nat \ {0, 1} /\ MaxChunks \in Nat \ {0}
  /\ MaxEnds \in Nat

\* Addresses, in the order new Node hands them out.
MaxNodes == MaxChunks * ChunkSize
Nodes    == 1 .. MaxNodes
Null     == 0

\* MAX_OBJECT_COUNT_PER_THREAD
MaxPerThread == 2 * ChunkSize

VARIABLES
  mTop, mHalfTop, mSize,    \* of each thread
  Next,                     \* of each node
  mChunks,                  \* tops of the first mChunkInManagerCount chunks
  mChunkTotalCount,
  made,                     \* nodes made with new
  inUse,                    \* objects the callers have
  lost,                     \* objects in the list of a thread when it ended
  ends,                     \* threads that have ended
  pc, newChunk              \* of each thread

vars == <<mTop, mHalfTop, mSize, Next, mChunks, mChunkTotalCount, made, inUse, lost, ends,
          pc, newChunk>>

Init ==
  /\ mTop = [t \in Threads |-> Null]
  /\ mHalfTop = [t \in Threads |-> Null]
  /\ mSize = [t \in Threads |-> 0]
  /\ Next = [n \in Nodes |-> Null]
  /\ mChunks = <<>>
  /\ mChunkTotalCount = 0
  /\ made = 0
  /\ inUse = {} /\ lost = {} /\ ends = 0
  /\ pc = [t \in Threads |-> "idle"]
  /\ newChunk = [t \in Threads |-> Null]

----------------------------------------------------------------------------
(* Alloc *)

\* The thread has top as its list, of size objects, and hands out the first.
HandOut(t, top, size, next) ==
  /\ mTop' = [mTop EXCEPT ![t] = next[top]]
  /\ mSize' = [mSize EXCEPT ![t] = size - 1]
  /\ inUse' = inUse \cup {top}

AllocOwn(t) ==
  /\ pc[t] = "idle" /\ mTop[t] # Null
  /\ HandOut(t, mTop[t], mSize[t], Next)
  /\ UNCHANGED <<mHalfTop, Next, mChunks, mChunkTotalCount, made, lost, ends, pc, newChunk>>

\* AllocChunk under the lock, a chunk is there.
AllocFromManager(t) ==
  /\ pc[t] = "idle" /\ mTop[t] = Null /\ mChunks # <<>>
  /\ HandOut(t, mChunks[Len(mChunks)], ChunkSize, Next)
  /\ mChunks' = SubSeq(mChunks, 1, Len(mChunks) - 1)
  /\ UNCHANGED <<mHalfTop, Next, mChunkTotalCount, made, lost, ends, pc, newChunk>>

\* AllocChunk under the lock, none is there.
ManagerIsEmpty(t) ==
  /\ pc[t] = "idle" /\ mTop[t] = Null /\ mChunks = <<>>
  /\ pc' = [pc EXCEPT ![t] = "alloc"]
  /\ UNCHANGED <<mTop, mHalfTop, mSize, Next, mChunks, mChunkTotalCount, made, inUse, lost, ends,
                 newChunk>>

\* Next after ChunkSize new nodes are linked, the last one made on top.
ChunkLinks(first) == [n \in Nodes |->
  IF n = first THEN Null
  ELSE IF n \in first + 1 .. first + ChunkSize - 1 THEN n - 1 ELSE Next[n]]

\* Mutant: the counter is left alone.
TotalAfterNewChunkSame == mChunkTotalCount

\* InterlockedIncrement of mChunkTotalCount.
TotalAfterNewChunk == mChunkTotalCount + 1

\* A chunk is made outside of the lock; past MAX_CHUNK_COUNT the process dies.
MakeChunk ==
  /\ mChunkTotalCount < MaxChunks /\ made < MaxNodes
  /\ Next' = ChunkLinks(made + 1)
  /\ made' = made + ChunkSize
  /\ mChunkTotalCount' = TotalAfterNewChunk

AllocNewChunk(t) ==
  /\ pc[t] = "alloc"
  /\ MakeChunk
  /\ HandOut(t, made + ChunkSize, ChunkSize, Next')
  /\ pc' = [pc EXCEPT ![t] = "idle"]
  /\ UNCHANGED <<mHalfTop, mChunks, lost, ends, newChunk>>

----------------------------------------------------------------------------
(* PreCreateChunk *)

CreateChunk(t) ==
  /\ pc[t] = "idle"
  /\ MakeChunk
  /\ newChunk' = [newChunk EXCEPT ![t] = made + ChunkSize]
  /\ pc' = [pc EXCEPT ![t] = "create"]
  /\ UNCHANGED <<mTop, mHalfTop, mSize, mChunks, inUse, lost, ends>>

PutChunk(t) ==
  /\ pc[t] = "create"
  /\ mChunks' = Append(mChunks, newChunk[t])
  /\ newChunk' = [newChunk EXCEPT ![t] = Null]
  /\ pc' = [pc EXCEPT ![t] = "idle"]
  /\ UNCHANGED <<mTop, mHalfTop, mSize, Next, mChunkTotalCount, made, inUse, lost, ends>>

----------------------------------------------------------------------------
(* Free *)

\* The object just freed is the one above the lower half.
IsHalf(size) == size = ChunkSize + 1

FreeOwn(t, n) ==
  /\ pc[t] = "idle" /\ n \in inUse /\ mSize[t] + 1 # MaxPerThread
  /\ inUse' = inUse \ {n}
  /\ Next' = [Next EXCEPT ![n] = mTop[t]]
  /\ mTop' = [mTop EXCEPT ![t] = n]
  /\ mSize' = [mSize EXCEPT ![t] = @ + 1]
  /\ mHalfTop' = [mHalfTop EXCEPT ![t] = IF IsHalf(mSize[t] + 1) THEN n ELSE @]
  /\ UNCHANGED <<mChunks, mChunkTotalCount, made, lost, ends, pc, newChunk>>

\* Mutant: the upper half is not cut off from the lower one.
CutUncut(next, half) == next

\* mHalfTop->Next = nullptr
Cut(next, half) == [next EXCEPT ![half] = Null]

\* Mutant: the thread keeps counting the half it gave away.
SizeAfterGivingKept(size) == size

SizeAfterGiving(size) == size - ChunkSize

\* The list has two chunks: the upper one goes to the manager.
FreeToManager(t, n) ==
  LET linked == [Next EXCEPT ![n] = mTop[t]] IN
  /\ pc[t] = "idle" /\ n \in inUse /\ mSize[t] + 1 = MaxPerThread
  /\ inUse' = inUse \ {n}
  /\ mTop' = [mTop EXCEPT ![t] = linked[mHalfTop[t]]]
  /\ Next' = Cut(linked, mHalfTop[t])
  /\ mSize' = [mSize EXCEPT ![t] = SizeAfterGiving(mSize[t] + 1)]
  /\ mChunks' = Append(mChunks, n)
  /\ UNCHANGED <<mHalfTop, mChunkTotalCount, made, lost, ends, pc, newChunk>>

----------------------------------------------------------------------------
(* The end of a thread *)

\* The node i places behind top in its list, Null past its end.
Behind(top) ==
  LET at[i \in 0 .. MaxNodes] ==
        IF i = 0 THEN top
        ELSE LET above == at[i - 1] IN IF above = Null THEN Null ELSE Next[above]
  IN  at

ListOf(t) == { Behind(mTop[t])[i] : i \in 0 .. MaxNodes } \ {Null}

\* The pool has no destructor: the thread_local list is forgotten with what is in
\* it, and mChunkTotalCount keeps counting it.  A new thread, here of the same
\* name, begins with an empty list.
EndThread(t) ==
  /\ pc[t] = "idle" /\ ends < MaxEnds
  /\ ends' = ends + 1
  /\ lost' = lost \cup ListOf(t)
  /\ mTop' = [mTop EXCEPT ![t] = Null]
  /\ mHalfTop' = [mHalfTop EXCEPT ![t] = Null]
  /\ mSize' = [mSize EXCEPT ![t] = 0]
  /\ UNCHANGED <<Next, mChunks, mChunkTotalCount, made, inUse, pc, newChunk>>

----------------------------------------------------------------------------
\* An Alloc that needs more than MAX_CHUNK_COUNT chunks: the assertion fails.
Crashed == /\ \E t \in Threads : pc[t] = "alloc"
           /\ mChunkTotalCount = MaxChunks
           /\ UNCHANGED vars

NextStep ==
  \/ Crashed
  \/ \E t \in Threads :
    \/ AllocOwn(t) \/ AllocFromManager(t) \/ ManagerIsEmpty(t) \/ AllocNewChunk(t)
    \/ CreateChunk(t) \/ PutChunk(t) \/ EndThread(t)
    \/ \E n \in Nodes : FreeOwn(t, n) \/ FreeToManager(t, n)

Spec == Init /\ [][NextStep]_vars

----------------------------------------------------------------------------
\* The values the variables range over.
TypeOK ==
  /\ mTop \in [Threads -> Nodes \cup {Null}]
  /\ mHalfTop \in [Threads -> Nodes \cup {Null}]
  /\ mSize \in [Threads -> 0 .. MaxPerThread - 1]
  /\ Next \in [Nodes -> Nodes \cup {Null}]
  /\ mChunks \in Seq(Nodes) /\ mChunkTotalCount \in 0 .. MaxChunks
  /\ Len(mChunks) <= mChunkTotalCount
  /\ made \in 0 .. MaxNodes /\ inUse \subseteq 1 .. made /\ lost \subseteq 1 .. made
  /\ ends \in 0 .. MaxEnds
  /\ pc \in [Threads -> {"idle", "alloc", "create"}]
  /\ newChunk \in [Threads -> Nodes \cup {Null}]

Length(top) == Cardinality({ i \in 0 .. MaxNodes : Behind(top)[i] # Null })

\* Every chunk in the manager has exactly OBJECT_COUNT_PER_CHUNK objects, as
\* Alloc takes for granted (TlsObjectPool.h:49), whichever threads freed them.
ChunksWhole == \A i \in DOMAIN mChunks : Length(mChunks[i]) = ChunkSize

\* Where node n is, as often as it is there.
Places(n) ==
  { <<"in use", 0, 0>> : x \in {n} \cap inUse }
  \cup { <<"lost", 0, 0>> : x \in {n} \cap lost }
  \cup { <<"thread", p[1], p[2]>> :
           p \in { q \in Threads \X (0 .. MaxNodes) : Behind(mTop[q[1]])[q[2]] = n } }
  \cup { <<"made", p[1], p[2]>> :
           p \in { q \in Threads \X (0 .. MaxNodes) : Behind(newChunk[q[1]])[q[2]] = n } }
  \cup { <<"manager", p[1], p[2]>> :
           p \in { q \in (DOMAIN mChunks) \X (0 .. MaxNodes) : Behind(mChunks[q[1]])[q[2]] = n } }

\* No object is lost but with the list of a thread that ended, none is in two
\* lists or handed out twice.
ObjectsConserved == \A n \in 1 .. made : Cardinality(Places(n)) = 1

=============================================================================
