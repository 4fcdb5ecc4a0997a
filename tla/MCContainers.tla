---------------------------- MODULE MCContainers ----------------------------
(***************************************************************************)
(* Instances of the containers small enough for TLC, each on its own: a     *)
(* behaviour is one of the queue, of the key stack, of the object pool or   *)
(* of the thread-local pool, and the others stay as they were made.         *)
(***************************************************************************)
EXTENDS QueueProperties, TLC

CONSTANTS a, b, c, d, e, f, g   \* threads, and the keys of the stack

TwoProducers == {d, e}
TwoConsumers == {f, g}

\* One producer at a time with its nodes recycled, or two that help each other:
\* no node is recycled under an Enqueue that stalls.
NoNodeReused == { [p \in Producers |-> IF p = q THEN 3 ELSE 0] : q \in Producers }
                \cup { [p \in Producers |-> 1] }

VARIABLES
  running,      \* the container of this behaviour
  sTop, sID, sCount, sNext, sData, sPool, sMade, sHeld,
  sPc, sKey, sNewNode, sMyTop, sMyNext,
  oTop, oID, oCapacity, oSize, oNext, oInUse, oPc, oMyTop, oMyNext, oNewTop,
  tTop, tHalfTop, tSize, tNext, tChunks, tTotal, tMade, tInUse, tLost, tEnds, tPc, tNewChunk

stackVars == <<sTop, sID, sCount, sNext, sData, sPool, sMade, sHeld,
               sPc, sKey, sNewNode, sMyTop, sMyNext>>
poolVars  == <<oTop, oID, oCapacity, oSize, oNext, oInUse, oPc, oMyTop, oMyNext, oNewTop>>
tlsVars   == <<tTop, tHalfTop, tSize, tNext, tChunks, tTotal, tMade, tInUse, tLost, tEnds,
               tPc, tNewChunk>>

S == INSTANCE LockFreeStack WITH
       Threads <- {a, b, c}, Keys <- {d, e}, TagCount <- 6, MaxPushes <- 3,
       mTop <- sTop, mID <- sID, mCount <- sCount, Next <- sNext, Data <- sData,
       pool <- sPool, made <- sMade, held <- sHeld, pc <- sPc, key <- sKey,
       newNode <- sNewNode, localMyTop <- sMyTop, localMyNext <- sMyNext

O == INSTANCE LockFreeObjectPool WITH
       Threads <- {d, e}, TagCount <- 8, MaxObjects <- 3, MaxFrees <- 4,
       mTop <- oTop, mID <- oID, mCapacity <- oCapacity, mSize <- oSize, Next <- oNext,
       inUse <- oInUse, pc <- oPc, localMyTop <- oMyTop, localMyNext <- oMyNext,
       newTopHopeToChange <- oNewTop

T == INSTANCE TlsObjectPool WITH
       Threads <- {d, e}, ChunkSize <- 2, MaxChunks <- 2, MaxEnds <- 1,
       mTop <- tTop, mHalfTop <- tHalfTop, mSize <- tSize, Next <- tNext,
       mChunks <- tChunks, mChunkTotalCount <- tTotal, made <- tMade, inUse <- tInUse,
       lost <- tLost, ends <- tEnds, pc <- tPc, newChunk <- tNewChunk

ASSUME ContainerConstants == S!StackConstants /\ O!PoolConstants /\ T!PoolConstants

ContainersInit ==
  /\ running \in {"queue", "stack", "pool", "tls"}
  /\ Init /\ S!Init /\ O!Init /\ T!Init

ContainersNext ==
  /\ UNCHANGED running
  /\ \/ running = "queue" /\ NextStep   /\ UNCHANGED <<stackVars, poolVars, tlsVars>>
     \/ running = "stack" /\ S!NextStep /\ UNCHANGED <<vars, poolVars, tlsVars>>
     \/ running = "pool"  /\ O!NextStep /\ UNCHANGED <<vars, stackVars, tlsVars>>
     \/ running = "tls"   /\ T!NextStep /\ UNCHANGED <<vars, stackVars, poolVars>>

ContainersSpec ==
  ContainersInit /\ [][ContainersNext]_<<running, vars, stackVars, poolVars, tlsVars>>

\* No container tells one of its threads or keys from another: a, b and c are
\* threads of the stack only, d and e are in every container.
Interchangeable == Permutations({a, b, c}) \cup Permutations({d, e})

----------------------------------------------------------------------------
\* The values the variables of each range over.
TypesOK ==
  CASE running = "queue" -> TypeOK
    [] running = "stack" -> S!TypeOK
    [] running = "pool"  -> O!TypeOK
    [] running = "tls"   -> T!TypeOK

\* No node of the queue, the stack or the thread-local pool is lost or in two
\* places, but for what a thread that ended had in its list.
NothingLost == /\ running = "queue" => NodesConserved
               /\ running = "stack" => S!NodesConserved
               /\ running = "tls"   => T!ObjectsConserved

\* The counters of the queue and of the object pool agree with their lists: PostSend
\* may take as many packets as GetCount has told it, and Clear never fails its
\* assertion when every object has been given back.
CountersAgree == /\ running = "queue" => CountIsLength
                 /\ running = "pool"  => O!CountsItself

\* Each container implements what its callers are promised: Fifo, Stack and Pool
\* are the promises under the mappings of the modules, and a container that does
\* not run is not looked at.
\* The list of the queue is a first-in first-out queue: a value enters it at the
\* compare-and-swap on Next and leaves it at the one on mHead, at the other end.
QueueImplementsFifo == Fifo!Init /\ [][running = "queue" => Fifo!Next]_Fifo!vars

\* The key stack is a stack: Push and TryPop are one step each, no key is lost or
\* popped twice, so no session is given to two connections.
StackImplementsStack ==
  S!Stack!Init /\ [][running = "stack" => S!Stack!Next]_S!Stack!vars

\* The object pool is a pool: Alloc and Free are one step each, and Clear; no object
\* is handed out twice, lost, or handed out while it is being freed.
PoolImplementsPool == O!Pool!Init /\ [][running = "pool" => O!Pool!Next]_O!Pool!vars

\* The thread-local pool: every chunk of the manager is whole.
ChunksWhole == running = "tls" => T!ChunksWhole
=============================================================================
