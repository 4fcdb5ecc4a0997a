------------------------- MODULE LockFreeObjectPool -------------------------
(***************************************************************************)
(* LockFreeObjectPool: free objects are a linked stack under mTop, taken    *)
(* and given back by compare-and-swap from any thread.  A thread may stall  *)
(* between reading mTop and its compare-and-swap while others take the same *)
(* object and free it again; the ID in the top 16 bits of mTop, a new one   *)
(* for each Free, tells the two mTop values apart.                          *)
(*                                                                          *)
(* Every step makes one access to memory that other threads share.          *)
(***************************************************************************)
EXTENDS Integers, Sequences, FiniteSets

CONSTANTS
  Threads,
  TagCount,     \* pointer IDs: 2^ID_FLAG_BIT_COUNT
  MaxObjects,   \* bound: objects made with new
  MaxFrees      \* bound: calls of Free

\* What the constants have to be.
PoolConstants ==
  IsFiniteSet(Threads) /\ TagCount \in Nat \ {0} /\ MaxObjects \in Nat /\ MaxFrees \in Nat

Objects  == 1 .. MaxObjects
Pointers == (0 .. MaxObjects) \X (0 .. TagCount - 1)
Null     == <<0, 0>>

VARIABLES
  mTop, mID, mCapacity, mSize,
  Next,         \* of each node, kept while the object is in use
  inUse,        \* objects the program has
  pc, localMyTop, localMyNext, newTopHopeToChange

shared == <<mTop, mID, mCapacity, mSize, Next, inUse>>
locals == <<localMyTop, localMyNext, newTopHopeToChange>>
vars   == <<shared, locals, pc>>

Init ==
  /\ mTop = Null /\ mID = 0 /\ mCapacity = 0 /\ mSize = 0
  /\ Next = [o \in Objects |-> Null]
  /\ inUse = {}
  /\ pc = [t \in Threads |-> "idle"]
  /\ localMyTop = [t \in Threads |-> Null]
  /\ localMyNext = [t \in Threads |-> Null]
  /\ newTopHopeToChange = [t \in Threads |-> Null]

At(t, l)   == pc[t] = l
Goto(t, l) == pc' = [pc EXCEPT ![t] = l]

\* A finished call leaves nothing in its locals.
Forget(t) ==
  /\ localMyTop' = [localMyTop EXCEPT ![t] = Null]
  /\ localMyNext' = [localMyNext EXCEPT ![t] = Null]
  /\ newTopHopeToChange' = [newTopHopeToChange EXCEPT ![t] = Null]

getPurePointer(p) == p[1]

----------------------------------------------------------------------------
(* Alloc *)

\* An empty pool makes the caller make a node of its own.
ReadTop(t) ==
  /\ pc[t] \in {"idle", "alloc"}
  /\ localMyTop' = [localMyTop EXCEPT ![t] = mTop]
  /\ Goto(t, IF mTop = Null THEN "new" ELSE "next")
  /\ UNCHANGED <<shared, localMyNext, newTopHopeToChange>>

NewNode(t) ==
  /\ At(t, "new") /\ mCapacity < MaxObjects
  /\ mCapacity' = mCapacity + 1
  /\ inUse' = inUse \cup {mCapacity + 1}
  /\ Forget(t)
  /\ Goto(t, "idle")
  /\ UNCHANGED <<mTop, mID, mSize, Next>>

ReadNext(t) ==
  /\ At(t, "next")
  /\ localMyNext' = [localMyNext EXCEPT ![t] = Next[getPurePointer(localMyTop[t])]]
  /\ Goto(t, "pop")
  /\ UNCHANGED <<shared, localMyTop, newTopHopeToChange>>

\* Mutant: only the address of mTop is compared.
SameTopAddress(t) == getPurePointer(mTop) = getPurePointer(localMyTop[t])

\* The compare of the compare-and-swaps on mTop.
SameTop(t) == mTop = localMyTop[t]

\* The object is the caller's from here on.
PopTop(t) ==
  /\ At(t, "pop")
  /\ IF SameTop(t)
     THEN /\ mTop' = localMyNext[t]
          /\ inUse' = inUse \cup {getPurePointer(localMyTop[t])}
          /\ Goto(t, "size_down")
     ELSE UNCHANGED <<mTop, inUse>> /\ Goto(t, "alloc")
  /\ UNCHANGED <<mID, mCapacity, mSize, Next, locals>>

SizeDown(t) ==
  /\ At(t, "size_down")
  /\ mSize' = mSize - 1
  /\ Forget(t)
  /\ Goto(t, "idle")
  /\ UNCHANGED <<mTop, mID, mCapacity, Next, inUse>>

----------------------------------------------------------------------------
(* Free *)

\* Mutant: every pointer has the ID 0.
IdFlagZero(id) == 0

\* Mutant: the ID is shifted one bit too far.
IdFlagTooFar(id) == 2 * id

\* The low 16 bits of mID, in the top 16 bits of the pointer.
IdFlag(id) == id % TagCount

\* Any thread may free what any thread has allocated.
FreeId(t, o) ==
  /\ At(t, "idle") /\ mID < MaxFrees
  /\ o \in inUse
  /\ mID' = mID + 1
  /\ newTopHopeToChange' = [newTopHopeToChange EXCEPT ![t] = <<o, IdFlag(mID + 1)>>]
  /\ inUse' = inUse \ {o}
  /\ Goto(t, "free")
  /\ UNCHANGED <<mTop, mCapacity, mSize, Next, localMyTop, localMyNext>>

ReadTopToPush(t) ==
  /\ At(t, "free")
  /\ localMyTop' = [localMyTop EXCEPT ![t] = mTop]
  /\ Goto(t, "set_next")
  /\ UNCHANGED <<shared, localMyNext, newTopHopeToChange>>

SetNext(t) ==
  /\ At(t, "set_next")
  /\ Next' = [Next EXCEPT ![getPurePointer(newTopHopeToChange[t])] = localMyTop[t]]
  /\ Goto(t, "push")
  /\ UNCHANGED <<mTop, mID, mCapacity, mSize, inUse, locals>>

PushTop(t) ==
  /\ At(t, "push")
  /\ IF SameTop(t)
     THEN mTop' = newTopHopeToChange[t] /\ Goto(t, "size_up")
     ELSE UNCHANGED mTop /\ Goto(t, "free")
  /\ UNCHANGED <<mID, mCapacity, mSize, Next, inUse, locals>>

SizeUp(t) ==
  /\ At(t, "size_up")
  /\ mSize' = mSize + 1
  /\ Forget(t)
  /\ Goto(t, "idle")
  /\ UNCHANGED <<mTop, mID, mCapacity, Next, inUse>>

----------------------------------------------------------------------------
(* Clear *)

\* The nodes are deleted and the pool begins again, IDs included.  The caller has
\* given every object back and nobody is inside a call (the comment above Clear);
\* the assertion on the two counters then holds by CountsItself.
Clear ==
  /\ \A t \in Threads : At(t, "idle")
  /\ inUse = {} /\ mCapacity = mSize
  /\ mTop' = Null /\ mID' = 0 /\ mCapacity' = 0 /\ mSize' = 0
  /\ Next' = [o \in Objects |-> Null]
  /\ UNCHANGED <<inUse, locals, pc>>

----------------------------------------------------------------------------
\* Every thread wants one more object than the bound allows.
Finished == /\ \A t \in Threads : At(t, "new")
            /\ mCapacity = MaxObjects
            /\ UNCHANGED vars

ThreadStep(t) ==
  \/ ReadTop(t) \/ NewNode(t) \/ ReadNext(t) \/ PopTop(t) \/ SizeDown(t)
  \/ (\E o \in inUse : FreeId(t, o)) \/ ReadTopToPush(t) \/ SetNext(t) \/ PushTop(t) \/ SizeUp(t)

NextStep == (\E t \in Threads : ThreadStep(t)) \/ Clear \/ Finished

Spec == Init /\ [][NextStep]_vars

----------------------------------------------------------------------------
\* The values the variables range over.
TypeOK ==
  /\ mTop \in Pointers /\ mID \in 0 .. MaxFrees
  /\ mCapacity \in 0 .. MaxObjects /\ mSize \in Int
  /\ Next \in [Objects -> Pointers]
  /\ inUse \subseteq Objects
  /\ localMyTop \in [Threads -> Pointers] /\ localMyNext \in [Threads -> Pointers]
  /\ newTopHopeToChange \in [Threads -> Pointers]

\* The i-th free node under mTop, 0 below the last one.
NodeAt[i \in 1 .. MaxObjects + 1] ==
  IF i = 1 THEN getPurePointer(mTop)
  ELSE LET above == NodeAt[i - 1]
       IN  IF above = 0 THEN 0 ELSE getPurePointer(Next[above])

Size == Cardinality({ i \in 1 .. MaxObjects + 1 : NodeAt[i] # 0 })

Freeing == { t \in Threads : pc[t] \in {"free", "set_next", "push"} }

\* The pool the list and the calls on their way stand for.
Pool == INSTANCE ObjectPool WITH
          free  <- [i \in 1 .. Size |-> NodeAt[i]],
          inUse <- inUse \cup { getPurePointer(newTopHopeToChange[t]) : t \in Freeing }

\* mSize is the length of the list but for the calls that have not counted yet,
\* and mCapacity the number of objects: when every object has been given back
\* and nobody is inside a call, the assertion of Clear holds.
CountsItself ==
  /\ mSize = Size + Cardinality({ t \in Threads : At(t, "size_down") })
                  - Cardinality({ t \in Threads : At(t, "size_up") })
  /\ mCapacity = Size + Cardinality(inUse) + Cardinality(Freeing)
=============================================================================
