--------------------------- MODULE LockFreeStack ---------------------------
(***************************************************************************)
(* LockFreeStack as NetServer uses it, for the keys of unused sessions: a   *)
(* linked stack under mTop, changed by compare-and-swap.  Its nodes come    *)
(* from a pool and go back to it when they are popped, so another Push may  *)
(* write the Next a stalled TryPop is about to read; the ID in mTop makes   *)
(* that TryPop fail.  A key is pushed by who has it, so it is never on the  *)
(* stack twice.                                                            *)
(*                                                                          *)
(* Every step makes one access to memory that other threads share; the pool *)
(* is the stack of free nodes LockFreeObjectPool implements.                *)
(***************************************************************************)
EXTENDS Integers, Sequences, FiniteSets

CONSTANTS
  Threads, Keys,
  TagCount,     \* pointer IDs: 2^ID_FLAG_BIT_COUNT
  MaxPushes     \* bound: calls of Push

\* What the constants have to be.
StackConstants ==
  /\ IsFiniteSet(Threads) /\ IsFiniteSet(Keys) /\ <<>> \notin Keys
  /\ TagCount \in Nat \ {0} /\ MaxPushes \in Nat

\* A node for each key on the stack or on its way, and for each TryPop that has
\* not freed its own yet.
MaxNodes == Cardinality(Keys) + Cardinality(Threads)
Nodes    == 1 .. MaxNodes
Pointers == (0 .. MaxNodes) \X (0 .. TagCount - 1)
Null     == <<0, 0>>
NoKey    == <<>>

VARIABLES
  mTop, mID, mCount,
  Next, Data,       \* the fields of each node
  pool, made,       \* free nodes, and how many were made with new
  held,             \* keys the program has
  pc, key, newNode, localMyTop, localMyNext

shared == <<mTop, mID, mCount, Next, Data, pool, made, held>>
locals == <<key, newNode, localMyTop, localMyNext>>
vars   == <<shared, locals, pc>>

Init ==
  /\ mTop = Null /\ mID = 0 /\ mCount = 0
  /\ Next = [n \in Nodes |-> Null] /\ Data = [n \in Nodes |-> NoKey]
  /\ pool = <<>> /\ made = 0
  /\ held = Keys
  /\ pc = [t \in Threads |-> "idle"]
  /\ key = [t \in Threads |-> NoKey]
  /\ newNode = [t \in Threads |-> Null]
  /\ localMyTop = [t \in Threads |-> Null]
  /\ localMyNext = [t \in Threads |-> Null]

At(t, l)   == pc[t] = l
Goto(t, l) == pc' = [pc EXCEPT ![t] = l]

\* A finished call leaves nothing in its locals.
Forget(t) ==
  /\ key' = [key EXCEPT ![t] = NoKey]
  /\ newNode' = [newNode EXCEPT ![t] = Null]
  /\ localMyTop' = [localMyTop EXCEPT ![t] = Null]
  /\ localMyNext' = [localMyNext EXCEPT ![t] = Null]

getPurePointer(p) == p[1]

----------------------------------------------------------------------------
(* Push *)

Push(t, k) ==
  /\ At(t, "idle") /\ mID < MaxPushes
  /\ k \in held
  /\ held' = held \ {k}
  /\ key' = [key EXCEPT ![t] = k]
  /\ Goto(t, "alloc")
  /\ UNCHANGED <<mTop, mID, mCount, Next, Data, pool, made, newNode, localMyTop, localMyNext>>

\* mNodePool.Alloc, as the ObjectPool module has it: the node freed last, or,
\* when there was none, a new one.
Alloc(t) ==
  /\ At(t, "alloc")
  /\ \/ /\ pool # <<>>
        /\ newNode' = [newNode EXCEPT ![t] = <<Head(pool), 0>>]
        /\ pool' = Tail(pool)
        /\ Goto(t, "fill")
     \/ /\ pool = <<>>
        /\ Goto(t, "new")
        /\ UNCHANGED <<newNode, pool>>
  /\ UNCHANGED <<mTop, mID, mCount, Next, Data, made, held, key, localMyTop, localMyNext>>

NewNode(t) ==
  /\ At(t, "new") /\ made < MaxNodes
  /\ newNode' = [newNode EXCEPT ![t] = <<made + 1, 0>>]
  /\ made' = made + 1
  /\ Goto(t, "fill")
  /\ UNCHANGED <<mTop, mID, mCount, Next, Data, pool, held, key, localMyTop, localMyNext>>

\* Mutant: every pointer has the ID 0.
IdFlagZero(id) == 0

\* Mutant: the ID is shifted one bit too far.
IdFlagTooFar(id) == 2 * id

\* The low 16 bits of mID, in the top 16 bits of the pointer.
IdFlag(id) == id % TagCount

\* The data and the ID of the new node.
Fill(t) ==
  LET n == getPurePointer(newNode[t]) IN
  /\ At(t, "fill")
  /\ Data' = [Data EXCEPT ![n] = key[t]]
  /\ mID' = mID + 1
  /\ newNode' = [newNode EXCEPT ![t] = <<n, IdFlag(mID + 1)>>]
  /\ Goto(t, "push_top")
  /\ UNCHANGED <<mTop, mCount, Next, pool, made, held, key, localMyTop, localMyNext>>

ReadTopToPush(t) ==
  /\ At(t, "push_top")
  /\ localMyTop' = [localMyTop EXCEPT ![t] = mTop]
  /\ Goto(t, "set_next")
  /\ UNCHANGED <<shared, key, newNode, localMyNext>>

SetNext(t) ==
  /\ At(t, "set_next")
  /\ Next' = [Next EXCEPT ![getPurePointer(newNode[t])] = localMyTop[t]]
  /\ Goto(t, "push")
  /\ UNCHANGED <<mTop, mID, mCount, Data, pool, made, held, locals>>

\* Mutant: only the address of mTop is compared.
SameTopAddress(t) == getPurePointer(mTop) = getPurePointer(localMyTop[t])

\* The compare of the compare-and-swaps on mTop.
SameTop(t) == mTop = localMyTop[t]

\* Compare-and-swap of mTop to the new node.
PushTop(t) ==
  /\ At(t, "push")
  /\ IF SameTop(t) THEN mTop' = newNode[t] /\ Goto(t, "count_up")
                   ELSE UNCHANGED mTop /\ Goto(t, "push_top")
  /\ UNCHANGED <<mID, mCount, Next, Data, pool, made, held, locals>>

CountUp(t) ==
  /\ At(t, "count_up")
  /\ mCount' = mCount + 1
  /\ Forget(t)
  /\ Goto(t, "idle")
  /\ UNCHANGED <<mTop, mID, Next, Data, pool, made, held>>

----------------------------------------------------------------------------
(* TryPop *)

\* With no top it returns false.
ReadTop(t) ==
  /\ At(t, "idle") \/ At(t, "pop_top")
  /\ IF mTop = Null
     THEN Forget(t) /\ Goto(t, "idle")
     ELSE /\ localMyTop' = [localMyTop EXCEPT ![t] = mTop]
          /\ UNCHANGED <<key, newNode, localMyNext>>
          /\ Goto(t, "next")
  /\ UNCHANGED shared

ReadNext(t) ==
  /\ At(t, "next")
  /\ localMyNext' = [localMyNext EXCEPT ![t] = Next[getPurePointer(localMyTop[t])]]
  /\ Goto(t, "pop")
  /\ UNCHANGED <<shared, key, newNode, localMyTop>>

\* Compare-and-swap of mTop to the node below.
PopTop(t) ==
  /\ At(t, "pop")
  /\ IF SameTop(t) THEN mTop' = localMyNext[t] /\ Goto(t, "count_down")
                   ELSE UNCHANGED mTop /\ Goto(t, "pop_top")
  /\ UNCHANGED <<mID, mCount, Next, Data, pool, made, held, locals>>

CountDown(t) ==
  /\ At(t, "count_down")
  /\ mCount' = mCount - 1
  /\ Goto(t, "data")
  /\ UNCHANGED <<mTop, mID, Next, Data, pool, made, held, locals>>

\* outData: the key is the caller's.
ReadData(t) ==
  /\ At(t, "data")
  /\ held' = held \cup {Data[getPurePointer(localMyTop[t])]}
  /\ Goto(t, "free")
  /\ UNCHANGED <<mTop, mID, mCount, Next, Data, pool, made, locals>>

\* mNodePool.Free.
Free(t) ==
  /\ At(t, "free")
  /\ pool' = <<getPurePointer(localMyTop[t])>> \o pool
  /\ Forget(t)
  /\ Goto(t, "idle")
  /\ UNCHANGED <<mTop, mID, mCount, Next, Data, made, held>>

----------------------------------------------------------------------------
ThreadStep(t) ==
  \/ (\E k \in held : Push(t, k)) \/ Alloc(t) \/ NewNode(t) \/ Fill(t) \/ ReadTopToPush(t)
  \/ SetNext(t) \/ PushTop(t) \/ CountUp(t)
  \/ ReadTop(t) \/ ReadNext(t) \/ PopTop(t) \/ CountDown(t) \/ ReadData(t) \/ Free(t)

NextStep == \E t \in Threads : ThreadStep(t)

Spec == Init /\ [][NextStep]_vars

----------------------------------------------------------------------------
\* The values the variables range over.
TypeOK ==
  /\ mTop \in Pointers /\ mID \in 0 .. MaxPushes + Cardinality(Threads) /\ mCount \in Int
  /\ Next \in [Nodes -> Pointers] /\ Data \in [Nodes -> Keys \cup {NoKey}]
  /\ pool \in Seq(Nodes) /\ made \in 0 .. MaxNodes
  /\ held \subseteq Keys
  /\ key \in [Threads -> Keys \cup {NoKey}]
  /\ newNode \in [Threads -> Pointers]
  /\ localMyTop \in [Threads -> Pointers] /\ localMyNext \in [Threads -> Pointers]

\* The i-th node under mTop, 0 below the last one.
NodeAt[i \in 1 .. MaxNodes + 1] ==
  IF i = 1 THEN getPurePointer(mTop)
  ELSE LET above == NodeAt[i - 1]
       IN  IF above = 0 THEN 0 ELSE getPurePointer(Next[above])

Length == Cardinality({ i \in 1 .. MaxNodes + 1 : NodeAt[i] # 0 })

Pushing == { t \in Threads : pc[t] \in {"alloc", "new", "fill", "push_top", "set_next", "push"} }
Popped  == { t \in Threads : pc[t] \in {"count_down", "data"} }

\* The stack the list and the calls on their way stand for.
Stack == INSTANCE KeyStack WITH
  contents <- [i \in 1 .. Length |-> Data[NodeAt[i]]],
  held     <- held \cup { key[t] : t \in Pushing }
                   \cup { Data[getPurePointer(localMyTop[t])] : t \in Popped }

\* Where a node is: on the stack, in the pool, or in the hands of a call.
Places(n) ==
  { <<"list", i>> : i \in { j \in 1 .. MaxNodes + 1 : NodeAt[j] = n } }
    \cup { <<"pool", i>> : i \in { j \in DOMAIN pool : pool[j] = n } }
    \cup { <<"new", t>> : t \in { u \in Pushing : /\ getPurePointer(newNode[u]) = n
                                                  /\ pc[u] \notin {"alloc", "new"} } }
    \cup { <<"old", t>> : t \in { u \in Threads : /\ getPurePointer(localMyTop[u]) = n
                                                  /\ pc[u] \in {"count_down", "data", "free"} } }

\* Each node that was made is in one place: none is lost, and the pool does not hand
\* out one that is still on the stack or whose data is still to be read.
NodesConserved == \A n \in 1 .. made : Cardinality(Places(n)) = 1
=============================================================================
