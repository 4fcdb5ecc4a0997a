---------------------------- MODULE StackProofs ----------------------------
(***************************************************************************)
(* LockFreeStack implements KeyStack.                                       *)
(*                                                                          *)
(* As in PoolProofs the proof carries along the list q under mTop.  Two      *)
(* kinds of things go round here, nodes and keys, and each of either kind is *)
(* in one place: spare, in the hands of a call, or on the list.  Apart, of   *)
(* ProofLemmas, says that once for both, and a step moves a node or a key    *)
(* between two of the places.                                               *)
(***************************************************************************)
EXTENDS LockFreeStack, ProofLemmas

----------------------------------------------------------------------------
(* The invariant *)

Labels == {"idle", "alloc", "new", "fill", "push_top", "set_next", "push", "count_up",
           "pop_top", "next", "pop", "count_down", "data", "free"}

\* Pointers to a node.
NodePointers == Nodes \X (0 .. TagCount - 1)

\* What a call knows of its locals.
LocalsKnown ==
  /\ pc \in [Threads -> Labels]
  /\ \A t \in Threads :
       /\ pc[t] \in {"next", "pop"} => localMyTop[t] \in NodePointers
       /\ pc[t] \in {"push_top", "set_next", "push"} => Data[newNode[t][1]] = key[t]
       /\ At(t, "push") => Next[newNode[t][1]] = localMyTop[t]

\* The calls of Push that have a node, and the calls of TryPop that have one.
Carrying == { t \in Threads : pc[t] \in {"fill", "push_top", "set_next", "push"} }
Keeping  == { t \in Threads : pc[t] \in {"count_down", "data", "free"} }

\* The nodes of the calls, and those that nobody uses.
NodeOf(t)  == IF t \in Carrying THEN newNode[t][1] ELSE localMyTop[t][1]
HandNodes  == [t \in Carrying \cup Keeping |-> NodeOf(t)]
SpareNodes == (made + 1 .. MaxNodes) \cup { pool[i] : i \in 1 .. Len(pool) }

\* The keys of the calls.
KeyOf(t) == IF t \in Pushing THEN key[t] ELSE Data[localMyTop[t][1]]
HandKeys == [t \in Pushing \cup Popped |-> KeyOf(t)]

\* The nodes of a list, and their keys.
NodesOf(q) == [i \in 1 .. Len(q) |-> q[i][1]]
KeysOf(q)  == [i \in 1 .. Len(q) |-> Data[q[i][1]]]

\* The pool has nodes that were made, each once.
PoolApart ==
  /\ \A i \in 1 .. Len(pool) : pool[i] <= made
  /\ \A i, j \in 1 .. Len(pool) : pool[i] = pool[j] => i = j

\* A pointer that is on the list still has the Next that was read through it.
NextStillTrue(q) ==
  \A i \in 1 .. Len(q) : \A t \in Threads :
    At(t, "pop") /\ localMyTop[t] = q[i] => localMyNext[t] = Next[q[i][1]]

\* The number of nodes.
Counted(q) == made = Len(q) + Len(pool) + Cardinality(Carrying) + Cardinality(Keeping)

ListInv(q) ==
  /\ IsList(mTop, Next, q, NodePointers) /\ NextStillTrue(q) /\ Counted(q)
  /\ Apart(Nodes, SpareNodes, HandNodes, NodesOf(q))
  /\ Apart(Keys, held, HandKeys, KeysOf(q))

\* The calls of Push that have not taken an ID: there is one left for each.
Unfilled == { t \in Threads : pc[t] \in {"alloc", "new", "fill"} }
IdsLeft  == Threads # {} => mID + Cardinality(Unfilled) < MaxPushes + Cardinality(Threads)

StackInv == TypeOK /\ LocalsKnown /\ PoolApart /\ IdsLeft /\ \E q : ListInv(q)

\* A pointer about to be pushed is not the one a stalled TryPop compares mTop with.
TagsTellApart ==
  \A t, u \in Threads : At(t, "pop") /\ At(u, "push") => newNode[u] # localMyTop[t]

\* The calls of Push whose node has its ID.
Tagged == { t \in Threads : pc[t] \in {"push_top", "set_next", "push"} }

----------------------------------------------------------------------------
(* Steps *)

\* The constants of the stack.
LEMMA ConstantFacts ==
  ASSUME StackConstants
  PROVE  /\ IsFiniteSet(Threads) /\ Cardinality(Threads) \in Nat /\ MaxNodes \in Nat
         /\ TagCount \in Nat \ {0} /\ MaxPushes \in Nat
BY FS_CardinalityType DEF StackConstants, MaxNodes

\* A pointer to a node is a pointer, and not Null.
LEMMA PointerFacts ==
  ASSUME StackConstants
  PROVE  /\ NodePointers \subseteq Pointers /\ Null \in Pointers /\ Null \notin NodePointers
         /\ NodePointers \subseteq (Nat \ {0}) \X Nat
         /\ \A p \in Pointers : p = <<p[1], p[2]>> /\ p[1] \in 0 .. MaxNodes /\ p[2] \in 0 .. TagCount - 1
         /\ \A p \in Pointers : p[1] \in Nodes => p \in NodePointers
         /\ \A p \in NodePointers : p[1] \in Nodes
<1>1. MaxNodes \in Nat /\ TagCount \in Nat \ {0}
  BY ConstantFacts
<1> QED BY <1>1 DEF NodePointers, Pointers, Null, Nodes

\* The ID of a pointer fits.
LEMMA FlagFits ==
  ASSUME StackConstants, NEW id \in Nat
  PROVE  IdFlag(id) \in 0 .. TagCount - 1
BY ConstantFacts DEF IdFlag

\* A step of one thread leaves the locals of the others alone.
LEMMA OthersStay ==
  ASSUME TypeOK, LocalsKnown, NEW t \in Threads, ThreadStep(t)
  PROVE  /\ pc' \in [Threads -> Labels]
         /\ \A u \in Threads : u # t =>
              /\ pc'[u] = pc[u] /\ key'[u] = key[u] /\ newNode'[u] = newNode[u]
              /\ localMyTop'[u] = localMyTop[u] /\ localMyNext'[u] = localMyNext[u]
<1>1. /\ pc \in [Threads -> Labels] /\ key \in [Threads -> Keys \cup {NoKey}]
      /\ newNode \in [Threads -> Pointers]
      /\ localMyTop \in [Threads -> Pointers] /\ localMyNext \in [Threads -> Pointers]
  BY DEF TypeOK, LocalsKnown
<1>2. CASE \E k \in held : Push(t, k)
  BY <1>1, <1>2 DEF Push, Goto, Labels
<1>3. CASE Alloc(t) \/ NewNode(t)
  BY <1>1, <1>3 DEF Alloc, NewNode, Goto, Labels
<1>4. CASE Fill(t)
  BY <1>1, <1>4 DEF Fill, Goto, Labels
<1>5. CASE ReadTopToPush(t)
  BY <1>1, <1>5 DEF ReadTopToPush, Goto, Labels
<1>6. CASE SetNext(t) \/ PushTop(t)
  BY <1>1, <1>6 DEF SetNext, PushTop, locals, Goto, Labels
<1>7. CASE CountUp(t) \/ Free(t)
  BY <1>1, <1>7 DEF CountUp, Free, Forget, Goto, Labels
<1>8. CASE ReadTop(t)
  BY <1>1, <1>8 DEF ReadTop, Forget, Goto, Labels
<1>9. CASE ReadNext(t)
  BY <1>1, <1>9 DEF ReadNext, Goto, Labels
<1>10. CASE PopTop(t) \/ CountDown(t) \/ ReadData(t)
  BY <1>1, <1>10 DEF PopTop, CountDown, ReadData, locals, Goto, Labels
<1> QED BY <1>2, <1>3, <1>4, <1>5, <1>6, <1>7, <1>8, <1>9, <1>10 DEF ThreadStep

\* Where the calls are: only that of the thread that moves can come or go.
LEMMA SetsMove ==
  ASSUME TypeOK, LocalsKnown, NEW t \in Threads, ThreadStep(t)
  PROVE  \A u \in Threads : u # t =>
           /\ (u \in Pushing' <=> u \in Pushing) /\ (u \in Popped' <=> u \in Popped)
           /\ (u \in Carrying' <=> u \in Carrying) /\ (u \in Keeping' <=> u \in Keeping)
           /\ (u \in Unfilled' <=> u \in Unfilled) /\ (u \in Tagged' <=> u \in Tagged)
           /\ (At(u, "pop")' <=> At(u, "pop"))
BY OthersStay DEF Pushing, Popped, Carrying, Keeping, Unfilled, Tagged, At

\* The nodes of the calls after a step of t.
LEMMA NodesMove ==
  ASSUME TypeOK, LocalsKnown, NEW t \in Threads, ThreadStep(t)
  PROVE  LET Holding == Carrying \cup Keeping IN
         /\ t \notin Holding /\ t \notin Holding' => HandNodes' = HandNodes
         /\ t \in Holding /\ t \in Holding' /\ NodeOf(t)' = NodeOf(t) => HandNodes' = HandNodes
         /\ t \notin Holding /\ t \in Holding' => HandNodes' = With(HandNodes, t, NodeOf(t)')
         /\ t \in Holding /\ t \notin Holding' => HandNodes' = Without(HandNodes, t)
<1> DEFINE Holding == Carrying \cup Keeping
<1>1. \A u \in Threads : u # t => (u \in Holding' <=> u \in Holding) /\ NodeOf(u)' = NodeOf(u)
  BY OthersStay, SetsMove DEF NodeOf
<1>2. Holding \subseteq Threads /\ Holding' \subseteq Threads
  BY DEF Carrying, Keeping
<1>3. HandNodes = [u \in Holding |-> NodeOf(u)] /\ HandNodes' = [u \in Holding' |-> NodeOf(u)']
  BY DEF HandNodes
<1>4. DOMAIN HandNodes = Holding
  BY <1>3
<1> HIDE DEF Holding
<1>5. CASE t \notin Holding /\ t \notin Holding'
  <2>1. Holding' = Holding /\ \A u \in Holding : NodeOf(u)' = NodeOf(u)
    BY <1>1, <1>2, <1>5
  <2> QED BY <1>3, <1>5, <2>1 DEF Holding
<1>6. CASE t \in Holding /\ t \in Holding'
  <2>1. Holding' = Holding
    BY <1>1, <1>2, <1>6
  <2>2. NodeOf(t)' = NodeOf(t) => \A u \in Holding : NodeOf(u)' = NodeOf(u)
    BY <1>1, <1>2, <1>6
  <2> QED BY <1>3, <1>6, <2>1, <2>2 DEF Holding
<1>7. CASE t \notin Holding /\ t \in Holding'
  <2>1. Holding' = Holding \cup {t} /\ \A u \in Holding : NodeOf(u)' = NodeOf(u)
    BY <1>1, <1>2, <1>7
  <2>2. HandNodes' = With(HandNodes, t, NodeOf(t)')
    BY <1>3, <1>4, <1>7, <2>1 DEF With
  <2> QED BY <1>7, <2>2 DEF Holding
<1>8. CASE t \in Holding /\ t \notin Holding'
  <2>1. Holding' = Holding \ {t} /\ \A u \in Holding' : NodeOf(u)' = NodeOf(u)
    BY <1>1, <1>2, <1>8
  <2>2. HandNodes' = Without(HandNodes, t)
    BY <1>3, <1>4, <1>8, <2>1 DEF Without
  <2> QED BY <1>8, <2>2 DEF Holding
<1> QED BY <1>5, <1>6, <1>7, <1>8 DEF Holding

\* The keys of the calls after a step of t that writes no key another call is about to read.
LEMMA KeysMove ==
  ASSUME TypeOK, LocalsKnown, NEW t \in Threads, ThreadStep(t),
         \A u \in Popped : u # t => Data'[localMyTop[u][1]] = Data[localMyTop[u][1]]
  PROVE  LET Busy == Pushing \cup Popped IN
         /\ t \notin Busy /\ t \notin Busy' => HandKeys' = HandKeys
         /\ t \in Busy /\ t \in Busy' /\ KeyOf(t)' = KeyOf(t) => HandKeys' = HandKeys
         /\ t \notin Busy /\ t \in Busy' => HandKeys' = With(HandKeys, t, KeyOf(t)')
         /\ t \in Busy /\ t \notin Busy' => HandKeys' = Without(HandKeys, t)
<1> DEFINE Busy == Pushing \cup Popped
<1>1. \A u \in Threads : u # t => (u \in Busy' <=> u \in Busy)
  BY SetsMove
<1>2. Busy \subseteq Threads /\ Busy' \subseteq Threads
  BY DEF Pushing, Popped
<1>3. \A u \in Busy : u # t => KeyOf(u)' = KeyOf(u)
  BY <1>2, OthersStay, SetsMove DEF KeyOf
<1>4. HandKeys = [u \in Busy |-> KeyOf(u)] /\ HandKeys' = [u \in Busy' |-> KeyOf(u)']
  BY DEF HandKeys
<1>5. DOMAIN HandKeys = Busy
  BY <1>4
<1> HIDE DEF Busy
<1>6. CASE t \notin Busy /\ t \notin Busy'
  <2>1. Busy' = Busy /\ \A u \in Busy : KeyOf(u)' = KeyOf(u)
    BY <1>1, <1>2, <1>3, <1>6
  <2> QED BY <1>4, <1>6, <2>1 DEF Busy
<1>7. CASE t \in Busy /\ t \in Busy'
  <2>1. Busy' = Busy
    BY <1>1, <1>2, <1>7
  <2>2. KeyOf(t)' = KeyOf(t) => \A u \in Busy : KeyOf(u)' = KeyOf(u)
    BY <1>3
  <2> QED BY <1>4, <1>7, <2>1, <2>2 DEF Busy
<1>8. CASE t \notin Busy /\ t \in Busy'
  <2>1. Busy' = Busy \cup {t} /\ \A u \in Busy : KeyOf(u)' = KeyOf(u)
    BY <1>1, <1>2, <1>3, <1>8
  <2>2. HandKeys' = With(HandKeys, t, KeyOf(t)')
    BY <1>4, <1>5, <1>8, <2>1 DEF With
  <2> QED BY <1>8, <2>2 DEF Busy
<1>9. CASE t \in Busy /\ t \notin Busy'
  <2>1. Busy' = Busy \ {t} /\ \A u \in Busy' : KeyOf(u)' = KeyOf(u)
    BY <1>1, <1>2, <1>3, <1>9
  <2>2. HandKeys' = Without(HandKeys, t)
    BY <1>4, <1>5, <1>9, <2>1 DEF Without
  <2> QED BY <1>9, <2>2 DEF Busy
<1> QED BY <1>6, <1>7, <1>8, <1>9 DEF Busy

\* The node of a call is its own.
LEMMA HandFacts ==
  ASSUME TypeOK, LocalsKnown, NEW q, ListInv(q)
  PROVE  /\ DOMAIN HandNodes = Carrying \cup Keeping /\ Carrying \cap Keeping = {}
         /\ \A t \in Carrying : HandNodes[t] = newNode[t][1] /\ newNode[t][1] \in Nodes
         /\ \A t \in Keeping : HandNodes[t] = localMyTop[t][1] /\ localMyTop[t][1] \in Nodes
         /\ \A t \in Carrying : \A i \in 1 .. Len(q) : q[i][1] # newNode[t][1]
         /\ \A t, u \in Carrying : u # t => newNode[u][1] # newNode[t][1]
         /\ \A t \in Carrying : \A u \in Keeping : localMyTop[u][1] # newNode[t][1]
<1> DEFINE Holding == Carrying \cup Keeping
<1>1. Carrying \cap Keeping = {}
  BY DEF Carrying, Keeping
<1>2. /\ DOMAIN HandNodes = Holding
      /\ \A t \in Carrying : HandNodes[t] = newNode[t][1]
      /\ \A t \in Keeping : HandNodes[t] = localMyTop[t][1]
  BY <1>1 DEF HandNodes, NodeOf
<1>3. /\ \A t \in Holding : HandNodes[t] \in Nodes
      /\ \A t, u \in Holding : HandNodes[t] = HandNodes[u] => t = u
      /\ \A i \in 1 .. Len(NodesOf(q)) : \A t \in Holding : HandNodes[t] # NodesOf(q)[i]
  BY <1>2 DEF ListInv, Apart
<1>4. Len(NodesOf(q)) = Len(q) /\ \A i \in 1 .. Len(q) : NodesOf(q)[i] = q[i][1]
  <2>1. q \in Seq(NodePointers) /\ Len(q) \in Nat
    BY LengthZero DEF ListInv, IsList
  <2>2. \A i \in 1 .. Len(q) : q[i] \in NodePointers /\ q[i][1] \in Nodes
    BY <2>1 DEF NodePointers
  <2>3. NodesOf(q) \in [1 .. Len(q) -> Nodes]
    BY <2>2 DEF NodesOf
  <2>4. Len(NodesOf(q)) = Len(q)
    BY <2>1, <2>3, FunctionIsSeq
  <2> QED BY <2>4 DEF NodesOf
<1> QED BY <1>1, <1>2, <1>3, <1>4

\* There is an ID for each call that has not taken one.
LEMMA IdsStep ==
  ASSUME StackConstants, TypeOK, LocalsKnown, IdsLeft, NEW t \in Threads, ThreadStep(t)
  PROVE  IdsLeft' /\ mID' \in 0 .. MaxPushes + Cardinality(Threads) /\ mID' >= mID
         /\ (Fill(t) => mID + 1 < MaxPushes + Cardinality(Threads))
<1>1. /\ mID \in Nat /\ MaxPushes \in Nat /\ Cardinality(Threads) \in Nat /\ IsFiniteSet(Threads)
      /\ mID + Cardinality(Unfilled) < MaxPushes + Cardinality(Threads)
      /\ pc \in [Threads -> Labels]
  BY ConstantFacts DEF TypeOK, IdsLeft, LocalsKnown
<1>2. /\ IsFiniteSet(Unfilled) /\ Cardinality(Unfilled) \in Nat
      /\ IsFiniteSet(Unfilled') /\ Cardinality(Unfilled') \in Nat
      /\ Cardinality(Unfilled') <= Cardinality(Threads)
  <2>1. Unfilled \in SUBSET Threads /\ Unfilled' \in SUBSET Threads
    BY DEF Unfilled
  <2>2. IsFiniteSet(Unfilled) /\ IsFiniteSet(Unfilled') /\ Cardinality(Unfilled') <= Cardinality(Threads)
    BY <1>1, <2>1, FS_Subset
  <2> QED BY <2>2, FS_CardinalityType
<1>3. \A u \in Threads : u # t => (u \in Unfilled' <=> u \in Unfilled)
  BY SetsMove
<1>4. ASSUME mID' = mID, t \in Unfilled' => t \in Unfilled
      PROVE  mID' + Cardinality(Unfilled') < MaxPushes + Cardinality(Threads)
  <2>1. Unfilled' \in SUBSET Unfilled
    BY <1>3, <1>4 DEF Unfilled
  <2>2. Cardinality(Unfilled') <= Cardinality(Unfilled)
    BY <1>2, <2>1, FS_Subset
  <2> QED BY <1>1, <1>2, <1>4, <2>2
<1>5. ASSUME NEW k \in held, Push(t, k)
      PROVE  mID' + Cardinality(Unfilled') < MaxPushes + Cardinality(Threads) /\ mID' = mID
  BY <1>1, <1>2, <1>5 DEF Push
<1>6. CASE Fill(t)
  <2>1. mID' = mID + 1 /\ t \in Unfilled /\ t \notin Unfilled'
    BY <1>1, <1>6 DEF Fill, Unfilled, Goto, At
  <2>2. Unfilled' = Unfilled \ {t}
    BY <1>3, <2>1 DEF Unfilled
  <2>3. Cardinality(Unfilled') = Cardinality(Unfilled) - 1
    BY <1>2, <2>1, <2>2, FS_RemoveElement
  <2> QED BY <1>1, <1>2, <2>1, <2>3 DEF IdsLeft
<1>7. CASE ~Fill(t) /\ ~\E k \in held : Push(t, k)
  <2>1. mID' = mID
    BY <1>7 DEF ThreadStep, Alloc, NewNode, ReadTopToPush, SetNext, PushTop, CountUp, ReadTop,
                ReadNext, PopTop, CountDown, ReadData, Free, shared
  <2>2. t \in Unfilled' => t \in Unfilled
    <3>1. CASE Alloc(t) \/ NewNode(t)
      BY <3>1 DEF Alloc, NewNode, Unfilled, At
    <3>2. CASE ReadTopToPush(t) \/ SetNext(t) \/ PushTop(t) \/ CountUp(t)
      BY <1>1, <3>2 DEF ReadTopToPush, SetNext, PushTop, CountUp, Unfilled, Goto
    <3>3. CASE ReadTop(t) \/ ReadNext(t) \/ PopTop(t)
      BY <1>1, <3>3 DEF ReadTop, ReadNext, PopTop, Unfilled, Goto
    <3>4. CASE CountDown(t) \/ ReadData(t) \/ Free(t)
      BY <1>1, <3>4 DEF CountDown, ReadData, Free, Unfilled, Goto
    <3> QED BY <1>7, <3>1, <3>2, <3>3, <3>4 DEF ThreadStep
  <2>3. mID' + Cardinality(Unfilled') < MaxPushes + Cardinality(Threads)
    BY <1>4, <2>1, <2>2
  <2> QED BY <1>1, <1>2, <1>7, <2>1, <2>3 DEF IdsLeft
<1>8. CASE \E k \in held : Push(t, k)
  <2>1. ~Fill(t)
    BY <1>1, <1>8 DEF Push, Fill, At
  <2>2. mID' = mID /\ mID' + Cardinality(Unfilled') < MaxPushes + Cardinality(Threads)
    BY <1>5, <1>8
  <2> QED BY <1>1, <1>2, <2>1, <2>2 DEF IdsLeft
<1> QED BY <1>6, <1>7, <1>8

\* Every step keeps the types.
LEMMA TypesStep ==
  ASSUME StackConstants, TypeOK, LocalsKnown, IdsLeft, NEW q, ListInv(q),
         NEW t \in Threads, ThreadStep(t)
  PROVE  TypeOK'
<1>1. /\ MaxNodes \in Nat /\ TagCount \in Nat \ {0} /\ Null \in Pointers
      /\ Null[1] = 0 /\ \A n \in 0 .. MaxNodes : \A g \in 0 .. TagCount - 1 : <<n, g>> \in Pointers
      /\ Nodes \subseteq 0 .. MaxNodes /\ 0 \in 0 .. TagCount - 1
  BY ConstantFacts, PointerFacts DEF Null, Pointers, Nodes
<1>2. mID' \in 0 .. MaxPushes + Cardinality(Threads)
  BY IdsStep
<1> DEFINE Rest ==
      /\ mTop \in Pointers /\ mCount \in Int
      /\ Next \in [Nodes -> Pointers] /\ Data \in [Nodes -> Keys \cup {NoKey}]
      /\ pool \in Seq(Nodes) /\ made \in 0 .. MaxNodes
      /\ held \subseteq Keys
      /\ key \in [Threads -> Keys \cup {NoKey}]
      /\ newNode \in [Threads -> Pointers]
      /\ localMyTop \in [Threads -> Pointers] /\ localMyNext \in [Threads -> Pointers]
<1>3. Rest
  BY DEF TypeOK
<1> SUFFICES Rest'
  BY <1>2 DEF TypeOK
<1>4. CASE \E k \in held : Push(t, k)
  BY <1>3, <1>4 DEF Push
<1>5. CASE Alloc(t)
  <2>1. CASE pool # <<>> /\ newNode' = [newNode EXCEPT ![t] = <<Head(pool), 0>>] /\ pool' = Tail(pool)
    <3>1. Head(pool) \in Nodes /\ Tail(pool) \in Seq(Nodes)
      BY <1>3, <2>1, TailOf
    <3>2. <<Head(pool), 0>> \in Pointers
      BY <1>1, <3>1
    <3> QED BY <1>3, <1>5, <2>1, <3>1, <3>2 DEF Alloc
  <2>2. CASE UNCHANGED <<newNode, pool>>
    BY <1>3, <1>5, <2>2 DEF Alloc
  <2> QED BY <1>5, <2>1, <2>2 DEF Alloc
<1>6. CASE NewNode(t)
  <2>1. made + 1 \in 0 .. MaxNodes /\ <<made + 1, 0>> \in Pointers
    BY <1>1, <1>3, <1>6 DEF NewNode
  <2> QED BY <1>3, <1>6, <2>1 DEF NewNode
<1>7. CASE Fill(t)
  <2>1. newNode[t][1] \in Nodes
    BY <1>7, HandFacts DEF Fill, At, Carrying
  <2>2. IdFlag(mID + 1) \in 0 .. TagCount - 1
    <3>1. mID + 1 \in Nat
      BY ConstantFacts DEF TypeOK
    <3> QED BY <3>1, FlagFits
  <2>3. <<newNode[t][1], IdFlag(mID + 1)>> \in Pointers
    BY <1>1, <2>1, <2>2
  <2> QED BY <1>3, <1>7, <2>3 DEF Fill, getPurePointer
<1>8. CASE ReadTopToPush(t) \/ SetNext(t) \/ PushTop(t)
  BY <1>3, <1>8 DEF ReadTopToPush, SetNext, PushTop, shared, locals
<1>9. CASE CountUp(t)
  BY <1>1, <1>3, <1>9 DEF CountUp, Forget
<1>10. CASE ReadTop(t)
  BY <1>1, <1>3, <1>10 DEF ReadTop, Forget, shared
<1>11. CASE ReadNext(t)
  <2>1. localMyTop[t][1] \in Nodes
    BY <1>11, PointerFacts DEF ReadNext, At, LocalsKnown
  <2> QED BY <1>3, <1>11, <2>1 DEF ReadNext, shared, getPurePointer
<1>12. CASE PopTop(t) \/ CountDown(t)
  BY <1>3, <1>12 DEF PopTop, CountDown, locals
<1>13. CASE ReadData(t)
  <2>1. t \in Popped /\ t \notin Pushing
    BY <1>13 DEF ReadData, At, Popped, Pushing
  <2>2. HandKeys[t] = Data[localMyTop[t][1]] /\ t \in DOMAIN HandKeys
    BY <2>1 DEF HandKeys, KeyOf
  <2>3. HandKeys[t] \in Keys
    BY <2>2 DEF ListInv, Apart
  <2> QED BY <1>3, <1>13, <2>2, <2>3 DEF ReadData, locals, getPurePointer
<1>14. CASE Free(t)
  <2>1. localMyTop[t][1] \in Nodes
    BY <1>14, HandFacts DEF Free, At, Keeping
  <2>2. <<localMyTop[t][1]>> \o pool \in Seq(Nodes)
    BY <1>3, <2>1, Prepended
  <2> QED BY <1>1, <1>3, <1>14, <2>2 DEF Free, Forget, getPurePointer
<1> QED BY <1>4, <1>5, <1>6, <1>7, <1>8, <1>9, <1>10, <1>11, <1>12, <1>13, <1>14 DEF ThreadStep

\* Every step keeps what the calls know of their locals.
LEMMA LocalsStep ==
  ASSUME StackConstants, TypeOK, LocalsKnown, NEW q, ListInv(q), NEW t \in Threads, ThreadStep(t)
  PROVE  LocalsKnown'
<1> DEFINE Known(u) ==
      /\ pc[u] \in {"next", "pop"} => localMyTop[u] \in NodePointers
      /\ pc[u] \in {"push_top", "set_next", "push"} => Data[newNode[u][1]] = key[u]
      /\ At(u, "push") => Next[newNode[u][1]] = localMyTop[u]
<1>1. /\ pc \in [Threads -> Labels] /\ \A u \in Threads : Known(u)
      /\ key \in [Threads -> Keys \cup {NoKey}] /\ newNode \in [Threads -> Pointers]
      /\ localMyTop \in [Threads -> Pointers] /\ localMyNext \in [Threads -> Pointers]
      /\ Next \in [Nodes -> Pointers] /\ Data \in [Nodes -> Keys \cup {NoKey}]
  BY DEF LocalsKnown, TypeOK
<1>2. /\ pc' \in [Threads -> Labels]
      /\ \A u \in Threads : u # t =>
           /\ pc'[u] = pc[u] /\ key'[u] = key[u] /\ newNode'[u] = newNode[u]
           /\ localMyTop'[u] = localMyTop[u] /\ localMyNext'[u] = localMyNext[u]
  BY OthersStay
<1>3. \A u \in Threads : pc[u] \in {"push_top", "set_next", "push"} \/ At(u, "push") => u \in Carrying
  BY DEF Carrying, At
<1> SUFFICES \A u \in Threads : Known(u)'
  BY <1>2 DEF LocalsKnown
<1>4. CASE Fill(t)
  <2>1. /\ t \in Carrying /\ Data' = [Data EXCEPT ![newNode[t][1]] = key[t]]
        /\ newNode'[t][1] = newNode[t][1] /\ UNCHANGED <<Next, key>> /\ pc'[t] = "push_top"
    BY <1>1, <1>4 DEF Fill, getPurePointer, Carrying, Goto, At
  <2>2. newNode[t][1] \in Nodes /\ \A u \in Carrying : u # t => newNode[u][1] # newNode[t][1]
    BY <2>1, HandFacts
  <2>3. Known(t)'
    BY <1>1, <2>1, <2>2 DEF At
  <2>4. \A u \in Threads : u # t => Known(u)'
    BY <1>1, <1>2, <1>3, <2>1, <2>2 DEF At
  <2> QED BY <2>3, <2>4
<1>5. CASE SetNext(t)
  <2>1. /\ t \in Carrying /\ Next' = [Next EXCEPT ![newNode[t][1]] = localMyTop[t]]
        /\ UNCHANGED <<Data, key, newNode, localMyTop>> /\ pc'[t] = "push" /\ pc[t] = "set_next"
    BY <1>1, <1>5 DEF SetNext, getPurePointer, Carrying, Goto, At, locals
  <2>2. newNode[t][1] \in Nodes /\ \A u \in Carrying : u # t => newNode[u][1] # newNode[t][1]
    BY <2>1, HandFacts
  <2>3. Known(t)'
    BY <1>1, <2>1, <2>2 DEF At
  <2>4. \A u \in Threads : u # t => Known(u)'
    BY <1>1, <1>2, <1>3, <2>1, <2>2 DEF At
  <2> QED BY <2>3, <2>4
<1>6. CASE ~Fill(t) /\ ~SetNext(t)
  <2>1. UNCHANGED <<Next, Data>>
    BY <1>6 DEF ThreadStep, Push, Alloc, NewNode, ReadTopToPush, PushTop, CountUp, ReadTop,
                ReadNext, PopTop, CountDown, ReadData, Free, shared
  <2>2. \A u \in Threads : u # t => Known(u)'
    BY <1>1, <1>2, <2>1 DEF At
  <2>3. Known(t)'
    <3>1. CASE \E k \in held : Push(t, k)
      BY <1>1, <3>1 DEF Push, Goto, At
    <3>2. CASE Alloc(t) \/ NewNode(t)
      BY <1>1, <3>2 DEF Alloc, NewNode, Goto, At
    <3>3. CASE ReadTopToPush(t)
      BY <1>1, <2>1, <3>3 DEF ReadTopToPush, Goto, At
    <3>4. CASE PushTop(t)
      BY <1>1, <2>1, <3>4 DEF PushTop, locals, Goto, At
    <3>5. CASE CountUp(t) \/ CountDown(t) \/ ReadData(t) \/ Free(t)
      BY <1>1, <3>5 DEF CountUp, CountDown, ReadData, Free, Goto, At
    <3>6. CASE ReadTop(t)
      <4>1. mTop # Null => mTop \in NodePointers
        BY LengthZero DEF ListInv, IsList, Null
      <4> QED BY <1>1, <3>6, <4>1 DEF ReadTop, Goto, At
    <3>7. CASE ReadNext(t)
      BY <1>1, <3>7 DEF ReadNext, Goto, At
    <3>8. CASE PopTop(t)
      BY <1>1, <3>8 DEF PopTop, locals, Goto, At
    <3> QED BY <1>6, <3>1, <3>2, <3>3, <3>4, <3>5, <3>6, <3>7, <3>8 DEF ThreadStep
  <2> QED BY <2>2, <2>3
<1> QED BY <1>4, <1>5, <1>6

\* The pool: a node that comes back is not in it.
LEMMA PoolStep ==
  ASSUME StackConstants, TypeOK, LocalsKnown, PoolApart, NEW q, ListInv(q),
         NEW t \in Threads, ThreadStep(t)
  PROVE  PoolApart'
<1>1. pool \in Seq(Nodes) /\ made \in Nat /\ \A n \in Nodes : n \in Nat
  BY ConstantFacts DEF TypeOK, Nodes
<1>2. CASE UNCHANGED <<pool, made>>
  BY <1>2 DEF PoolApart
<1>3. CASE pool # <<>> /\ pool' = Tail(pool) /\ UNCHANGED made
  <2>1. /\ Len(pool') = Len(pool) - 1 /\ Len(pool) \in Nat
        /\ \A i \in 1 .. Len(pool) - 1 : pool'[i] = pool[i + 1]
    BY <1>1, <1>3, TailOf
  <2>2. \A i \in 1 .. Len(pool') : i + 1 \in 1 .. Len(pool) /\ pool'[i] = pool[i + 1]
    BY <2>1
  <2>3. \A i \in 1 .. Len(pool') : pool'[i] <= made'
    BY <1>3, <2>2 DEF PoolApart
  <2>4. ASSUME NEW i \in 1 .. Len(pool'), NEW j \in 1 .. Len(pool'), pool'[i] = pool'[j]
        PROVE  i = j
    <3>1. i + 1 = j + 1
      BY <2>2, <2>4 DEF PoolApart
    <3> QED BY <3>1
  <2> QED BY <2>3, <2>4 DEF PoolApart
<1>4. CASE NewNode(t)
  <2>1. made' = made + 1 /\ UNCHANGED pool
    BY <1>4 DEF NewNode
  <2>2. \A i \in 1 .. Len(pool) : pool[i] \in Nat
    BY <1>1
  <2> QED BY <1>1, <2>1, <2>2 DEF PoolApart
<1>5. CASE Free(t)
  <2> DEFINE n == localMyTop[t][1]
  <2>1. t \in Keeping /\ pool' = <<n>> \o pool /\ UNCHANGED made
    BY <1>5 DEF Free, Keeping, At, getPurePointer
  <2>2. n \in Nodes /\ n \notin SpareNodes
    <3>1. t \in DOMAIN HandNodes /\ HandNodes[t] = n
      BY <2>1, HandFacts
    <3> QED BY <3>1 DEF ListInv, Apart
  <2>3. n <= made /\ \A i \in 1 .. Len(pool) : pool[i] # n
    <3>1. n \in Nat /\ n <= MaxNodes /\ MaxNodes \in Nat
      BY <2>2, ConstantFacts DEF Nodes
    <3> QED BY <1>1, <2>2, <3>1 DEF SpareNodes
  <2> HIDE DEF n
  <2>4. /\ Len(pool') = Len(pool) + 1 /\ Len(pool) \in Nat /\ pool'[1] = n
        /\ \A i \in 1 .. Len(pool) : pool'[i + 1] = pool[i]
    BY <1>1, <2>1, <2>2, Prepended, LengthZero
  <2>5. \A i \in 1 .. Len(pool') : i = 1 \/ (i - 1 \in 1 .. Len(pool) /\ pool'[i] = pool[i - 1])
    <3> TAKE i \in 1 .. Len(pool')
    <3>1. CASE i # 1
      <4>1. i - 1 \in 1 .. Len(pool) /\ i = (i - 1) + 1
        BY <2>4, <3>1
      <4>2. pool'[(i - 1) + 1] = pool[i - 1]
        BY <2>4, <4>1
      <4> QED BY <4>1, <4>2
    <3> QED BY <3>1
  <2>6. \A i \in 1 .. Len(pool') : pool'[i] <= made'
    BY <2>1, <2>3, <2>4, <2>5 DEF PoolApart
  <2>7. ASSUME NEW i \in 1 .. Len(pool'), NEW j \in 1 .. Len(pool'), pool'[i] = pool'[j]
        PROVE  i = j
    <3>1. CASE i = 1 \/ j = 1
      BY <2>3, <2>4, <2>5, <2>7, <3>1
    <3>2. CASE i # 1 /\ j # 1
      <4>1. i - 1 = j - 1
        BY <2>5, <2>7, <3>2 DEF PoolApart
      <4>2. i \in Int /\ j \in Int
        BY <2>4
      <4> QED BY <4>1, <4>2
    <3> QED BY <3>1, <3>2
  <2> QED BY <2>6, <2>7 DEF PoolApart
<1>6. CASE Alloc(t)
  BY <1>2, <1>3, <1>6 DEF Alloc
<1>7. CASE ~Alloc(t) /\ ~NewNode(t) /\ ~Free(t)
  <2>1. UNCHANGED <<pool, made>>
    BY <1>7 DEF ThreadStep, Push, Fill, ReadTopToPush, SetNext, PushTop, CountUp, ReadTop,
                ReadNext, PopTop, CountDown, ReadData, shared
  <2> QED BY <1>2, <2>1
<1> QED BY <1>4, <1>5, <1>6, <1>7

----------------------------------------------------------------------------
(* The list, step by step *)

\* What is in a list.
LEMMA ListFacts ==
  ASSUME StackConstants, TypeOK, NEW q, ListInv(q)
  PROVE  /\ q \in Seq(NodePointers) /\ Len(q) \in Nat
         /\ \A i \in 1 .. Len(q) : q[i] \in NodePointers /\ q[i][1] \in Nodes
         /\ Len(NodesOf(q)) = Len(q) /\ NodesOf(q) \in Seq(Nodes)
         /\ Len(KeysOf(q)) = Len(q) /\ KeysOf(q) \in Seq(Keys)
         /\ \A i \in 1 .. Len(q) : NodesOf(q)[i] = q[i][1] /\ KeysOf(q)[i] = Data[q[i][1]]
<1>1. q \in Seq(NodePointers) /\ Len(q) \in Nat
  BY LengthZero DEF ListInv, IsList
<1>2. \A i \in 1 .. Len(q) : q[i] \in NodePointers /\ q[i][1] \in Nodes
  BY <1>1 DEF NodePointers
<1>3. NodesOf(q) \in [1 .. Len(q) -> Nodes]
  BY <1>2 DEF NodesOf
<1>4. KeysOf(q) \in [1 .. Len(q) -> Keys \cup {NoKey}]
  BY <1>2 DEF KeysOf, TypeOK
<1>5. Len(NodesOf(q)) = Len(q) /\ Len(KeysOf(q)) = Len(q)
  BY <1>1, <1>3, <1>4, FunctionIsSeq
<1>6. NodesOf(q) \in Seq(Nodes) /\ KeysOf(q) \in Seq(Keys)
  BY DEF ListInv, Apart
<1> QED BY <1>1, <1>2, <1>5, <1>6 DEF NodesOf, KeysOf

\* The sets of calls are finite.
LEMMA CountsFinite ==
  ASSUME StackConstants
  PROVE  /\ IsFiniteSet(Carrying) /\ IsFiniteSet(Keeping)
         /\ Cardinality(Carrying) \in Nat /\ Cardinality(Keeping) \in Nat
<1>1. Carrying \in SUBSET Threads /\ Keeping \in SUBSET Threads
  BY DEF Carrying, Keeping
<1>2. IsFiniteSet(Carrying) /\ IsFiniteSet(Keeping)
  BY <1>1, ConstantFacts, FS_Subset
<1> QED BY <1>2, FS_CardinalityType

\* A set of calls that t joins or leaves.
LEMMA CallsMove ==
  ASSUME StackConstants, TypeOK, LocalsKnown, NEW t \in Threads, ThreadStep(t)
  PROVE  /\ (t \in Carrying <=> t \in Carrying') => Carrying' = Carrying
         /\ t \notin Carrying /\ t \in Carrying' => Cardinality(Carrying') = Cardinality(Carrying) + 1
         /\ t \in Carrying /\ t \notin Carrying' => Cardinality(Carrying') = Cardinality(Carrying) - 1
         /\ (t \in Keeping <=> t \in Keeping') => Keeping' = Keeping
         /\ t \notin Keeping /\ t \in Keeping' => Cardinality(Keeping') = Cardinality(Keeping) + 1
         /\ t \in Keeping /\ t \notin Keeping' => Cardinality(Keeping') = Cardinality(Keeping) - 1
<1>1. /\ \A u \in Threads : u # t => (u \in Carrying' <=> u \in Carrying)
                                     /\ (u \in Keeping' <=> u \in Keeping)
      /\ Carrying \subseteq Threads /\ Carrying' \subseteq Threads
      /\ Keeping \subseteq Threads /\ Keeping' \subseteq Threads
  BY SetsMove DEF Carrying, Keeping
<1>2. /\ IsFiniteSet(Carrying) /\ IsFiniteSet(Keeping)
  BY CountsFinite
<1>3. /\ (t \in Carrying <=> t \in Carrying') => Carrying' = Carrying
      /\ t \notin Carrying /\ t \in Carrying' => Carrying' = Carrying \cup {t}
      /\ t \in Carrying /\ t \notin Carrying' => Carrying' = Carrying \ {t}
      /\ (t \in Keeping <=> t \in Keeping') => Keeping' = Keeping
      /\ t \notin Keeping /\ t \in Keeping' => Keeping' = Keeping \cup {t}
      /\ t \in Keeping /\ t \notin Keeping' => Keeping' = Keeping \ {t}
  BY <1>1
<1>4. t \notin Carrying => Cardinality(Carrying \cup {t}) = Cardinality(Carrying) + 1
  BY <1>2, FS_AddElement
<1>5. t \in Carrying => Cardinality(Carrying \ {t}) = Cardinality(Carrying) - 1
  BY <1>2, FS_RemoveElement
<1>6. t \notin Keeping => Cardinality(Keeping \cup {t}) = Cardinality(Keeping) + 1
  BY <1>2, FS_AddElement
<1>7. t \in Keeping => Cardinality(Keeping \ {t}) = Cardinality(Keeping) - 1
  BY <1>2, FS_RemoveElement
<1> QED BY <1>3, <1>4, <1>5, <1>6, <1>7

\* The list stays when neither mTop nor a node of it is written.
LEMMA NextStays ==
  ASSUME TypeOK, LocalsKnown, NEW q, ListInv(q), UNCHANGED mTop, NEW t \in Threads, ThreadStep(t),
         \A i \in 1 .. Len(q) : Next'[q[i][1]] = Next[q[i][1]],
         At(t, "pop")' => localMyNext'[t] = Next[localMyTop'[t][1]]
  PROVE  IsList(mTop', Next', q, NodePointers) /\ NextStillTrue(q)'
<1>1. IsList(mTop', Next', q, NodePointers)
  BY DEF ListInv, IsList
<1>2. \A u \in Threads : u # t /\ At(u, "pop")' =>
        At(u, "pop") /\ localMyTop'[u] = localMyTop[u] /\ localMyNext'[u] = localMyNext[u]
  BY OthersStay, SetsMove
<1>3. NextStillTrue(q)'
  BY <1>2 DEF ListInv, NextStillTrue
<1> QED BY <1>1, <1>3

\* A key is taken to be pushed.
LEMMA PushKeeps ==
  ASSUME StackConstants, TypeOK, LocalsKnown, NEW q, ListInv(q),
         NEW t \in Threads, NEW k \in held, Push(t, k)
  PROVE  ListInv(q)' /\ Off(held, HandKeys)' = Off(held, HandKeys)
<1>1. ThreadStep(t)
  BY DEF ThreadStep
<1>2. /\ UNCHANGED <<mTop, mCount, Next, Data, pool, made, localMyTop, localMyNext, newNode>>
      /\ held' = held \ {k} /\ key'[t] = k /\ pc[t] = "idle" /\ pc'[t] = "alloc"
  BY DEF Push, Goto, At, TypeOK, LocalsKnown
<1>3. /\ t \notin Carrying /\ t \notin Carrying' /\ t \notin Keeping /\ t \notin Keeping'
      /\ t \notin Pushing /\ t \in Pushing' /\ t \notin Popped /\ t \notin Popped' /\ ~At(t, "pop")'
  BY <1>2 DEF Carrying, Keeping, Pushing, Popped, At
<1>4. IsList(mTop', Next', q, NodePointers) /\ NextStillTrue(q)'
  BY <1>1, <1>2, <1>3, NextStays
<1>5. Counted(q)'
  BY <1>1, <1>2, <1>3, CallsMove DEF ListInv, Counted
<1>6. HandNodes' = HandNodes /\ SpareNodes' = SpareNodes
  BY <1>1, <1>2, <1>3, NodesMove DEF SpareNodes
<1>7. HandKeys' = With(HandKeys, t, k)
  <2>1. KeyOf(t)' = k
    BY <1>2, <1>3 DEF KeyOf
  <2> QED BY <1>1, <1>2, <1>3, <2>1, KeysMove
<1>8. KeysOf(q)' = KeysOf(q) /\ NodesOf(q)' = NodesOf(q)
  BY <1>2 DEF KeysOf, NodesOf
<1>9. t \notin DOMAIN HandKeys
  BY <1>3 DEF HandKeys
<1>10. /\ Apart(Keys, held', HandKeys', KeysOf(q)')
       /\ Off(held', HandKeys') = Off(held, HandKeys)
  BY <1>2, <1>7, <1>8, <1>9, ApartTake DEF ListInv
<1>11. Apart(Nodes, SpareNodes', HandNodes', NodesOf(q)')
  BY <1>6, <1>8 DEF ListInv
<1> QED BY <1>4, <1>5, <1>10, <1>11 DEF ListInv

\* A node is taken from the pool.
LEMMA AllocKeeps ==
  ASSUME StackConstants, TypeOK, LocalsKnown, PoolApart, NEW q, ListInv(q),
         NEW t \in Threads, Alloc(t)
  PROVE  ListInv(q)' /\ Off(held, HandKeys)' = Off(held, HandKeys)
<1>1. ThreadStep(t)
  BY DEF ThreadStep
<1>2. /\ UNCHANGED <<mTop, mCount, Next, Data, made, held, key, localMyTop, localMyNext>>
      /\ pc[t] = "alloc"
      /\ \/ pool # <<>> /\ newNode'[t][1] = Head(pool) /\ pool' = Tail(pool) /\ pc'[t] = "fill"
         \/ UNCHANGED pool /\ pc'[t] = "new"
  BY DEF Alloc, Goto, At, TypeOK, LocalsKnown
<1>3. /\ t \notin Carrying /\ t \notin Keeping /\ t \notin Keeping' /\ t \in Pushing /\ t \in Pushing'
      /\ ~At(t, "pop")'
  BY <1>2 DEF Carrying, Keeping, Pushing, At
<1>4. IsList(mTop', Next', q, NodePointers) /\ NextStillTrue(q)'
  BY <1>1, <1>2, <1>3, NextStays
<1>5. KeysOf(q)' = KeysOf(q) /\ NodesOf(q)' = NodesOf(q)
  BY <1>2 DEF KeysOf, NodesOf
<1>6. HandKeys' = HandKeys
  <2>1. KeyOf(t)' = KeyOf(t)
    BY <1>2, <1>3 DEF KeyOf
  <2> QED BY <1>1, <1>2, <1>3, <2>1, KeysMove
<1>7. Keeping' = Keeping
  BY <1>1, <1>3, CallsMove
<1>8. Apart(Nodes, SpareNodes', HandNodes', NodesOf(q)') /\ Counted(q)'
  <2>1. CASE pool # <<>> /\ newNode'[t][1] = Head(pool) /\ pool' = Tail(pool) /\ pc'[t] = "fill"
    <3>1. t \in Carrying'
      BY <2>1 DEF Carrying
    <3>2. NodeOf(t)' = Head(pool)
      BY <2>1, <3>1 DEF NodeOf
    <3>3. HandNodes' = With(HandNodes, t, Head(pool))
      BY <1>1, <1>3, <3>1, <3>2, NodesMove
    <3>4. /\ Len(pool) \in Nat \ {0} /\ Len(Tail(pool)) = Len(pool) - 1 /\ Head(pool) = pool[1]
          /\ \A i \in 1 .. Len(pool) - 1 : Tail(pool)[i] = pool[i + 1]
          /\ pool[1] \in Nodes
      BY <2>1, TailOf DEF TypeOK
    <3>5. SpareNodes' = SpareNodes \ {Head(pool)} /\ Head(pool) \in SpareNodes
      <4> DEFINE In(s) == { s[i] : i \in 1 .. Len(s) }
      <4>1. pool[1] \in In(pool)
        BY <3>4
      <4>2. In(Tail(pool)) = In(pool) \ {pool[1]}
        <5>1. \A i \in 1 .. Len(Tail(pool)) : i + 1 \in 1 .. Len(pool) /\ Tail(pool)[i] = pool[i + 1]
                                              /\ i + 1 # 1
          BY <3>4
        <5>2. \A i \in 1 .. Len(Tail(pool)) : pool[i + 1] # pool[1]
          BY <3>4, <5>1 DEF PoolApart
        <5>3. In(Tail(pool)) \subseteq In(pool) \ {pool[1]}
          BY <5>1, <5>2
        <5>4. ASSUME NEW i \in 1 .. Len(pool), pool[i] # pool[1]
              PROVE  pool[i] \in In(Tail(pool))
          <6>1. i - 1 \in 1 .. Len(Tail(pool)) /\ (i - 1) + 1 = i
            BY <3>4, <5>4
          <6>2. Tail(pool)[i - 1] = pool[i]
            BY <5>1, <6>1
          <6> QED BY <6>1, <6>2
        <5> QED BY <5>3, <5>4
      <4>3. pool[1] \notin made + 1 .. MaxNodes
        <5>1. pool[1] <= made
          BY <3>4 DEF PoolApart
        <5> QED BY <3>4, <5>1, ConstantFacts DEF TypeOK, Nodes
      <4>4. SpareNodes = (made + 1 .. MaxNodes) \cup In(pool)
        BY DEF SpareNodes
      <4>5. SpareNodes' = (made + 1 .. MaxNodes) \cup In(Tail(pool))
        BY <1>2, <2>1 DEF SpareNodes
      <4> HIDE DEF In
      <4> QED BY <3>4, <4>1, <4>2, <4>3, <4>4, <4>5
    <3>6. t \notin DOMAIN HandNodes
      BY <1>3 DEF HandNodes
    <3>7. Apart(Nodes, SpareNodes', HandNodes', NodesOf(q)')
      BY <1>5, <3>3, <3>5, <3>6, ApartTake DEF ListInv
    <3>8. Cardinality(Carrying') = Cardinality(Carrying) + 1
      BY <1>1, <1>3, <3>1, CallsMove
    <3>9. Counted(q)'
      <4>1. made = Len(q) + Len(pool) + Cardinality(Carrying) + Cardinality(Keeping)
        BY DEF ListInv, Counted
      <4>2. Len(q) \in Nat /\ Cardinality(Carrying) \in Nat /\ Cardinality(Keeping) \in Nat
        BY ListFacts, CountsFinite
      <4>3. Len(pool') = Len(pool) - 1 /\ made' = made /\ Cardinality(Keeping') = Cardinality(Keeping)
        BY <1>2, <1>7, <2>1, <3>4
      <4>4. made' = Len(q) + Len(pool') + Cardinality(Carrying') + Cardinality(Keeping')
        BY <3>4, <3>8, <4>1, <4>2, <4>3
      <4> QED BY <4>4 DEF Counted
    <3> QED BY <3>7, <3>9
  <2>2. CASE UNCHANGED pool /\ pc'[t] = "new"
    <3>1. t \notin Carrying'
      BY <2>2 DEF Carrying
    <3>2. HandNodes' = HandNodes /\ SpareNodes' = SpareNodes
      BY <1>1, <1>2, <1>3, <2>2, <3>1, NodesMove DEF SpareNodes
    <3>3. Counted(q)'
      BY <1>1, <1>2, <1>3, <1>7, <2>2, <3>1, CallsMove DEF ListInv, Counted
    <3> QED BY <1>5, <3>2, <3>3 DEF ListInv
  <2> QED BY <1>2, <2>1, <2>2
<1>9. Apart(Keys, held', HandKeys', KeysOf(q)')
  BY <1>2, <1>5, <1>6 DEF ListInv
<1> QED BY <1>2, <1>4, <1>6, <1>8, <1>9 DEF ListInv

\* A node is made.
LEMMA NewNodeKeeps ==
  ASSUME StackConstants, TypeOK, LocalsKnown, PoolApart, NEW q, ListInv(q),
         NEW t \in Threads, NewNode(t)
  PROVE  ListInv(q)' /\ Off(held, HandKeys)' = Off(held, HandKeys)
<1>1. ThreadStep(t)
  BY DEF ThreadStep
<1>2. /\ UNCHANGED <<mTop, mCount, Next, Data, pool, held, key, localMyTop, localMyNext>>
      /\ pc[t] = "new" /\ pc'[t] = "fill" /\ made' = made + 1 /\ newNode'[t][1] = made + 1
      /\ made \in Nat /\ made < MaxNodes /\ MaxNodes \in Nat
  BY ConstantFacts DEF NewNode, Goto, At, TypeOK, LocalsKnown
<1>3. /\ t \notin Carrying /\ t \in Carrying' /\ t \notin Keeping /\ t \notin Keeping'
      /\ t \in Pushing /\ t \in Pushing' /\ ~At(t, "pop")'
  BY <1>2 DEF Carrying, Keeping, Pushing, At
<1>4. IsList(mTop', Next', q, NodePointers) /\ NextStillTrue(q)'
  BY <1>1, <1>2, <1>3, NextStays
<1>5. KeysOf(q)' = KeysOf(q) /\ NodesOf(q)' = NodesOf(q)
  BY <1>2 DEF KeysOf, NodesOf
<1>6. HandKeys' = HandKeys
  <2>1. KeyOf(t)' = KeyOf(t)
    BY <1>2, <1>3 DEF KeyOf
  <2> QED BY <1>1, <1>2, <1>3, <2>1, KeysMove
<1>7. HandNodes' = With(HandNodes, t, made + 1)
  <2>1. NodeOf(t)' = made + 1
    BY <1>2, <1>3 DEF NodeOf
  <2> QED BY <1>1, <1>3, <2>1, NodesMove
<1>8. SpareNodes' = SpareNodes \ {made + 1} /\ made + 1 \in SpareNodes
  <2> DEFINE In == { pool[i] : i \in 1 .. Len(pool) }
  <2>1. \A i \in 1 .. Len(pool) : pool[i] # made + 1
    <3>1. pool \in Seq(Nodes) /\ \A n \in Nodes : n \in Nat
      BY DEF TypeOK, Nodes
    <3>2. \A i \in 1 .. Len(pool) : pool[i] \in Nat
      BY <3>1
    <3>3. \A i \in 1 .. Len(pool) : pool[i] <= made
      BY DEF PoolApart
    <3> QED BY <1>2, <3>2, <3>3
  <2>2. made + 1 \notin In
    BY <2>1
  <2>3. (made + 1) + 1 .. MaxNodes = (made + 1 .. MaxNodes) \ {made + 1}
    BY <1>2
  <2>4. SpareNodes = (made + 1 .. MaxNodes) \cup In /\ SpareNodes' = ((made + 1) + 1 .. MaxNodes) \cup In
    BY <1>2 DEF SpareNodes
  <2>5. made + 1 \in made + 1 .. MaxNodes
    BY <1>2
  <2> HIDE DEF In
  <2> QED BY <2>2, <2>3, <2>4, <2>5
<1>9. Apart(Nodes, SpareNodes', HandNodes', NodesOf(q)')
  <2>1. t \notin DOMAIN HandNodes
    BY <1>3 DEF HandNodes
  <2> QED BY <1>5, <1>7, <1>8, <2>1, ApartTake DEF ListInv
<1>10. Counted(q)'
  <2>1. Cardinality(Carrying') = Cardinality(Carrying) + 1 /\ Keeping' = Keeping
    BY <1>1, <1>3, CallsMove
  <2>2. made = Len(q) + Len(pool) + Cardinality(Carrying) + Cardinality(Keeping)
    BY DEF ListInv, Counted
  <2>3. Len(q) \in Nat /\ Cardinality(Carrying) \in Nat /\ Cardinality(Keeping) \in Nat /\ Len(pool) \in Nat
    BY ListFacts, CountsFinite, LengthZero DEF TypeOK
  <2>4. made' = Len(q) + Len(pool') + Cardinality(Carrying') + Cardinality(Keeping')
    BY <1>2, <2>1, <2>2, <2>3
  <2> QED BY <2>4 DEF Counted
<1>11. Apart(Keys, held', HandKeys', KeysOf(q)')
  BY <1>2, <1>5, <1>6 DEF ListInv
<1> QED BY <1>2, <1>4, <1>6, <1>9, <1>10, <1>11 DEF ListInv

\* The key is written into the node that carries it.
LEMMA FillKeeps ==
  ASSUME StackConstants, TypeOK, LocalsKnown, NEW q, ListInv(q), NEW t \in Threads, Fill(t)
  PROVE  ListInv(q)' /\ Off(held, HandKeys)' = Off(held, HandKeys)
<1>1. ThreadStep(t)
  BY DEF ThreadStep
<1>2. /\ UNCHANGED <<mTop, mCount, Next, pool, made, held, key, localMyTop, localMyNext>>
      /\ pc[t] = "fill" /\ pc'[t] = "push_top" /\ newNode'[t][1] = newNode[t][1]
      /\ Data' = [Data EXCEPT ![newNode[t][1]] = key[t]]
  BY DEF Fill, getPurePointer, Goto, At, TypeOK, LocalsKnown
<1>3. /\ t \in Carrying /\ t \in Carrying' /\ t \notin Keeping /\ t \notin Keeping'
      /\ t \in Pushing /\ t \in Pushing' /\ ~At(t, "pop")'
  BY <1>2 DEF Carrying, Keeping, Pushing, At
<1>4. IsList(mTop', Next', q, NodePointers) /\ NextStillTrue(q)'
  BY <1>1, <1>2, <1>3, NextStays
<1>5. /\ \A i \in 1 .. Len(q) : q[i][1] # newNode[t][1]
      /\ \A u \in Popped : localMyTop[u][1] # newNode[t][1]
  <2>1. Popped \subseteq Keeping
    BY DEF Popped, Keeping
  <2> QED BY <1>3, <2>1, HandFacts
<1>6. KeysOf(q)' = KeysOf(q) /\ NodesOf(q)' = NodesOf(q)
  BY <1>2, <1>5 DEF KeysOf, NodesOf
<1>7. HandKeys' = HandKeys
  <2>1. KeyOf(t)' = KeyOf(t)
    BY <1>2, <1>3 DEF KeyOf
  <2> QED BY <1>1, <1>2, <1>3, <1>5, <2>1, KeysMove
<1>8. HandNodes' = HandNodes /\ SpareNodes' = SpareNodes
  <2>1. NodeOf(t)' = NodeOf(t)
    BY <1>2, <1>3 DEF NodeOf
  <2> QED BY <1>1, <1>2, <1>3, <2>1, NodesMove DEF SpareNodes
<1>9. Counted(q)'
  BY <1>1, <1>2, <1>3, CallsMove DEF ListInv, Counted
<1>10. Apart(Keys, held', HandKeys', KeysOf(q)') /\ Apart(Nodes, SpareNodes', HandNodes', NodesOf(q)')
  BY <1>2, <1>6, <1>7, <1>8 DEF ListInv
<1> QED BY <1>2, <1>4, <1>7, <1>9, <1>10 DEF ListInv

\* The other steps move nothing.
LEMMA QuietKeeps ==
  ASSUME StackConstants, TypeOK, LocalsKnown, NEW q, ListInv(q), NEW t \in Threads,
         \/ ReadTopToPush(t) \/ SetNext(t) \/ CountUp(t) \/ ReadTop(t) \/ ReadNext(t) \/ CountDown(t)
         \/ (PushTop(t) \/ PopTop(t)) /\ ~SameTop(t)
  PROVE  ListInv(q)' /\ Off(held, HandKeys)' = Off(held, HandKeys)
<1>1. ThreadStep(t)
  BY DEF ThreadStep
<1>2. /\ pc \in [Threads -> Labels] /\ key \in [Threads -> Keys \cup {NoKey}]
      /\ newNode \in [Threads -> Pointers]
      /\ localMyTop \in [Threads -> Pointers] /\ localMyNext \in [Threads -> Pointers]
  BY DEF TypeOK, LocalsKnown
<1>3. UNCHANGED <<mTop, Data, pool, made, held>>
  BY DEF ReadTopToPush, SetNext, CountUp, ReadTop, ReadNext, CountDown, PushTop, PopTop, shared
<1>4. IsList(mTop', Next', q, NodePointers) /\ NextStillTrue(q)'
  <2>1. CASE SetNext(t)
    <3>1. t \in Carrying /\ Next' = [Next EXCEPT ![newNode[t][1]] = localMyTop[t]] /\ ~At(t, "pop")'
      BY <1>2, <2>1 DEF SetNext, getPurePointer, Carrying, Goto, At
    <3>2. \A i \in 1 .. Len(q) : Next'[q[i][1]] = Next[q[i][1]]
      BY <3>1, HandFacts
    <3> QED BY <1>1, <1>3, <3>1, <3>2, NextStays
  <2>2. CASE ReadNext(t)
    <3>1. Next' = Next /\ localMyNext'[t] = Next[localMyTop'[t][1]]
      BY <1>2, <2>2 DEF ReadNext, shared, getPurePointer
    <3> QED BY <1>1, <1>3, <3>1, NextStays
  <2>3. CASE ~SetNext(t) /\ ~ReadNext(t)
    <3>1. Next' = Next
      BY <2>3 DEF ReadTopToPush, CountUp, ReadTop, CountDown, PushTop, PopTop, shared
    <3>2. ~At(t, "pop")'
      BY <1>2, <2>3 DEF ReadTopToPush, CountUp, ReadTop, CountDown, PushTop, PopTop, Goto, At
    <3> QED BY <1>1, <1>3, <3>1, <3>2, NextStays
  <2> QED BY <2>1, <2>2, <2>3
<1>5. /\ (t \in Carrying <=> t \in Carrying') /\ (t \in Keeping <=> t \in Keeping')
      /\ (t \in Pushing <=> t \in Pushing') /\ (t \in Popped <=> t \in Popped')
      /\ (t \in Carrying => newNode'[t] = newNode[t])
      /\ (t \in Pushing => key'[t] = key[t])
      /\ (t \in Keeping => localMyTop'[t] = localMyTop[t])
  <2>1. CASE ReadTopToPush(t)
    BY <1>2, <2>1 DEF ReadTopToPush, Carrying, Keeping, Pushing, Popped, Goto, At
  <2>2. CASE SetNext(t) \/ (PushTop(t) /\ ~SameTop(t))
    BY <1>2, <2>2 DEF SetNext, PushTop, locals, Carrying, Keeping, Pushing, Popped, Goto, At
  <2>3. CASE CountUp(t)
    BY <1>2, <2>3 DEF CountUp, Carrying, Keeping, Pushing, Popped, Goto, At
  <2>4. CASE ReadTop(t)
    BY <1>2, <2>4 DEF ReadTop, Carrying, Keeping, Pushing, Popped, Goto, At
  <2>5. CASE ReadNext(t)
    BY <1>2, <2>5 DEF ReadNext, Carrying, Keeping, Pushing, Popped, Goto, At
  <2>6. CASE CountDown(t) \/ (PopTop(t) /\ ~SameTop(t))
    BY <1>2, <2>6 DEF CountDown, PopTop, locals, Carrying, Keeping, Pushing, Popped, Goto, At
  <2> QED BY <2>1, <2>2, <2>3, <2>4, <2>5, <2>6
<1>6. HandNodes' = HandNodes
  <2>1. t \in Carrying \cup Keeping => NodeOf(t)' = NodeOf(t)
    BY <1>5 DEF NodeOf
  <2> QED BY <1>1, <1>5, <2>1, NodesMove
<1>7. HandKeys' = HandKeys
  <2>1. Popped \subseteq Keeping
    BY DEF Popped, Keeping
  <2>2. t \in Pushing \cup Popped => KeyOf(t)' = KeyOf(t)
    BY <1>3, <1>5, <2>1 DEF KeyOf
  <2> QED BY <1>1, <1>3, <1>5, <2>2, KeysMove
<1>8. SpareNodes' = SpareNodes /\ KeysOf(q)' = KeysOf(q) /\ NodesOf(q)' = NodesOf(q)
  BY <1>3 DEF SpareNodes, KeysOf, NodesOf
<1>9. Counted(q)'
  BY <1>1, <1>3, <1>5, CallsMove DEF ListInv, Counted
<1>10. Apart(Keys, held', HandKeys', KeysOf(q)') /\ Apart(Nodes, SpareNodes', HandNodes', NodesOf(q)')
  BY <1>3, <1>6, <1>7, <1>8 DEF ListInv
<1> QED BY <1>3, <1>4, <1>7, <1>9, <1>10 DEF ListInv

\* The nodes and the keys of a list that grew or shrank at the top.
LEMMA TailParts ==
  ASSUME StackConstants, TypeOK, NEW q, ListInv(q), q # <<>>
  PROVE  /\ NodesOf(q) # <<>> /\ NodesOf(q)[1] = q[1][1] /\ NodesOf(Tail(q)) = Tail(NodesOf(q))
         /\ KeysOf(q) # <<>> /\ KeysOf(q)[1] = Data[q[1][1]] /\ KeysOf(Tail(q)) = Tail(KeysOf(q))
         /\ Len(Tail(q)) = Len(q) - 1
<1>1. /\ q \in Seq(NodePointers) /\ Len(NodesOf(q)) = Len(q) /\ NodesOf(q) \in Seq(Nodes)
      /\ Len(KeysOf(q)) = Len(q) /\ KeysOf(q) \in Seq(Keys)
      /\ \A i \in 1 .. Len(q) : NodesOf(q)[i] = q[i][1] /\ KeysOf(q)[i] = Data[q[i][1]]
  BY ListFacts
<1>2. /\ Len(q) \in Nat \ {0} /\ Len(Tail(q)) = Len(q) - 1
      /\ \A i \in 1 .. Len(q) - 1 : Tail(q)[i] = q[i + 1] /\ i + 1 \in 1 .. Len(q)
  BY <1>1, TailOf
<1>3. NodesOf(q) # <<>> /\ KeysOf(q) # <<>> /\ 1 \in 1 .. Len(q)
  BY <1>1, <1>2, LengthZero
<1> DEFINE n == NodesOf(q)
           k == KeysOf(q)
<1> HIDE DEF n, k
<1>4. /\ n \in Seq(Nodes) /\ n # <<>> /\ Len(n) = Len(q) /\ k \in Seq(Keys) /\ k # <<>> /\ Len(k) = Len(q)
      /\ \A i \in 1 .. Len(q) : n[i] = q[i][1] /\ k[i] = Data[q[i][1]]
  BY <1>1, <1>3 DEF n, k
<1>5. /\ Tail(n) \in Seq(Nodes) /\ Len(Tail(n)) = Len(q) - 1
      /\ \A i \in 1 .. Len(q) - 1 : Tail(n)[i] = n[i + 1]
  BY <1>4, TailOf
<1>6. /\ Tail(k) \in Seq(Keys) /\ Len(Tail(k)) = Len(q) - 1
      /\ \A i \in 1 .. Len(q) - 1 : Tail(k)[i] = k[i + 1]
  BY <1>4, TailOf
<1>7. Tail(n) = [i \in 1 .. Len(q) - 1 |-> Tail(n)[i]] /\ Tail(k) = [i \in 1 .. Len(q) - 1 |-> Tail(k)[i]]
  BY <1>5, <1>6, SeqIsFunction
<1>8. \A i \in 1 .. Len(q) - 1 : Tail(n)[i] = Tail(q)[i][1] /\ Tail(k)[i] = Data[Tail(q)[i][1]]
  BY <1>2, <1>4, <1>5, <1>6
<1>9. NodesOf(Tail(q)) = Tail(n) /\ KeysOf(Tail(q)) = Tail(k)
  BY <1>2, <1>7, <1>8 DEF NodesOf, KeysOf
<1> QED BY <1>2, <1>3, <1>4, <1>9 DEF n, k

LEMMA PushedParts ==
  ASSUME StackConstants, TypeOK, NEW q, ListInv(q), NEW p \in NodePointers, Data[p[1]] \in Keys
  PROVE  /\ NodesOf(<<p>> \o q) = <<p[1]>> \o NodesOf(q)
         /\ KeysOf(<<p>> \o q) = <<Data[p[1]]>> \o KeysOf(q)
         /\ Len(<<p>> \o q) = Len(q) + 1
<1> DEFINE r == <<p>> \o q
           d == Data[p[1]]
           n == NodesOf(q)
           k == KeysOf(q)
<1>1. /\ q \in Seq(NodePointers) /\ Len(n) = Len(q) /\ n \in Seq(Nodes) /\ Len(q) \in Nat
      /\ Len(k) = Len(q) /\ k \in Seq(Keys)
      /\ \A i \in 1 .. Len(q) : n[i] = q[i][1] /\ k[i] = Data[q[i][1]]
  BY ListFacts
<1>2. /\ Len(r) = Len(q) + 1 /\ r[1] = p /\ \A i \in 1 .. Len(q) : r[i + 1] = q[i]
  BY <1>1, Prepended
<1>3. p[1] \in Nodes /\ d \in Keys
  BY PointerFacts
<1> HIDE DEF r, n, k, d
<1>4. /\ <<p[1]>> \o n \in Seq(Nodes) /\ Len(<<p[1]>> \o n) = Len(q) + 1 /\ (<<p[1]>> \o n)[1] = p[1]
      /\ \A i \in 1 .. Len(q) : (<<p[1]>> \o n)[i + 1] = n[i]
  BY <1>1, <1>3, Prepended
<1>5. /\ <<d>> \o k \in Seq(Keys) /\ Len(<<d>> \o k) = Len(q) + 1 /\ (<<d>> \o k)[1] = d
      /\ \A i \in 1 .. Len(q) : (<<d>> \o k)[i + 1] = k[i]
  BY <1>1, <1>3, Prepended
<1>6. \A i \in 1 .. Len(r) : i = 1 \/ \E j \in 1 .. Len(q) : i = j + 1
  <2> TAKE i \in 1 .. Len(r)
  <2>1. CASE i # 1
    <3>1. i - 1 \in 1 .. Len(q) /\ i = (i - 1) + 1
      BY <1>1, <1>2, <2>1
    <3> QED BY <3>1
  <2> QED BY <2>1
<1>7. \A i \in 1 .. Len(r) : r[i][1] = (<<p[1]>> \o n)[i] /\ Data[r[i][1]] = (<<d>> \o k)[i]
  <2> TAKE i \in 1 .. Len(r)
  <2>1. CASE i = 1
    BY <1>2, <1>4, <1>5, <2>1 DEF d
  <2>2. CASE i # 1
    <3>1. PICK j \in 1 .. Len(q) : i = j + 1
      BY <1>6, <2>2
    <3> QED BY <1>1, <1>2, <1>4, <1>5, <3>1
  <2> QED BY <2>1, <2>2
<1>8. /\ <<p[1]>> \o n = [i \in 1 .. Len(r) |-> (<<p[1]>> \o n)[i]]
      /\ <<d>> \o k = [i \in 1 .. Len(r) |-> (<<d>> \o k)[i]]
  BY <1>2, <1>4, <1>5, SeqIsFunction
<1>9. NodesOf(r) = <<p[1]>> \o n /\ KeysOf(r) = <<d>> \o k
  BY <1>7, <1>8 DEF NodesOf, KeysOf
<1> QED BY <1>2, <1>9 DEF r, n, k, d

\* Push puts its node in front of the list.
LEMMA PushPuts ==
  ASSUME StackConstants, TypeOK, LocalsKnown, NEW q, ListInv(q), TagsTellApart,
         NEW t \in Threads, PushTop(t), SameTop(t), NEW p, p = newNode[t]
  PROVE  /\ ListInv(<<p>> \o q)' /\ KeysOf(<<p>> \o q)' = <<key[t]>> \o KeysOf(q)
         /\ key[t] \in Keys /\ key[t] \in Off(held, HandKeys)
         /\ Off(held, HandKeys)' = Off(held, HandKeys) \ {key[t]}
<1> DEFINE r == <<p>> \o q
<1>1. ThreadStep(t)
  BY DEF ThreadStep
<1>2. /\ UNCHANGED <<mID, mCount, Next, Data, pool, made, held, key, newNode, localMyTop, localMyNext>>
      /\ mTop' = p /\ pc[t] = "push" /\ pc'[t] = "count_up"
  BY DEF PushTop, locals, Goto, At, LocalsKnown
<1>3. /\ t \in Carrying /\ t \notin Carrying' /\ t \notin Keeping /\ t \notin Keeping'
      /\ t \in Pushing /\ t \notin Pushing' /\ t \notin Popped /\ t \notin Popped'
  BY <1>2 DEF Carrying, Keeping, Pushing, Popped
<1>4. p \in NodePointers /\ Data[p[1]] = key[t] /\ Next[p[1]] = mTop
  <2>1. p \in Pointers /\ p[1] \in Nodes
    BY <1>3, HandFacts DEF TypeOK
  <2> QED BY <1>2, <2>1, PointerFacts DEF LocalsKnown, At, SameTop
<1>5. /\ t \in DOMAIN HandNodes /\ HandNodes[t] = p[1] /\ t \in DOMAIN HandKeys /\ HandKeys[t] = key[t]
  BY <1>3, HandFacts DEF HandKeys, KeyOf
<1>6. HandNodes' = Without(HandNodes, t) /\ HandKeys' = Without(HandKeys, t) /\ SpareNodes' = SpareNodes
  BY <1>1, <1>2, <1>3, NodesMove, KeysMove DEF SpareNodes
<1>7. /\ Apart(Nodes, SpareNodes, Without(HandNodes, t), <<p[1]>> \o NodesOf(q))
  BY <1>5, ApartPush DEF ListInv
<1>8. /\ Apart(Keys, held, Without(HandKeys, t), <<key[t]>> \o KeysOf(q))
      /\ key[t] \in Off(held, HandKeys) /\ key[t] \in Keys
      /\ Off(held, Without(HandKeys, t)) = Off(held, HandKeys) \ {key[t]}
  BY <1>5, ApartPush DEF ListInv
<1>9. /\ NodesOf(r) = <<p[1]>> \o NodesOf(q) /\ KeysOf(r) = <<key[t]>> \o KeysOf(q)
      /\ Len(r) = Len(q) + 1
  BY <1>4, <1>8, PushedParts
<1>10. NodesOf(r)' = NodesOf(r) /\ KeysOf(r)' = KeysOf(r)
  BY <1>2 DEF NodesOf, KeysOf
<1>11. IsList(mTop', Next', r, NodePointers)
  <2>1. \A i \in 1 .. Len(q) : q[i][1] # p[1]
    BY <1>3, HandFacts
  <2> QED BY <1>2, <1>4, <2>1, ListPush DEF ListInv
<1>12. NextStillTrue(r)'
  <2>1. \A u \in Threads : At(u, "pop")' =>
          At(u, "pop") /\ localMyTop'[u] = localMyTop[u] /\ localMyNext'[u] = localMyNext[u]
    BY <1>1, <1>2, SetsMove DEF At
  <2>2. q \in Seq(NodePointers) /\ Len(q) \in Nat
    BY ListFacts
  <2>3. r[1] = p /\ \A i \in 1 .. Len(q) : r[i + 1] = q[i]
    BY <1>4, <2>2, Prepended
  <2> HIDE DEF r
  <2>4. ASSUME NEW i \in 1 .. Len(r), NEW u \in Threads, At(u, "pop"), localMyTop[u] = r[i]
        PROVE  localMyNext[u] = Next[r[i][1]]
    <3>1. i # 1
      BY <1>2, <2>3, <2>4 DEF TagsTellApart, At
    <3>2. i - 1 \in 1 .. Len(q) /\ i = (i - 1) + 1
      BY <1>9, <2>2, <3>1
    <3>3. r[i] = q[i - 1]
      BY <2>3, <3>2
    <3> QED BY <2>4, <3>2, <3>3 DEF ListInv, NextStillTrue
  <2> QED BY <1>2, <2>1, <2>4 DEF NextStillTrue
<1>13. Counted(r)'
  <2>1. Cardinality(Carrying') = Cardinality(Carrying) - 1 /\ Keeping' = Keeping
    BY <1>1, <1>3, CallsMove
  <2>2. made = Len(q) + Len(pool) + Cardinality(Carrying) + Cardinality(Keeping)
    BY DEF ListInv, Counted
  <2>3. Len(q) \in Nat /\ Cardinality(Carrying) \in Nat /\ Cardinality(Keeping) \in Nat /\ Len(pool) \in Nat
    BY ListFacts, CountsFinite, LengthZero DEF TypeOK
  <2>4. made' = Len(r) + Len(pool') + Cardinality(Carrying') + Cardinality(Keeping')
    BY <1>2, <1>9, <2>1, <2>2, <2>3
  <2> QED BY <2>4 DEF Counted
<1> HIDE DEF r
<1>14. ListInv(r)'
  BY <1>2, <1>6, <1>7, <1>8, <1>9, <1>10, <1>11, <1>12, <1>13 DEF ListInv
<1> QED BY <1>2, <1>6, <1>8, <1>9, <1>10, <1>14 DEF r

\* A compare-and-swap of TryPop that succeeds finds the pointer it has read on top of the
\* list, and has read its Next.
LEMMA PopFinds ==
  ASSUME StackConstants, TypeOK, LocalsKnown, NEW q, ListInv(q),
         NEW t \in Threads, At(t, "pop"), SameTop(t)
  PROVE  /\ q # <<>> /\ mTop = q[1] /\ localMyTop[t] = q[1] /\ localMyNext[t] = Next[q[1][1]]
<1>1. mTop \in NodePointers /\ mTop = localMyTop[t] /\ mTop # Null
  BY PointerFacts DEF LocalsKnown, At, SameTop
<1>2. q \in Seq(NodePointers) /\ mTop = IF q = <<>> THEN <<0, 0>> ELSE q[1]
  BY DEF ListInv, IsList
<1>3. q # <<>> /\ mTop = q[1]
  BY <1>1, <1>2 DEF Null
<1>4. 1 \in 1 .. Len(q)
  BY <1>2, <1>3, LengthZero
<1>5. localMyNext[t] = Next[q[1][1]]
  BY <1>1, <1>3, <1>4 DEF ListInv, NextStillTrue
<1> QED BY <1>1, <1>3, <1>5

\* TryPop takes the first node of the list away.
LEMMA PopTakes ==
  ASSUME StackConstants, TypeOK, LocalsKnown, NEW q, ListInv(q),
         NEW t \in Threads, PopTop(t), SameTop(t)
  PROVE  /\ q # <<>> /\ ListInv(Tail(q))' /\ KeysOf(Tail(q))' = Tail(KeysOf(q)) /\ KeysOf(q) # <<>>
         /\ Off(held, HandKeys)' = Off(held, HandKeys) \cup {Head(KeysOf(q))}
<1> DEFINE r == Tail(q)
<1>1. ThreadStep(t)
  BY DEF ThreadStep
<1>2. /\ UNCHANGED <<mID, mCount, Next, Data, pool, made, held, key, newNode, localMyTop, localMyNext>>
      /\ mTop' = localMyNext[t] /\ pc[t] = "pop" /\ pc'[t] = "count_down"
  BY DEF PopTop, locals, Goto, At, LocalsKnown
<1>3. /\ t \notin Carrying /\ t \notin Carrying' /\ t \notin Keeping /\ t \in Keeping'
      /\ t \notin Pushing /\ t \notin Pushing' /\ t \notin Popped /\ t \in Popped'
  BY <1>2 DEF Carrying, Keeping, Pushing, Popped
<1>4. q # <<>> /\ mTop = q[1] /\ localMyTop[t] = q[1] /\ localMyNext[t] = Next[q[1][1]]
  BY PopFinds DEF PopTop
<1>5. /\ NodesOf(q) # <<>> /\ NodesOf(q)[1] = q[1][1] /\ NodesOf(r) = Tail(NodesOf(q))
      /\ KeysOf(q) # <<>> /\ KeysOf(q)[1] = Data[q[1][1]] /\ KeysOf(r) = Tail(KeysOf(q))
      /\ Len(r) = Len(q) - 1
  BY <1>4, TailParts
<1>6. NodesOf(r)' = NodesOf(r) /\ KeysOf(r)' = KeysOf(r) /\ SpareNodes' = SpareNodes
  BY <1>2 DEF NodesOf, KeysOf, SpareNodes
<1>7. HandNodes' = With(HandNodes, t, NodesOf(q)[1])
  <2>1. NodeOf(t)' = NodesOf(q)[1]
    BY <1>2, <1>3, <1>4, <1>5 DEF NodeOf
  <2> QED BY <1>1, <1>3, <2>1, NodesMove
<1>8. HandKeys' = With(HandKeys, t, KeysOf(q)[1])
  <2>1. KeyOf(t)' = KeysOf(q)[1]
    BY <1>2, <1>3, <1>4, <1>5 DEF KeyOf
  <2> QED BY <1>1, <1>2, <1>3, <2>1, KeysMove
<1>9. t \notin DOMAIN HandNodes /\ t \notin DOMAIN HandKeys
  BY <1>3 DEF HandNodes, HandKeys
<1>10. Apart(Nodes, SpareNodes, With(HandNodes, t, NodesOf(q)[1]), Tail(NodesOf(q)))
  BY <1>5, <1>9, ApartPop DEF ListInv
<1>11. /\ Apart(Keys, held, With(HandKeys, t, KeysOf(q)[1]), Tail(KeysOf(q)))
       /\ Off(held, With(HandKeys, t, KeysOf(q)[1])) = Off(held, HandKeys) \cup {Head(KeysOf(q))}
  BY <1>5, <1>9, ApartPop DEF ListInv
<1>12. IsList(mTop', Next', r, NodePointers)
  <2>1. IsList(Next[mTop[1]], Next, r, NodePointers)
    BY <1>4, ListPop DEF ListInv
  <2> QED BY <1>2, <1>4, <2>1
<1>13. NextStillTrue(r)'
  <2>1. \A u \in Threads : At(u, "pop")' =>
          At(u, "pop") /\ localMyTop'[u] = localMyTop[u] /\ localMyNext'[u] = localMyNext[u]
    BY <1>1, <1>2, SetsMove DEF At
  <2>2. /\ Len(q) \in Nat \ {0} /\ \A i \in 1 .. Len(q) - 1 : r[i] = q[i + 1]
    BY <1>4, ListFacts, TailOf
  <2> HIDE DEF r
  <2>3. \A i \in 1 .. Len(r) : i + 1 \in 1 .. Len(q) /\ r[i] = q[i + 1]
    BY <1>5, <2>2
  <2>4. \A i \in 1 .. Len(r) : \A u \in Threads :
          At(u, "pop") /\ localMyTop[u] = r[i] => localMyNext[u] = Next[r[i][1]]
    BY <2>3 DEF ListInv, NextStillTrue
  <2> QED BY <1>2, <2>1, <2>4 DEF NextStillTrue
<1>14. Counted(r)'
  <2>1. Cardinality(Keeping') = Cardinality(Keeping) + 1 /\ Carrying' = Carrying
    BY <1>1, <1>3, CallsMove
  <2>2. made = Len(q) + Len(pool) + Cardinality(Carrying) + Cardinality(Keeping)
    BY DEF ListInv, Counted
  <2>3. Len(q) \in Nat /\ Cardinality(Carrying) \in Nat /\ Cardinality(Keeping) \in Nat /\ Len(pool) \in Nat
    BY ListFacts, CountsFinite, LengthZero DEF TypeOK
  <2>4. made' = Len(r) + Len(pool') + Cardinality(Carrying') + Cardinality(Keeping')
    BY <1>2, <1>5, <2>1, <2>2, <2>3
  <2> QED BY <2>4 DEF Counted
<1> HIDE DEF r
<1>15. ListInv(r)'
  BY <1>2, <1>5, <1>6, <1>7, <1>8, <1>10, <1>11, <1>12, <1>13, <1>14 DEF ListInv
<1> QED BY <1>2, <1>4, <1>5, <1>6, <1>8, <1>11, <1>15 DEF r

\* The key of a node that was popped is the caller's.
LEMMA DataKeeps ==
  ASSUME StackConstants, TypeOK, LocalsKnown, NEW q, ListInv(q), NEW t \in Threads, ReadData(t)
  PROVE  ListInv(q)' /\ Off(held, HandKeys)' = Off(held, HandKeys)
<1>1. ThreadStep(t)
  BY DEF ThreadStep
<1>2. /\ UNCHANGED <<mTop, mCount, Next, Data, pool, made, key, newNode, localMyTop, localMyNext>>
      /\ held' = held \cup {Data[localMyTop[t][1]]} /\ pc[t] = "data" /\ pc'[t] = "free"
  BY DEF ReadData, locals, getPurePointer, Goto, At, LocalsKnown
<1>3. /\ t \notin Carrying /\ t \notin Carrying' /\ t \in Keeping /\ t \in Keeping'
      /\ t \notin Pushing /\ t \notin Pushing' /\ t \in Popped /\ t \notin Popped' /\ ~At(t, "pop")'
  BY <1>2 DEF Carrying, Keeping, Pushing, Popped, At
<1>4. IsList(mTop', Next', q, NodePointers) /\ NextStillTrue(q)'
  BY <1>1, <1>2, <1>3, NextStays
<1>5. Counted(q)'
  BY <1>1, <1>2, <1>3, CallsMove DEF ListInv, Counted
<1>6. HandNodes' = HandNodes /\ SpareNodes' = SpareNodes
  <2>1. NodeOf(t)' = NodeOf(t)
    BY <1>2, <1>3 DEF NodeOf
  <2> QED BY <1>1, <1>2, <1>3, <2>1, NodesMove DEF SpareNodes
<1>7. HandKeys' = Without(HandKeys, t)
  BY <1>1, <1>2, <1>3, KeysMove
<1>8. t \in DOMAIN HandKeys /\ held' = held \cup {HandKeys[t]}
  BY <1>2, <1>3 DEF HandKeys, KeyOf
<1>9. KeysOf(q)' = KeysOf(q) /\ NodesOf(q)' = NodesOf(q)
  BY <1>2 DEF KeysOf, NodesOf
<1>10. /\ Apart(Keys, held', HandKeys', KeysOf(q)')
       /\ Off(held', HandKeys') = Off(held, HandKeys)
  BY <1>7, <1>8, <1>9, ApartGive DEF ListInv
<1>11. Apart(Nodes, SpareNodes', HandNodes', NodesOf(q)')
  BY <1>6, <1>9 DEF ListInv
<1> QED BY <1>4, <1>5, <1>10, <1>11 DEF ListInv

\* Its node goes back to the pool.
LEMMA FreeKeeps ==
  ASSUME StackConstants, TypeOK, LocalsKnown, NEW q, ListInv(q), NEW t \in Threads, Free(t)
  PROVE  ListInv(q)' /\ Off(held, HandKeys)' = Off(held, HandKeys)
<1>1. ThreadStep(t)
  BY DEF ThreadStep
<1>2. /\ UNCHANGED <<mTop, mCount, Next, Data, made, held>>
      /\ pool' = <<localMyTop[t][1]>> \o pool /\ pc[t] = "free" /\ pc'[t] = "idle"
  BY DEF Free, getPurePointer, Goto, At, LocalsKnown
<1>3. /\ t \notin Carrying /\ t \notin Carrying' /\ t \in Keeping /\ t \notin Keeping'
      /\ t \notin Pushing /\ t \notin Pushing' /\ t \notin Popped /\ t \notin Popped' /\ ~At(t, "pop")'
  BY <1>2 DEF Carrying, Keeping, Pushing, Popped, At
<1>4. IsList(mTop', Next', q, NodePointers) /\ NextStillTrue(q)'
  BY <1>1, <1>2, <1>3, NextStays
<1>5. HandNodes' = Without(HandNodes, t) /\ HandKeys' = HandKeys
  BY <1>1, <1>2, <1>3, NodesMove, KeysMove
<1>6. t \in DOMAIN HandNodes /\ HandNodes[t] = localMyTop[t][1] /\ localMyTop[t][1] \in Nodes
  BY <1>3, HandFacts
<1>7. pool' \in Seq(Nodes) /\ Len(pool') = Len(pool) + 1 /\ Len(pool) \in Nat
      /\ pool'[1] = localMyTop[t][1] /\ \A i \in 1 .. Len(pool) : pool'[i + 1] = pool[i]
  BY <1>2, <1>6, Prepended, LengthZero DEF TypeOK
<1>8. SpareNodes' = SpareNodes \cup {HandNodes[t]}
  <2> DEFINE Old == { pool[i] : i \in 1 .. Len(pool) }
             New == { pool'[i] : i \in 1 .. Len(pool') }
  <2>1. \A i \in 1 .. Len(pool') : i = 1 \/ \E j \in 1 .. Len(pool) : i = j + 1
    <3> TAKE i \in 1 .. Len(pool')
    <3>1. i # 1 => i - 1 \in 1 .. Len(pool) /\ i = (i - 1) + 1
      BY <1>7
    <3> QED BY <3>1
  <2>2. \A i \in 1 .. Len(pool') : i = 1 \/ \E j \in 1 .. Len(pool) : pool'[i] = pool[j]
    BY <1>7, <2>1
  <2>3. New \subseteq Old \cup {pool'[1]}
    BY <2>2
  <2>4. \A i \in 1 .. Len(pool) : i + 1 \in 1 .. Len(pool')
    BY <1>7
  <2>5. Old \subseteq New
    BY <1>7, <2>4
  <2>6. 1 \in 1 .. Len(pool')
    BY <1>7
  <2>7. New = Old \cup {pool'[1]}
    BY <2>5, <2>6, <2>3
  <2>8. SpareNodes = (made + 1 .. MaxNodes) \cup Old /\ SpareNodes' = (made + 1 .. MaxNodes) \cup New
    BY <1>2 DEF SpareNodes
  <2> HIDE DEF Old, New
  <2> QED BY <1>6, <1>7, <2>7, <2>8
<1>9. KeysOf(q)' = KeysOf(q) /\ NodesOf(q)' = NodesOf(q)
  BY <1>2 DEF KeysOf, NodesOf
<1>10. Apart(Nodes, SpareNodes', HandNodes', NodesOf(q)')
  BY <1>5, <1>6, <1>8, <1>9, ApartGive DEF ListInv
<1>11. Apart(Keys, held', HandKeys', KeysOf(q)')
  BY <1>2, <1>5, <1>9 DEF ListInv
<1>12. Counted(q)'
  <2>1. Cardinality(Keeping') = Cardinality(Keeping) - 1 /\ Carrying' = Carrying
    BY <1>1, <1>3, CallsMove
  <2>2. made = Len(q) + Len(pool) + Cardinality(Carrying) + Cardinality(Keeping)
    BY DEF ListInv, Counted
  <2>3. Len(q) \in Nat /\ Cardinality(Carrying) \in Nat /\ Cardinality(Keeping) \in Nat
    BY ListFacts, CountsFinite
  <2>4. made' = Len(q) + Len(pool') + Cardinality(Carrying') + Cardinality(Keeping')
    BY <1>2, <1>7, <2>1, <2>2, <2>3
  <2> QED BY <2>4 DEF Counted
<1> QED BY <1>2, <1>4, <1>5, <1>10, <1>11, <1>12 DEF ListInv

\* A new stack has no list.
LEMMA InitEmpty ==
  ASSUME StackConstants, Init
  PROVE  ListInv(<<>>)
<1>1. Carrying = {} /\ Keeping = {} /\ Pushing = {} /\ Popped = {}
  BY DEF Init, Carrying, Keeping, Pushing, Popped
<1>2. Len(<<>>) = 0 /\ <<>> \in Seq(NodePointers) /\ <<>> \in Seq(Nodes) /\ <<>> \in Seq(Keys)
  OBVIOUS
<1>3. IsList(mTop, Next, <<>>, NodePointers)
  BY <1>2 DEF Init, IsList, Null
<1>4. Counted(<<>>)
  <2>1. Cardinality({}) = 0
    BY FS_EmptySet
  <2> QED BY <1>1, <1>2, <2>1 DEF Init, Counted
<1>5. DOMAIN HandNodes = {} /\ DOMAIN HandKeys = {}
  BY <1>1 DEF HandNodes, HandKeys
<1>6. NodesOf(<<>>) = <<>> /\ KeysOf(<<>>) = <<>>
  BY DEF NodesOf, KeysOf
<1>7. SpareNodes \subseteq Nodes
  BY <1>2, ConstantFacts DEF Init, SpareNodes, Nodes
<1>8. held \subseteq Keys
  BY DEF Init
<1>9. Apart(Nodes, SpareNodes, HandNodes, <<>>) /\ Apart(Keys, held, HandKeys, <<>>)
  BY <1>2, <1>5, <1>7, <1>8 DEF Apart
<1> QED BY <1>2, <1>3, <1>4, <1>6, <1>9 DEF ListInv, NextStillTrue

\* A new stack satisfies the invariant.
LEMMA InitInvariant ==
  ASSUME StackConstants, Init
  PROVE  StackInv
<1>1. \E q : ListInv(q)
  BY InitEmpty
<1>2. TypeOK
  <2>1. mID \in 0 .. MaxPushes + Cardinality(Threads) /\ made \in 0 .. MaxNodes
    BY ConstantFacts DEF Init
  <2>2. Null \in Pointers
    BY PointerFacts
  <2> QED BY <2>1, <2>2 DEF Init, TypeOK
<1>3. LocalsKnown
  BY DEF Init, LocalsKnown, At, Labels
<1>4. PoolApart
  BY DEF Init, PoolApart
<1>5. IdsLeft
  <2>1. Unfilled = {} /\ mID = 0
    BY DEF Init, Unfilled
  <2>2. Cardinality(Unfilled) = 0
    BY <2>1, FS_EmptySet
  <2>3. Threads # {} => Cardinality(Threads) # 0
    BY ConstantFacts, FS_EmptySet
  <2> QED BY <2>1, <2>2, <2>3, ConstantFacts DEF IdsLeft
<1> QED BY <1>1, <1>2, <1>3, <1>4, <1>5 DEF StackInv

\* Nothing happens.
LEMMA StutterKeeps ==
  ASSUME NEW q, ListInv(q), UNCHANGED vars
  PROVE  ListInv(q)' /\ Off(held, HandKeys)' = Off(held, HandKeys)
<1>1. UNCHANGED <<mTop, mID, mCount, Next, Data, pool, made, held,
                  key, newNode, localMyTop, localMyNext, pc>>
  BY DEF vars, shared, locals
<1>2. /\ Carrying' = Carrying /\ Keeping' = Keeping /\ Pushing' = Pushing /\ Popped' = Popped
  BY <1>1 DEF Carrying, Keeping, Pushing, Popped
<1>3. HandNodes' = HandNodes /\ HandKeys' = HandKeys /\ SpareNodes' = SpareNodes
  BY <1>1, <1>2 DEF HandNodes, HandKeys, SpareNodes, NodeOf, KeyOf
<1>4. NodesOf(q)' = NodesOf(q) /\ KeysOf(q)' = KeysOf(q)
  BY <1>1 DEF NodesOf, KeysOf
<1>5. NextStillTrue(q)' /\ Counted(q)'
  BY <1>1, <1>2 DEF ListInv, NextStillTrue, Counted, At
<1> QED BY <1>1, <1>3, <1>4, <1>5 DEF ListInv

----------------------------------------------------------------------------
(* Theorems *)

\* The steps that leave the list, its keys and the keys off it alone.
Inside(t) ==
  \/ (\E k \in held : Push(t, k)) \/ Alloc(t) \/ NewNode(t) \/ Fill(t)
  \/ ReadTopToPush(t) \/ SetNext(t) \/ CountUp(t) \/ ReadTop(t) \/ ReadNext(t)
  \/ (PushTop(t) \/ PopTop(t)) /\ ~SameTop(t)
  \/ CountDown(t) \/ ReadData(t) \/ Free(t)

LEMMA InsideKeeps ==
  ASSUME StackConstants, TypeOK, LocalsKnown, PoolApart, NEW q, ListInv(q),
         NEW t \in Threads, Inside(t)
  PROVE  /\ ListInv(q)' /\ KeysOf(q)' = KeysOf(q)
         /\ Off(held, HandKeys)' = Off(held, HandKeys)
<1>0. KeysOf(q)' = KeysOf(q)
  <2>1. CASE Fill(t)
    <3>1. t \in Carrying /\ Data' = [Data EXCEPT ![newNode[t][1]] = key[t]]
      BY <2>1 DEF Fill, getPurePointer, Carrying, At
    <3>2. \A i \in 1 .. Len(q) : Data'[q[i][1]] = Data[q[i][1]]
      BY <3>1, HandFacts
    <3> QED BY <3>2 DEF KeysOf
  <2>2. CASE ~Fill(t)
    <3>1. UNCHANGED Data
      BY <2>2 DEF Inside, Push, Alloc, NewNode, ReadTopToPush, SetNext, CountUp, ReadTop,
                  ReadNext, PushTop, PopTop, CountDown, ReadData, Free, shared
    <3> QED BY <3>1 DEF KeysOf
  <2> QED BY <2>1, <2>2
<1>1. CASE \E k \in held : Push(t, k)
  BY <1>0, <1>1, PushKeeps
<1>2. CASE Alloc(t)
  BY <1>0, <1>2, AllocKeeps
<1>3. CASE NewNode(t)
  BY <1>0, <1>3, NewNodeKeeps
<1>4. CASE Fill(t)
  BY <1>0, <1>4, FillKeeps
<1>5. CASE \/ ReadTopToPush(t) \/ SetNext(t) \/ CountUp(t) \/ ReadTop(t) \/ ReadNext(t) \/ CountDown(t)
           \/ (PushTop(t) \/ PopTop(t)) /\ ~SameTop(t)
  BY <1>0, <1>5, QuietKeeps
<1>6. CASE ReadData(t)
  BY <1>0, <1>6, DataKeeps
<1>7. CASE Free(t)
  BY <1>0, <1>7, FreeKeeps
<1> QED BY <1>1, <1>2, <1>3, <1>4, <1>5, <1>6, <1>7 DEF Inside

\* The other two are the compare-and-swaps that succeed.
LEMMA InsideOrNot ==
  ASSUME NEW t \in Threads, ThreadStep(t)
  PROVE  Inside(t) \/ (PushTop(t) /\ SameTop(t)) \/ (PopTop(t) /\ SameTop(t))
BY DEF ThreadStep, Inside

\* Every step keeps the invariant, as long as tags tell pointers apart.
LEMMA InvariantStep ==
  ASSUME StackConstants, StackInv, TagsTellApart, [NextStep]_vars
  PROVE  StackInv'
<1>1. PICK q : ListInv(q)
  BY DEF StackInv
<1>2. TypeOK /\ LocalsKnown /\ PoolApart /\ IdsLeft
  BY DEF StackInv
<1>3. ASSUME NEW t \in Threads, ThreadStep(t)
      PROVE  StackInv'
  <2>1. TypeOK' /\ LocalsKnown' /\ PoolApart' /\ IdsLeft'
    BY <1>1, <1>2, <1>3, TypesStep, LocalsStep, PoolStep, IdsStep
  <2>2. \E r : ListInv(r)'
    <3>1. CASE Inside(t)
      BY <1>1, <1>2, <3>1, InsideKeeps
    <3>2. CASE PushTop(t) /\ SameTop(t)
      BY <1>1, <1>2, <3>2, PushPuts
    <3>3. CASE PopTop(t) /\ SameTop(t)
      BY <1>1, <1>2, <3>3, PopTakes
    <3> QED BY <1>3, <3>1, <3>2, <3>3, InsideOrNot
  <2> QED BY <2>1, <2>2 DEF StackInv
<1>4. CASE UNCHANGED vars
  <2>1. ListInv(q)'
    BY <1>1, <1>4, StutterKeeps
  <2>2. UNCHANGED <<mTop, mID, mCount, Next, Data, pool, made, held,
                    key, newNode, localMyTop, localMyNext, pc>>
    BY <1>4 DEF vars, shared, locals
  <2>3. TypeOK' /\ LocalsKnown' /\ PoolApart' /\ IdsLeft'
    BY <1>2, <2>2 DEF TypeOK, LocalsKnown, At, PoolApart, IdsLeft, Unfilled
  <2> QED BY <2>1, <2>3 DEF StackInv
<1> QED BY <1>3, <1>4 DEF NextStep

\* As long as no call of Push is about to push the very pointer that a stalled TryPop has
\* read, ID included, every node and every key is in one place: on the one list under mTop,
\* spare, or in the hands of one call; and what a call has read before its compare-and-swap
\* is still true when the compare-and-swap succeeds.
THEOREM StackInvariant ==
  ASSUME StackConstants
  PROVE  Spec /\ []TagsTellApart => []StackInv
<1>1. Init => StackInv
  BY InitInvariant
<1>2. StackInv /\ TagsTellApart /\ [NextStep]_vars => StackInv'
  BY InvariantStep
<1> QED BY <1>1, <1>2, PTL DEF Spec

----------------------------------------------------------------------------
(* What users see *)

\* There are not more nodes on the list than were made.
LEMMA ListFits ==
  ASSUME StackConstants, TypeOK, NEW q, ListInv(q)
  PROVE  Len(q) < MaxNodes + 1 /\ MaxNodes + 1 \in Nat
<1>1. made = Len(q) + Len(pool) + Cardinality(Carrying) + Cardinality(Keeping)
  BY DEF ListInv, Counted
<1>2. made <= MaxNodes /\ made \in Nat /\ MaxNodes \in Nat
  BY ConstantFacts DEF TypeOK
<1>3. /\ Cardinality(Carrying) \in Nat /\ Cardinality(Keeping) \in Nat
      /\ Len(q) \in Nat /\ Len(pool) \in Nat
  BY CountsFinite, ListFacts, LengthZero DEF TypeOK
<1> QED BY <1>1, <1>2, <1>3

\* NodeAt is the list.
LEMMA NodeAtIs ==
  ASSUME StackConstants, TypeOK, NEW q, ListInv(q)
  PROVE  NodeAt = [i \in 1 .. MaxNodes + 1 |-> IF i <= Len(q) THEN q[i][1] ELSE 0]
<1>1. NodePointers \subseteq (Nat \ {0}) \X Nat
  BY PointerFacts
<1>2. IsList(mTop, Next, q, NodePointers)
  BY DEF ListInv
<1>3. NodeAt = Walked(mTop, Next, MaxNodes + 1)
  BY Zenon DEF NodeAt, getPurePointer, Walked
<1> QED BY <1>1, <1>2, <1>3, ListFits, ListWalk

\* Walking down from mTop finds the list.
LEMMA ListIsWalked ==
  ASSUME StackConstants, TypeOK, NEW q, ListInv(q)
  PROVE  Length = Len(q) /\ [i \in 1 .. Length |-> Data[NodeAt[i]]] = KeysOf(q)
<1>1. q \in Seq(NodePointers) /\ Len(q) \in Nat /\ \A i \in 1 .. Len(q) : q[i][1] \in Nodes
  BY ListFacts
<1>2. Len(q) < MaxNodes + 1 /\ MaxNodes + 1 \in Nat
  BY ListFits
<1>3. NodeAt = [i \in 1 .. MaxNodes + 1 |-> IF i <= Len(q) THEN q[i][1] ELSE 0]
  BY NodeAtIs
<1>4. \A i \in 1 .. Len(q) : q[i][1] # 0
  BY <1>1 DEF Nodes
<1>5. { i \in 1 .. MaxNodes + 1 : NodeAt[i] # 0 } = 1 .. Len(q)
  <2>1. \A i \in 1 .. MaxNodes + 1 : NodeAt[i] # 0 <=> i <= Len(q)
    BY <1>1, <1>3, <1>4
  <2> QED BY <1>1, <1>2, <2>1
<1>6. Length = Len(q)
  <2>1. \A n \in Nat : Cardinality(1 .. n) = n
    BY FS_Interval
  <2>2. Cardinality(1 .. Len(q)) = Len(q)
    BY <1>1, <2>1
  <2> QED BY <1>5, <2>2 DEF Length
<1>7. \A i \in 1 .. Len(q) : NodeAt[i] = q[i][1]
  BY <1>1, <1>2, <1>3
<1> QED BY <1>6, <1>7 DEF KeysOf

\* The same after a step.
LEMMA ListIsWalkedThen ==
  ASSUME StackConstants, NEW q
  PROVE  (TypeOK /\ ListInv(q))'
           => (Length = Len(q) /\ [i \in 1 .. Length |-> Data[NodeAt[i]]] = KeysOf(q))'
<1>1. TypeOK /\ ListInv(q) => Length = Len(q) /\ [i \in 1 .. Length |-> Data[NodeAt[i]]] = KeysOf(q)
  BY ListIsWalked
<1> QED BY <1>1, PTL

\* The keys that KeyStack says the program has.
ProgramKeys == held \cup { key[t] : t \in Pushing }
                    \cup { Data[getPurePointer(localMyTop[t])] : t \in Popped }

LEMMA ProgramKeysAreOff == ProgramKeys = Off(held, HandKeys)
<1>1. Pushing \cap Popped = {}
  BY DEF Pushing, Popped
<1>2. /\ DOMAIN HandKeys = Pushing \cup Popped
      /\ \A t \in Pushing : HandKeys[t] = key[t]
      /\ \A t \in Popped : HandKeys[t] = Data[localMyTop[t][1]]
  BY <1>1 DEF HandKeys, KeyOf
<1> QED BY <1>2 DEF Off, ProgramKeys, getPurePointer

LEMMA ProgramKeysAreOffThen == ProgramKeys' = Off(held, HandKeys)'
<1>1. ProgramKeys = Off(held, HandKeys)
  BY ProgramKeysAreOff
<1>2. (ProgramKeys = Off(held, HandKeys))'
  BY <1>1, PTL
<1> QED BY <1>2

\* Every step is a step of KeyStack, or none: Push and TryPop happen at their successful
\* compare-and-swaps.
LEMMA StepIsStackStep ==
  ASSUME StackConstants, StackInv, StackInv', TagsTellApart, [NextStep]_vars
  PROVE  [Stack!Next]_(Stack!vars)
<1>1. PICK q : ListInv(q)
  BY DEF StackInv
<1>2. TypeOK /\ LocalsKnown /\ PoolApart /\ TypeOK'
  BY DEF StackInv
<1>3. [i \in 1 .. Length |-> Data[NodeAt[i]]] = KeysOf(q)
  BY <1>1, <1>2, ListIsWalked
<1>4. ASSUME ListInv(q)', KeysOf(q)' = KeysOf(q), Off(held, HandKeys)' = Off(held, HandKeys)
      PROVE  UNCHANGED Stack!vars
  <2>1. ([i \in 1 .. Length |-> Data[NodeAt[i]]])' = KeysOf(q)
    BY <1>2, <1>4, ListIsWalkedThen
  <2>2. ProgramKeys' = ProgramKeys
    BY <1>4, ProgramKeysAreOff, ProgramKeysAreOffThen
  <2> QED BY <1>3, <2>1, <2>2 DEF Stack!vars, ProgramKeys
<1>5. ASSUME NEW t \in Threads, ThreadStep(t)
      PROVE  [Stack!Next]_(Stack!vars)
  <2>1. CASE Inside(t)
    BY <1>1, <1>2, <1>4, <2>1, InsideKeeps
  <2>2. CASE PushTop(t) /\ SameTop(t)
    <3>1. PICK p : p = newNode[t]
      OBVIOUS
    <3>2. PICK k : k = key[t]
      OBVIOUS
    <3>3. /\ ListInv(<<p>> \o q)' /\ KeysOf(<<p>> \o q)' = <<k>> \o KeysOf(q)
          /\ k \in Keys /\ k \in Off(held, HandKeys)
          /\ Off(held, HandKeys)' = Off(held, HandKeys) \ {k}
      BY <1>1, <1>2, <2>2, <3>1, <3>2, PushPuts
    <3>4. ([i \in 1 .. Length |-> Data[NodeAt[i]]])' = <<k>> \o KeysOf(q)
      BY <1>2, <3>3, ListIsWalkedThen
    <3>5. k \in ProgramKeys /\ ProgramKeys' = ProgramKeys \ {k}
      BY <3>3, ProgramKeysAreOff, ProgramKeysAreOffThen
    <3>6. Stack!Push(k)
      BY <1>3, <3>4, <3>5 DEF Stack!Push, ProgramKeys
    <3> QED BY <3>3, <3>6 DEF Stack!Next
  <2>3. CASE PopTop(t) /\ SameTop(t)
    <3>1. /\ ListInv(Tail(q))' /\ KeysOf(Tail(q))' = Tail(KeysOf(q)) /\ KeysOf(q) # <<>>
          /\ Off(held, HandKeys)' = Off(held, HandKeys) \cup {Head(KeysOf(q))}
      BY <1>1, <1>2, <2>3, PopTakes
    <3>2. ([i \in 1 .. Length |-> Data[NodeAt[i]]])' = Tail(KeysOf(q))
      BY <1>2, <3>1, ListIsWalkedThen
    <3>3. ProgramKeys' = ProgramKeys \cup {Head(KeysOf(q))}
      BY <3>1, ProgramKeysAreOff, ProgramKeysAreOffThen
    <3>4. Stack!Pop
      BY <1>3, <3>1, <3>2, <3>3 DEF Stack!Pop, ProgramKeys
    <3> QED BY <3>4 DEF Stack!Next
  <2> QED BY <1>5, <2>1, <2>2, <2>3, InsideOrNot
<1>6. CASE UNCHANGED vars
  <2>1. KeysOf(q)' = KeysOf(q)
    BY <1>6 DEF vars, shared, KeysOf
  <2> QED BY <1>1, <1>4, <1>6, <2>1, StutterKeeps
<1> QED BY <1>5, <1>6 DEF NextStep

\* A new stack is a new KeyStack.
LEMMA InitIsStackInit ==
  ASSUME StackConstants, Init
  PROVE  Stack!Init
<1>1. ListInv(<<>>) /\ TypeOK
  BY InitEmpty, InitInvariant DEF StackInv
<1>2. [i \in 1 .. Length |-> Data[NodeAt[i]]] = KeysOf(<<>>)
  BY <1>1, ListIsWalked
<1>3. KeysOf(<<>>) = <<>>
  BY DEF KeysOf
<1>4. Pushing = {} /\ Popped = {} /\ held = Keys
  BY DEF Init, Pushing, Popped
<1> QED BY <1>2, <1>3, <1>4 DEF Stack!Init

\* As long as tags tell pointers apart, the stack implements KeyStack: Push and TryPop change
\* it in one step each, the key pushed last comes back first, and no key is lost or handed to
\* two callers, so no session slot is given to two connections.
THEOREM StackRefined ==
  ASSUME StackConstants
  PROVE  Spec /\ []TagsTellApart => Stack!Spec
<1>1. Init => Stack!Init
  BY InitIsStackInit
<1>2. StackInv /\ StackInv' /\ TagsTellApart /\ [NextStep]_vars => [Stack!Next]_(Stack!vars)
  BY StepIsStackStep
<1> QED BY <1>1, <1>2, StackInvariant, PTL DEF Spec, Stack!Spec

\* The nodes of the pool, of the calls and of the list, as sets.
InPool    == { pool[i] : i \in 1 .. Len(pool) }
InHands   == { HandNodes[t] : t \in Carrying \cup Keeping }
OnList(q) == { NodesOf(q)[i] : i \in 1 .. Len(q) }

\* A node that was made is in one of them.
LEMMA NodesAreSomewhere ==
  ASSUME StackConstants, TypeOK, LocalsKnown, PoolApart, NEW q, ListInv(q)
  PROVE  InPool \cup InHands \cup OnList(q) = 1 .. made
<1>1. /\ Apart(Nodes, SpareNodes, HandNodes, NodesOf(q))
      /\ DOMAIN HandNodes = Carrying \cup Keeping /\ Carrying \cap Keeping = {}
      /\ Len(q) \in Nat /\ Len(NodesOf(q)) = Len(q)
  BY HandFacts, ListFacts DEF ListInv
<1>2. /\ made \in Nat /\ made <= MaxNodes /\ MaxNodes \in Nat /\ Nodes = 1 .. MaxNodes
      /\ pool \in Seq(Nodes) /\ Len(pool) \in Nat
  BY ConstantFacts, LengthZero DEF TypeOK, Nodes
<1>3. InPool \subseteq SpareNodes /\ InPool \subseteq 1 .. made
  <2>1. \A i \in 1 .. Len(pool) : pool[i] \in Nodes /\ pool[i] <= made
    BY <1>2, ElementOf DEF PoolApart
  <2> QED BY <1>2, <2>1 DEF InPool, SpareNodes
<1>4. \A n \in Nodes \ SpareNodes : n \in 1 .. made
  BY <1>2 DEF SpareNodes
<1>5. /\ \A t \in DOMAIN HandNodes : HandNodes[t] \in Nodes \ SpareNodes
      /\ \A i \in 1 .. Len(q) : /\ NodesOf(q)[i] \in Nodes \ SpareNodes
                                /\ \A t \in DOMAIN HandNodes : HandNodes[t] # NodesOf(q)[i]
  <2>1. \A i \in 1 .. Len(q) : NodesOf(q)[i] \in Nodes
    BY ListFacts
  <2> QED BY <1>1, <2>1 DEF Apart
<1>6. InPool \cap InHands = {} /\ InPool \cap OnList(q) = {} /\ InHands \cap OnList(q) = {}
  BY <1>1, <1>3, <1>5 DEF InHands, OnList
<1>7. InHands \subseteq 1 .. made /\ OnList(q) \subseteq 1 .. made
  BY <1>1, <1>4, <1>5 DEF InHands, OnList
<1>8. Cardinality(InPool) = Len(pool)
  <2>1. IsFiniteSet(1 .. Len(pool)) /\ Cardinality(1 .. Len(pool)) = Len(pool)
    BY <1>2, FirstNumbers
  <2>2. \A i, j \in 1 .. Len(pool) : pool[i] = pool[j] => i = j
    BY DEF PoolApart
  <2> QED BY <2>1, <2>2, ImageCounted DEF InPool
<1>9. Cardinality(OnList(q)) = Len(q)
  <2>1. IsFiniteSet(1 .. Len(q)) /\ Cardinality(1 .. Len(q)) = Len(q)
    BY <1>1, FirstNumbers
  <2>2. \A i, j \in 1 .. Len(q) : NodesOf(q)[i] = NodesOf(q)[j] => i = j
    BY <1>1 DEF Apart
  <2> QED BY <2>1, <2>2, ImageCounted DEF OnList
<1>10. Cardinality(InHands) = Cardinality(Carrying) + Cardinality(Keeping)
  <2> DEFINE Holding == Carrying \cup Keeping
  <2>1. IsFiniteSet(Holding) /\ Cardinality(Holding) = Cardinality(Carrying) + Cardinality(Keeping)
    <3>1. /\ IsFiniteSet(Holding)
          /\ Cardinality(Holding) = Cardinality(Carrying) + Cardinality(Keeping) - Cardinality({})
      BY <1>1, CountsFinite, FS_Union
    <3> QED BY <3>1, CountsFinite, FS_EmptySet
  <2>2. \A t, u \in Holding : HandNodes[t] = HandNodes[u] => t = u
    BY <1>1 DEF Apart
  <2> HIDE DEF Holding
  <2>3. Cardinality({ HandNodes[t] : t \in Holding }) = Cardinality(Holding)
    BY <2>1, <2>2, ImageCounted
  <2> QED BY <2>1, <2>3 DEF InHands, Holding
<1>11. Cardinality(InPool) + Cardinality(InHands) + Cardinality(OnList(q)) = made
  <2> DEFINE a == Cardinality(Carrying)
             b == Cardinality(Keeping)
  <2>1. made = Len(q) + Len(pool) + a + b
    BY DEF ListInv, Counted
  <2>2. a \in Nat /\ b \in Nat
    BY CountsFinite
  <2>3. Cardinality(InHands) = a + b
    BY <1>10
  <2> HIDE DEF a, b
  <2>4. Len(pool) + (a + b) + Len(q) = made
    BY <1>1, <1>2, <2>1, <2>2
  <2> QED BY <1>8, <1>9, <2>3, <2>4
<1> DEFINE A == InPool
           B == InHands
           C == OnList(q)
<1>12. /\ made \in Nat /\ A \cup B \cup C \subseteq 1 .. made
       /\ A \cap B = {} /\ A \cap C = {} /\ B \cap C = {}
       /\ Cardinality(A) + Cardinality(B) + Cardinality(C) = made
  BY <1>2, <1>3, <1>6, <1>7, <1>11
<1> HIDE DEF A, B, C
<1>13. A \cup B \cup C = 1 .. made
  BY <1>12, AllAreCounted
<1> QED BY <1>13 DEF A, B, C

\* And it is there once.
LEMMA NodesAreCounted ==
  ASSUME StackConstants, StackInv
  PROVE  NodesConserved
<1>1. PICK q : ListInv(q)
  BY DEF StackInv
<1>2. TypeOK /\ LocalsKnown /\ PoolApart
  BY DEF StackInv
<1> DEFINE l == Len(q)
           m == MaxNodes
<1>3. /\ l \in Nat /\ m \in Nat /\ l < m + 1
      /\ NodeAt = [i \in 1 .. m + 1 |-> IF i <= l THEN q[i][1] ELSE 0]
      /\ NodesOf(q) \in Seq(Nodes) /\ Len(NodesOf(q)) = l /\ \A i \in 1 .. l : NodesOf(q)[i] = q[i][1]
  BY <1>1, <1>2, ListFacts, ListFits, NodeAtIs, ConstantFacts
<1>4. /\ DOMAIN HandNodes = Carrying \cup Keeping /\ Carrying \cap Keeping = {}
      /\ \A t \in Carrying : HandNodes[t] = newNode[t][1]
      /\ \A t \in Keeping : HandNodes[t] = localMyTop[t][1]
  BY <1>1, <1>2, HandFacts
<1>5. /\ pool \in Seq(Nodes) /\ Len(pool) \in Nat /\ DOMAIN pool = 1 .. Len(pool)
      /\ made \in Nat /\ made <= m /\ Nodes = 1 .. m
  BY <1>2, LengthZero DEF TypeOK, Nodes
<1>6. InPool \cup InHands \cup OnList(q) = 1 .. made
  BY <1>1, <1>2, NodesAreSomewhere
<1>7. Apart(Nodes, SpareNodes, HandNodes, NodesOf(q))
  BY <1>1 DEF ListInv
<1> HIDE DEF l, m
<1>8. ASSUME NEW n \in 1 .. made
      PROVE  Cardinality(Places(n)) = 1
  <2> DEFINE Pooled == { <<"pool", i>> : i \in { j \in DOMAIN pool : pool[j] = n } }
             Listed == { <<"list", i>> : i \in { j \in 1 .. m + 1 : NodeAt[j] = n } }
             New == { <<"new", t>> : t \in { u \in Pushing : /\ getPurePointer(newNode[u]) = n
                                                             /\ pc[u] \notin {"alloc", "new"} } }
             Old == { <<"old", t>> : t \in { u \in Threads : /\ getPurePointer(localMyTop[u]) = n
                                                             /\ pc[u] \in {"count_down", "data", "free"} } }
  <2>1. Places(n) = Pooled \cup Listed \cup New \cup Old
    BY DEF Places, m
  <2>2. n # 0
    BY <1>5
  <2>3. ASSUME NEW x \in Pooled
        PROVE  \E i \in 1 .. Len(pool) : x = <<"pool", i>> /\ pool[i] = n
    BY <1>5, <2>3
  <2>4. ASSUME NEW x \in Listed
        PROVE  \E i \in 1 .. l : x = <<"list", i>> /\ NodesOf(q)[i] = n
    <3>1. PICK i \in 1 .. m + 1 : x = <<"list", i>> /\ NodeAt[i] = n
      BY <2>4
    <3>2. i <= l /\ q[i][1] = n
      BY <1>3, <2>2, <3>1
    <3>3. i \in 1 .. l
      BY <1>3, <3>2
    <3> QED BY <1>3, <3>1, <3>2, <3>3
  <2>5. ASSUME NEW x \in New
        PROVE  \E t \in Carrying : x = <<"new", t>> /\ HandNodes[t] = n
    BY <1>4, <2>5 DEF Carrying, Pushing, getPurePointer
  <2>6. ASSUME NEW x \in Old
        PROVE  \E t \in Keeping : x = <<"old", t>> /\ HandNodes[t] = n
    BY <1>4, <2>6 DEF Keeping, getPurePointer
  <2> DEFINE Holding == DOMAIN HandNodes
  <2>7. \A x \in New \cup Old : \E t \in Holding : HandNodes[t] = n
                                  /\ (x \in New => x = <<"new", t>> /\ t \in Carrying)
                                  /\ (x \in Old => x = <<"old", t>> /\ t \in Keeping)
    <3> TAKE x \in New \cup Old
    <3>1. x \in New => x \notin Old
      <4>1. x \in New => x[1] = "new"
        OBVIOUS
      <4>2. x \in Old => x[1] = "old"
        OBVIOUS
      <4> QED BY <4>1, <4>2
    <3> HIDE DEF New, Old
    <3> QED BY <1>4, <2>5, <2>6, <3>1
  <2>8. /\ \A i \in 1 .. Len(pool) : pool[i] \in SpareNodes
        /\ \A i, j \in 1 .. Len(pool) : pool[i] = pool[j] => i = j
    BY <1>2 DEF SpareNodes, PoolApart
  <2>9. /\ \A i, j \in 1 .. l : NodesOf(q)[i] = NodesOf(q)[j] => i = j
        /\ \A i \in 1 .. l : NodesOf(q)[i] \notin SpareNodes /\ \A t \in Holding : HandNodes[t] # NodesOf(q)[i]
        /\ \A t \in Holding : HandNodes[t] \notin SpareNodes
        /\ \A t, u \in Holding : HandNodes[t] = HandNodes[u] => t = u
    BY <1>3, <1>7 DEF Apart
  <2> HIDE DEF Pooled, Listed, New, Old, Holding
  <2>10. \A x, y \in Places(n) : x = y
    <3> TAKE x, y \in Places(n)
    <3>1. CASE x \in Pooled
      <4>1. n \in SpareNodes
        BY <2>3, <2>8, <3>1
      <4>2. y \in Pooled
        BY <2>1, <2>4, <2>7, <2>9, <4>1
      <4> QED BY <2>3, <2>8, <3>1, <4>2
    <3>2. CASE x \in Listed
      <4>1. PICK i \in 1 .. l : x = <<"list", i>> /\ NodesOf(q)[i] = n
        BY <2>4, <3>2
      <4>2. y \in Listed
        BY <2>1, <2>3, <2>7, <2>8, <2>9, <4>1
      <4> QED BY <2>4, <2>9, <4>1, <4>2
    <3>3. CASE x \in New \cup Old
      <4>1. PICK t \in Holding : /\ HandNodes[t] = n
                                 /\ x \in New => x = <<"new", t>> /\ t \in Carrying
                                 /\ x \in Old => x = <<"old", t>> /\ t \in Keeping
        BY <2>7, <3>3
      <4>2. y \in New \cup Old
        BY <2>1, <2>3, <2>4, <2>8, <2>9, <4>1
      <4>3. PICK u \in Holding : /\ HandNodes[u] = n
                                 /\ y \in New => y = <<"new", u>> /\ u \in Carrying
                                 /\ y \in Old => y = <<"old", u>> /\ u \in Keeping
        BY <2>7, <4>2
      <4>4. t = u
        BY <2>9, <4>1, <4>3
      <4> QED BY <1>4, <3>3, <4>1, <4>2, <4>3, <4>4
    <3> QED BY <2>1, <3>1, <3>2, <3>3
  <2>11. Places(n) # {}
    <3>1. n \in InPool \/ n \in InHands \/ n \in OnList(q)
      BY <1>6
    <3>2. CASE n \in InPool
      <4>1. PICK i \in 1 .. Len(pool) : pool[i] = n
        BY <3>2 DEF InPool
      <4>2. <<"pool", i>> \in Pooled
        BY <1>5, <4>1 DEF Pooled
      <4> QED BY <2>1, <4>2
    <3>3. CASE n \in InHands
      <4>1. PICK t \in Carrying \cup Keeping : HandNodes[t] = n
        BY <3>3 DEF InHands
      <4>2. t \in Carrying => <<"new", t>> \in New
        BY <1>4, <4>1 DEF Carrying, Pushing, getPurePointer, New
      <4>3. t \in Keeping => <<"old", t>> \in Old
        BY <1>4, <4>1 DEF Keeping, getPurePointer, Old
      <4> QED BY <2>1, <4>1, <4>2, <4>3
    <3>4. CASE n \in OnList(q)
      <4>1. PICK i \in 1 .. l : q[i][1] = n
        BY <1>3, <3>4 DEF OnList, l
      <4>2. i \in 1 .. m + 1 /\ i <= l
        BY <1>3
      <4>3. NodeAt[i] = n
        BY <1>3, <4>1, <4>2
      <4>4. <<"list", i>> \in Listed
        BY <4>2, <4>3 DEF Listed
      <4> QED BY <2>1, <4>4
    <3> QED BY <3>1, <3>2, <3>3, <3>4
  <2>12. PICK x : x \in Places(n)
    BY <2>11
  <2>13. Places(n) = {x}
    BY <2>10, <2>12
  <2> QED BY <2>13, FS_Singleton
<1> QED BY <1>8 DEF NodesConserved

----------------------------------------------------------------------------
(* An ID that has not come round *)

\* Nobody but the call of Push that brings it has a pointer with this ID.
IdsFresh ==
  /\ mTop[2] <= mID
  /\ \A n \in Nodes : Next[n][2] <= mID
  /\ \A t \in Threads : localMyTop[t][2] <= mID /\ localMyNext[t][2] <= mID /\ newNode[t][2] <= mID
  /\ \A u \in Tagged :
       /\ mTop # newNode[u]
       /\ \A n \in Nodes : Next[n] # newNode[u]
       /\ \A t \in Threads : localMyTop[t] # newNode[u] /\ localMyNext[t] # newNode[u]
       /\ \A t \in Tagged : newNode[u] = newNode[t] => t = u

\* Such a pointer is not one that anybody has read.
LEMMA FreshApart ==
  ASSUME IdsFresh
  PROVE  TagsTellApart
BY DEF IdsFresh, TagsTellApart, Tagged, At

\* Every step keeps the IDs fresh: there are enough of them.
LEMMA FreshStep ==
  ASSUME StackConstants, MaxPushes + Cardinality(Threads) <= TagCount,
         StackInv, IdsFresh, NEW t \in Threads, ThreadStep(t)
  PROVE  IdsFresh'
<1>1. /\ pc \in [Threads -> Labels] /\ newNode \in [Threads -> Pointers]
      /\ localMyTop \in [Threads -> Pointers] /\ localMyNext \in [Threads -> Pointers]
      /\ Next \in [Nodes -> Pointers] /\ mTop \in Pointers /\ mID \in Nat
      /\ \A p \in Pointers : p[2] \in Nat
      /\ Null \in Pointers /\ Null[1] = 0 /\ Null[2] = 0
  <2>1. mID \in Nat
    BY ConstantFacts DEF StackInv, TypeOK
  <2>2. \A p \in Pointers : p[2] \in Nat
    BY PointerFacts
  <2>3. Null \in Pointers /\ Null[1] = 0 /\ Null[2] = 0
    BY PointerFacts DEF Null
  <2> QED BY <2>1, <2>2, <2>3 DEF StackInv, LocalsKnown, TypeOK
<1>2. PICK q : ListInv(q)
  BY DEF StackInv
<1>3. TypeOK /\ LocalsKnown /\ IdsLeft
  BY DEF StackInv
<1>4. \A u \in Threads : u # t => (u \in Tagged' <=> u \in Tagged)
  BY <1>3, SetsMove
<1>5. Tagged \subseteq Threads /\ Tagged' \subseteq Threads
  BY DEF Tagged
<1>6. \A u \in Tagged : newNode[u] # Null
  <2>1. Tagged \subseteq Carrying /\ 0 \notin Nodes
    BY DEF Tagged, Carrying, Nodes
  <2> QED BY <1>1, <1>2, <1>3, <2>1, HandFacts
<1>7. CASE \E k \in held : Push(t, k)
  <2>1. /\ UNCHANGED <<mTop, mID, Next, newNode, localMyTop, localMyNext>>
        /\ t \notin Tagged'
    BY <1>1, <1>7 DEF Push, Goto, Tagged
  <2>2. Tagged' \subseteq Tagged
    BY <1>4, <1>5, <2>1
  <2> QED BY <2>1, <2>2 DEF IdsFresh
<1>8. CASE Alloc(t) \/ NewNode(t)
  <2>1. /\ UNCHANGED <<mTop, mID, Next, localMyTop, localMyNext>>
        /\ t \notin Tagged /\ t \notin Tagged'
        /\ newNode'[t][2] = 0 \/ newNode'[t] = newNode[t]
        /\ \A u \in Threads : u # t => newNode'[u] = newNode[u]
    BY <1>1, <1>8 DEF Alloc, NewNode, Goto, Tagged, At
  <2>2. Tagged' = Tagged
    BY <1>4, <1>5, <2>1
  <2>3. \A u \in Threads : newNode'[u][2] <= mID
    BY <1>1, <2>1 DEF IdsFresh
  <2> QED BY <1>5, <2>1, <2>2, <2>3 DEF IdsFresh
<1>9. CASE Fill(t)
  <2>1. PICK p : p = <<newNode[t][1], mID + 1>>
    OBVIOUS
  <2>2. IdFlag(mID + 1) = mID + 1
    <3>1. mID + 1 \in 0 .. TagCount - 1
      <4>1. mID + 1 < MaxPushes + Cardinality(Threads)
        BY <1>3, <1>9, IdsStep
      <4>2. mID + 1 < TagCount
        BY <1>1, <4>1, ConstantFacts
      <4> QED BY <1>1, <4>2, ConstantFacts
    <3>2. \A n \in 0 .. TagCount - 1 : n % TagCount = n
      <4>1. TagCount \in Nat \ {0}
        BY ConstantFacts
      <4> QED BY ONLY <4>1
    <3> QED BY <3>1, <3>2 DEF IdFlag
  <2>3. /\ UNCHANGED <<mTop, Next, localMyTop, localMyNext>> /\ mID' = mID + 1
        /\ newNode' = [newNode EXCEPT ![t] = p] /\ t \notin Tagged /\ t \in Tagged'
    BY <1>1, <1>9, <2>1, <2>2 DEF Fill, getPurePointer, Goto, Tagged, At
  <2>4. Tagged' = Tagged \cup {t}
    BY <1>4, <1>5, <2>3
  <2>5. \A r \in Pointers : r[2] <= mID => r[2] <= mID + 1 /\ r # p
    BY <1>1, <2>1
  <2>6. p[2] <= mID + 1
    BY <1>1, <2>1
  <2>7. newNode'[t] = p /\ \A u \in Threads : u # t => newNode'[u] = newNode[u]
    BY <1>1, <2>3
  <2>8. /\ mTop'[2] <= mID' /\ \A n \in Nodes : Next'[n][2] <= mID'
        /\ \A u \in Threads : localMyTop'[u][2] <= mID' /\ localMyNext'[u][2] <= mID'
                              /\ newNode'[u][2] <= mID'
    BY <1>1, <2>3, <2>5, <2>6, <2>7 DEF IdsFresh
  <2>9. /\ mTop' # p /\ \A n \in Nodes : Next'[n] # p
        /\ \A u \in Threads : localMyTop'[u] # p /\ localMyNext'[u] # p
        /\ \A u \in Tagged : newNode'[u] # p /\ newNode'[u] = newNode[u]
    BY <1>1, <1>5, <2>3, <2>5, <2>7 DEF IdsFresh
  <2> QED BY <2>3, <2>4, <2>7, <2>8, <2>9 DEF IdsFresh
<1>10. CASE ReadTopToPush(t)
  <2>1. /\ UNCHANGED <<mTop, mID, Next, newNode, localMyNext>> /\ t \in Tagged
        /\ localMyTop' = [localMyTop EXCEPT ![t] = mTop]
    BY <1>1, <1>10 DEF ReadTopToPush, shared, Tagged, At
  <2>2. Tagged' \subseteq Tagged
    BY <1>4, <1>5, <2>1
  <2> QED BY <1>1, <2>1, <2>2 DEF IdsFresh
<1>11. CASE SetNext(t)
  <2>1. /\ UNCHANGED <<mTop, mID, newNode, localMyTop, localMyNext>> /\ t \in Tagged
        /\ Next' = [Next EXCEPT ![newNode[t][1]] = localMyTop[t]]
    BY <1>1, <1>11 DEF SetNext, locals, getPurePointer, Tagged, At
  <2>2. Tagged' \subseteq Tagged
    BY <1>4, <1>5, <2>1
  <2>3. \A n \in Nodes : Next'[n] \in {Next[n], localMyTop[t]}
    BY <1>1, <2>1
  <2> QED BY <2>1, <2>2, <2>3 DEF IdsFresh
<1>12. CASE PushTop(t)
  <2>1. UNCHANGED <<mID, Next, newNode, localMyTop, localMyNext>> /\ t \in Tagged
    BY <1>12 DEF PushTop, locals, Tagged, At
  <2>2. CASE SameTop(t)
    <3>1. mTop' = newNode[t] /\ t \notin Tagged'
      BY <1>1, <1>12, <2>2 DEF PushTop, Tagged, Goto
    <3>2. Tagged' = Tagged \ {t}
      BY <1>4, <1>5, <3>1
    <3>3. \A u \in Tagged \ {t} : newNode[t] # newNode[u]
      BY <2>1 DEF IdsFresh
    <3> QED BY <2>1, <3>1, <3>2, <3>3 DEF IdsFresh
  <2>3. CASE ~SameTop(t)
    <3>1. UNCHANGED mTop /\ Tagged' \subseteq Tagged
      BY <1>4, <1>5, <1>12, <2>1, <2>3 DEF PushTop
    <3> QED BY <2>1, <3>1 DEF IdsFresh
  <2> QED BY <2>2, <2>3
<1>13. CASE CountUp(t) \/ Free(t) \/ (ReadTop(t) /\ mTop = Null)
  <2>1. /\ UNCHANGED <<mTop, mID, Next>> /\ t \notin Tagged /\ t \notin Tagged'
        /\ localMyTop' = [localMyTop EXCEPT ![t] = Null]
        /\ localMyNext' = [localMyNext EXCEPT ![t] = Null]
        /\ newNode' = [newNode EXCEPT ![t] = Null]
    BY <1>1, <1>13 DEF CountUp, Free, ReadTop, shared, Forget, Tagged, Goto, At
  <2>2. Tagged' = Tagged /\ \A u \in Tagged : u # t
    BY <1>4, <1>5, <2>1
  <2>3. \A u \in Tagged : newNode'[u] = newNode[u]
    BY <1>1, <1>5, <2>1, <2>2
  <2> QED BY <1>1, <1>5, <1>6, <2>1, <2>2, <2>3 DEF IdsFresh
<1>14. CASE ReadTop(t) /\ mTop # Null
  <2>1. /\ UNCHANGED <<mTop, mID, Next, newNode, localMyNext>> /\ t \notin Tagged'
        /\ localMyTop' = [localMyTop EXCEPT ![t] = mTop]
    BY <1>1, <1>14 DEF ReadTop, shared, Tagged, Goto
  <2>2. Tagged' \subseteq Tagged
    BY <1>4, <1>5, <2>1
  <2> QED BY <1>1, <2>1, <2>2 DEF IdsFresh
<1>15. CASE ReadNext(t)
  <2>1. PICK n \in Nodes : n = getPurePointer(localMyTop[t])
    BY <1>3, <1>15, PointerFacts DEF ReadNext, LocalsKnown, At, getPurePointer
  <2>2. /\ UNCHANGED <<mTop, mID, Next, newNode, localMyTop>> /\ t \notin Tagged'
        /\ localMyNext' = [localMyNext EXCEPT ![t] = Next[n]]
    BY <1>1, <1>15, <2>1 DEF ReadNext, shared, Tagged, Goto
  <2>3. Tagged' \subseteq Tagged
    BY <1>4, <1>5, <2>2
  <2> QED BY <1>1, <2>1, <2>2, <2>3 DEF IdsFresh
<1>16. CASE PopTop(t) \/ CountDown(t) \/ ReadData(t)
  <2>1. /\ UNCHANGED <<mID, Next, newNode, localMyTop, localMyNext>> /\ t \notin Tagged'
        /\ mTop' \in {mTop, localMyNext[t]}
    BY <1>1, <1>16 DEF PopTop, CountDown, ReadData, locals, Tagged, Goto
  <2>2. Tagged' \subseteq Tagged
    BY <1>4, <1>5, <2>1
  <2> QED BY <2>1, <2>2 DEF IdsFresh
<1> QED BY <1>7, <1>8, <1>9, <1>10, <1>11, <1>12, <1>13, <1>14, <1>15, <1>16 DEF ThreadStep

\* While no more keys are pushed, by calls done or begun, than there are IDs, no pointer
\* is ever brought back that somebody still has from before: the hypothesis of the
\* theorems above holds.
THEOREM IdsTellPointersApart ==
  ASSUME StackConstants, MaxPushes + Cardinality(Threads) <= TagCount
  PROVE  Spec => [](StackInv /\ TagsTellApart)
<1>1. Init => StackInv /\ IdsFresh
  <2> SUFFICES ASSUME Init PROVE StackInv /\ IdsFresh
    OBVIOUS
  <2>1. Tagged = {} /\ Null[2] = 0 /\ mID = 0
    BY DEF Init, Tagged, Null
  <2> QED BY <2>1, InitInvariant DEF Init, IdsFresh
<1>2. StackInv /\ IdsFresh /\ [NextStep]_vars => (StackInv /\ IdsFresh)'
  <2> SUFFICES ASSUME StackInv, IdsFresh, [NextStep]_vars
               PROVE  (StackInv /\ IdsFresh)'
    OBVIOUS
  <2>1. StackInv'
    BY FreshApart, InvariantStep
  <2>2. CASE UNCHANGED vars
    <3>1. IdsFresh'
      BY <2>2 DEF vars, shared, locals, IdsFresh, Tagged
    <3> QED BY <2>1, <3>1
  <2>3. CASE NextStep
    <3>1. IdsFresh'
      BY <2>3, FreshStep DEF NextStep
    <3> QED BY <2>1, <3>1
  <2> QED BY <2>2, <2>3
<1>3. IdsFresh => TagsTellApart
  BY FreshApart
<1> QED BY <1>1, <1>2, <1>3, PTL DEF Spec

\* Such a stack implements KeyStack.
THEOREM StackImplementsKeyStack ==
  ASSUME StackConstants, MaxPushes + Cardinality(Threads) <= TagCount
  PROVE  Spec => Stack!Spec
BY IdsTellPointersApart, StackRefined, PTL

\* Each node it has made is in one place: on the stack, in the pool, or in the hands of a call.
THEOREM StackConservesNodes ==
  ASSUME StackConstants, MaxPushes + Cardinality(Threads) <= TagCount
  PROVE  Spec => []NodesConserved
<1>1. StackInv => NodesConserved
  BY NodesAreCounted
<1> QED BY <1>1, IdsTellPointersApart, PTL

\* Its variables have the values they should.
THEOREM StackTyped ==
  ASSUME StackConstants, MaxPushes + Cardinality(Threads) <= TagCount
  PROVE  Spec => []TypeOK
<1>1. StackInv => TypeOK
  BY DEF StackInv
<1> QED BY <1>1, IdsTellPointersApart, PTL
=============================================================================
