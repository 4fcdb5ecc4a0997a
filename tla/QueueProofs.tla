---------------------------- MODULE QueueProofs ----------------------------
(***************************************************************************)
(* LockFreeQueue implements FifoQueue, under two hypotheses, and with one   *)
(* producer without them.                                                   *)
(*                                                                          *)
(* The proof carries along the list q of the pointers from mHead on: an     *)
(* Enqueue appends to it at its compare-and-swap on Next, a TryDequeue takes *)
(* the first at its own on mHead, and mTail is somewhere in it.  What the    *)
(* calls have read about mHead and mTail is true as long as these have not   *)
(* moved, and once moved they do not come back.                             *)
(***************************************************************************)
EXTENDS QueueProperties, ProofLemmas

----------------------------------------------------------------------------
(* The hypotheses *)

\* A pointer about to be appended is not one that a call still has from before.
TagsTellApart ==
  \A t \in Producers, u \in Threads :
    At(t, "link") => newTailHopeToChange(t) # localMyTail[u] /\ newTailHopeToChange(t) # localMyHead[u]

\* The node a producer appends to is in the list.
AppendsToList ==
  \A t \in Producers :
    At(t, "link") /\ Next[getPurePointer(localMyTail[t])] = Null
      => \E i \in 1 .. MaxNodes + 1 : NodeAt[i] = getPurePointer(localMyTail[t])

Undisturbed == TagsTellApart /\ AppendsToList

----------------------------------------------------------------------------
(* The invariant *)

EnqueueLabels == {"idle", "alloc", "new", "fill", "tail", "link", "read_next", "help", "swing", "count"}
DequeueLabels == {"idle", "d_head", "d_tail", "d_next", "d_test", "d_cas", "d_free", "d_count"}

\* Pointers to a node.
NodePointers == Nodes \X (0 .. TagCount - 1)

\* The calls of Enqueue that have a node, and those of TryDequeue that free one.
Carrying == { t \in Producers : pc[t] \in {"fill", "tail", "link", "read_next", "help"} }
Freeing  == { t \in Consumers : pc[t] = "d_free" }

\* The calls that have changed the list and not mCount, and those about to get a node.
Linked == { t \in Producers : pc[t] \in {"swing", "count"} }
Unlinked == { t \in Consumers : pc[t] \in {"d_free", "d_count"} }
Getting  == { t \in Producers : pc[t] \in {"alloc", "new"} }

\* The nodes of the calls, and those that nobody uses.
NodeOf(t)  == IF t \in Carrying THEN newNode[t] ELSE localMyHead[t][1]
HandNodes  == [t \in Carrying \cup Freeing |-> NodeOf(t)]
SpareNodes == (mCapacity + 1 .. MaxNodes) \cup { pool[i] : i \in 1 .. Len(pool) }

\* The nodes of a list.
NodesOf(q) == [i \in 1 .. Len(q) |-> q[i][1]]

\* What a call knows of its locals.
LocalsKnown ==
  /\ pc \in [Threads -> EnqueueLabels \cup DequeueLabels]
  /\ \A t \in Producers :
       /\ pc[t] \in EnqueueLabels
       /\ pc[t] \in {"idle", "alloc", "new"} => newNode[t] = 0
       /\ pc[t] \in {"alloc", "new", "fill", "tail", "link", "read_next", "help"} => value[t] \in Values
       /\ pc[t] \in {"tail", "link", "read_next", "help"}
            => Data[newNode[t]] = value[t] /\ Next[newNode[t]] = Null
       /\ pc[t] \in {"link", "read_next", "help", "swing"} => localMyTail[t] \in NodePointers
  /\ \A t \in Consumers :
       /\ pc[t] \in DequeueLabels
       /\ pc[t] \in {"d_tail", "d_next", "d_test", "d_cas", "d_free"} => localMyHead[t] \in NodePointers

\* How many calls of Enqueue have begun, and how many nodes there are for them.
Begun == UNION { {p} \X (1 .. serial[p]) : p \in Producers }
Bounded ==
  /\ serial \in [Producers -> Nat]
  /\ mID = Cardinality(Begun) /\ mCapacity + Cardinality(Getting) <= 1 + mID

\* The pool has nodes that were made, each once.
PoolApart ==
  /\ \A i \in 1 .. Len(pool) : pool[i] <= mCapacity
  /\ \A i, j \in 1 .. Len(pool) : pool[i] = pool[j] => i = j

\* Every node is spare, in the hands of one call, or in the list.
Placed(q) ==
  /\ Apart(Nodes, SpareNodes, HandNodes, NodesOf(q))
  /\ Nodes = Off(SpareNodes, HandNodes) \cup { q[i][1] : i \in 1 .. Len(q) }

\* mTail is in the list, and what was read of it before is not further on.
TailIn(q) ==
  \E j \in 1 .. Len(q) :
    /\ mTail = q[j]
    /\ \A t \in Producers : pc[t] \in {"link", "read_next", "help", "swing"} =>
         \A i \in j + 1 .. Len(q) : q[i] # localMyTail[t]

\* While mTail is what a call has read, so is the Next of its node.
TailsTrue ==
  \A t \in Producers : localMyTail[t] = mTail =>
    /\ pc[t] \in {"read_next", "help", "swing"} => Next[mTail[1]] # Null
    /\ pc[t] = "help" => localMyNext[t] = Next[mTail[1]]
    /\ pc[t] = "swing" => newTailHopeToChange(t) = Next[mTail[1]]

\* What was read of mHead before is not further on.
HeadsPassed(q) ==
  \A t \in Consumers : pc[t] \in {"d_tail", "d_next", "d_test", "d_cas"} =>
    \A i \in 2 .. Len(q) : q[i] # localMyHead[t]

\* While mHead is what a call has read, so are the Next of its node and the data behind it.
HeadsTrue ==
  \A t \in Consumers : localMyHead[t] = mHead =>
    /\ pc[t] \in {"d_next", "d_test", "d_cas"} /\ localMyTail[t] # mHead => mTail # mHead
    /\ pc[t] = "d_test" /\ localMyNext[t][1] # 0 => localMyNext[t] = Next[mHead[1]]
    /\ pc[t] = "d_cas" => /\ localMyTail[t] # mHead /\ localMyNext[t] = Next[mHead[1]]
                          /\ outData[t] = Data[localMyNext[t][1]]

\* mCount is the length of the list but for the calls that have not counted yet.
Counted(q) == mCount = Len(q) - 1 - Cardinality(Linked) + Cardinality(Unlinked)

ListInv(q) ==
  /\ IsList(mHead, Next, q, NodePointers) /\ q # <<>> /\ Placed(q)
  /\ TailIn(q) /\ HeadsPassed(q) /\ Counted(q)

QueueInv == /\ TypeOK /\ LocalsKnown /\ Bounded /\ PoolApart /\ TailsTrue /\ HeadsTrue
            /\ \E q : ListInv(q)

----------------------------------------------------------------------------
(* Constants *)

\* The threads are finitely many, and each is a producer or a consumer.
LEMMA ConstantFacts ==
  /\ IsFiniteSet(Threads) /\ IsFiniteSet(Producers) /\ IsFiniteSet(Consumers)
  /\ Producers \cap Consumers = {} /\ Producers \subseteq Threads /\ Consumers \subseteq Threads
  /\ IsFiniteSet(Values) /\ Cardinality(Values) \in Nat
  /\ MaxNodes \in Nat \ {0} /\ 1 \in Nodes /\ TagCount \in Nat \ {0}
<1>1. /\ Producers \cap Consumers = {} /\ IsFiniteSet(Producers \cup Consumers)
      /\ Threads = Producers \cup Consumers
  BY QueueThreads DEF Threads
<1>2. Producers \in SUBSET (Producers \cup Consumers) /\ Consumers \in SUBSET (Producers \cup Consumers)
  OBVIOUS
<1>3. IsFiniteSet(Producers) /\ IsFiniteSet(Consumers)
  BY <1>1, <1>2, FS_Subset
<1>4. IsFiniteSet(Values)
  <2> DEFINE S == { {p} \X (1 .. q[p]) : p \in Producers, q \in Quotas }
             f == [x \in Producers \X Quotas |-> {x[1]} \X (1 .. x[2][x[1]])]
  <2>1. f \in Surjection(Producers \X Quotas, S)
    <3>1. \A x \in Producers \X Quotas : f[x] \in S
      OBVIOUS
    <3>2. \A s \in S : \E x \in Producers \X Quotas : f[x] = s
      <4> TAKE s \in S
      <4>1. PICK p \in Producers, q \in Quotas : s = {p} \X (1 .. q[p])
        OBVIOUS
      <4>2. <<p, q>> \in Producers \X Quotas /\ f[<<p, q>>] = s
        BY <4>1
      <4> QED BY <4>2
    <3>3. f \in [Producers \X Quotas -> S]
      BY <3>1
    <3> HIDE DEF f, S
    <3> QED BY <3>2, <3>3 DEF Surjection
  <2>2. IsFiniteSet(Producers \X Quotas)
    BY <1>3, QueueBounds, FS_Product
  <2>3. \A s \in S : IsFiniteSet(s)
    <3> TAKE s \in S
    <3>1. PICK p \in Producers, q \in Quotas : s = {p} \X (1 .. q[p])
      OBVIOUS
    <3>2. q[p] \in Nat
      BY <3>1, QueueBounds
    <3>3. IsFiniteSet(1 .. q[p])
      BY <3>2, FS_Interval
    <3>4. \A x : IsFiniteSet({x})
      BY FS_Singleton
    <3> HIDE DEF f, S
    <3> DEFINE a == {p}
               b == 1 .. q[p]
    <3>5. IsFiniteSet(a) /\ IsFiniteSet(b)
      BY <3>3, <3>4
    <3> HIDE DEF a, b
    <3>6. IsFiniteSet(a \X b)
      BY <3>5, FS_Product
    <3>7. IsFiniteSet({p} \X (1 .. q[p]))
      BY <3>6 DEF a, b
    <3> QED BY <3>1, <3>7
  <2> HIDE DEF f, S
  <2>4. IsFiniteSet(S)
    BY <2>1, <2>2, FS_Surjection
  <2>5. IsFiniteSet(UNION S)
    BY <2>3, <2>4, FS_UNION
  <2> QED BY <2>5 DEF S, Values
<1>5. Cardinality(Values) \in Nat
  BY <1>4, FS_CardinalityType
<1>6. MaxNodes \in Nat \ {0} /\ 1 \in Nodes
  BY <1>5 DEF MaxNodes, Nodes
<1> QED BY <1>1, <1>3, <1>4, <1>5, <1>6, QueueBounds

\* A pointer to a node is a pointer, and not Null.
LEMMA PointerFacts ==
  /\ NodePointers \subseteq Pointers /\ Null \in Pointers /\ Null \notin NodePointers
  /\ NodePointers \subseteq (Nat \ {0}) \X Nat /\ Null = <<0, 0>>
  /\ \A p \in Pointers : p = <<p[1], p[2]>> /\ p[1] \in 0 .. MaxNodes /\ p[2] \in 0 .. TagCount - 1
  /\ \A p \in Pointers : p[1] # 0 => p[1] \in Nodes /\ p \in NodePointers
  /\ \A p \in NodePointers : p[1] \in Nodes /\ p[1] # 0
  /\ Nodes \subseteq Nat \ {0} /\ Nodes \subseteq 0 .. MaxNodes
<1>1. MaxNodes \in Nat /\ TagCount \in Nat \ {0}
  BY ConstantFacts
<1> QED BY <1>1 DEF NodePointers, Pointers, Null, Nodes

\* The ID of a pointer fits.
LEMMA FlagFits ==
  ASSUME NEW id \in Nat
  PROVE  IdFlag(id) \in 0 .. TagCount - 1
BY ConstantFacts DEF IdFlag

----------------------------------------------------------------------------
(* Steps *)

ProducerStep(t) == EnqueueId(t) \/ EnqueueStep(t)
ConsumerStep(t) == TryDequeue(t) \/ DequeueStep(t)

\* A thread moves.
ThreadStep(t) == \/ t \in Producers /\ ProducerStep(t)
                 \/ t \in Consumers /\ ConsumerStep(t)

\* The types of the locals.
LocalTypes ==
  /\ pc \in [Threads -> EnqueueLabels \cup DequeueLabels]
  /\ value \in [Threads -> Values \cup {NoValue}]
  /\ newNode \in [Threads -> 0 .. MaxNodes]
  /\ localMyIdFlag \in [Threads -> 0 .. TagCount - 1]
  /\ localMyHead \in [Threads -> Pointers] /\ localMyTail \in [Threads -> Pointers]
  /\ localMyNext \in [Threads -> Pointers]
  /\ outData \in [Threads -> Values \cup {NoValue}]

\* They follow from the two parts of the invariant.
LEMMA LocalsTyped ==
  ASSUME TypeOK, LocalsKnown
  PROVE  LocalTypes
BY DEF TypeOK, LocalsKnown, LocalTypes

\* A step of one thread leaves the calls of the others alone.
LEMMA OthersStay ==
  ASSUME LocalTypes, NEW t \in Threads, ThreadStep(t), NEW u \in Threads, u # t
  PROVE  /\ pc'[u] = pc[u] /\ value'[u] = value[u] /\ newNode'[u] = newNode[u]
         /\ localMyIdFlag'[u] = localMyIdFlag[u] /\ localMyHead'[u] = localMyHead[u]
         /\ localMyTail'[u] = localMyTail[u] /\ localMyNext'[u] = localMyNext[u]
         /\ outData'[u] = outData[u]
<1> USE DEF LocalTypes, Goto, locals
<1>1. CASE EnqueueId(t)
  BY <1>1 DEF EnqueueId
<1>2. CASE Alloc(t) \/ NewNode(t)
  BY <1>2 DEF Alloc, NewNode
<1>3. CASE Fill(t) \/ Link(t)
  BY <1>3 DEF Fill, Link
<1>4. CASE ReadTail(t) \/ ReadNext(t)
  BY <1>4 DEF ReadTail, ReadNext
<1>5. CASE Help(t) \/ Swing(t)
  BY <1>5 DEF Help, Swing
<1>6. CASE CountUp(t) \/ CountDown(t)
  BY <1>6 DEF CountUp, CountDown, Forget
<1>7. CASE TryDequeue(t) \/ ReadHead(t)
  BY <1>7 DEF TryDequeue, ReadHead
<1>8. CASE ReadHeadTail(t) \/ ReadHeadNext(t)
  BY <1>8 DEF ReadHeadTail, ReadHeadNext
<1>9. CASE SeemsEmpty(t)
  BY <1>9 DEF SeemsEmpty, Forget
<1>10. CASE CopyData(t)
  BY <1>10 DEF CopyData
<1>11. CASE MoveHead(t) \/ Free(t)
  BY <1>11 DEF MoveHead, Free
<1> QED BY <1>1, <1>2, <1>3, <1>4, <1>5, <1>6, <1>7, <1>8, <1>9, <1>10, <1>11
        DEF ThreadStep, ProducerStep, ConsumerStep, EnqueueStep, DequeueStep

\* Where the calls are: only that of the thread that moves can come or go.
LEMMA SetsMove ==
  ASSUME LocalTypes, NEW t \in Threads, ThreadStep(t), NEW u \in Threads, u # t
  PROVE  /\ (u \in Carrying' <=> u \in Carrying) /\ (u \in Freeing' <=> u \in Freeing)
         /\ (u \in Linked' <=> u \in Linked) /\ (u \in Unlinked' <=> u \in Unlinked)
         /\ (u \in Getting' <=> u \in Getting)
         /\ NodeOf(u)' = NodeOf(u)
BY OthersStay DEF Carrying, Freeing, Linked, Unlinked, Getting, NodeOf

\* The nodes of the calls after a step of t.
LEMMA NodesMove ==
  ASSUME LocalTypes, NEW t \in Threads, ThreadStep(t)
  PROVE  LET Holding == Carrying \cup Freeing IN
         /\ t \notin Holding /\ t \notin Holding' => HandNodes' = HandNodes
         /\ t \in Holding /\ t \in Holding' /\ NodeOf(t)' = NodeOf(t) => HandNodes' = HandNodes
         /\ t \notin Holding /\ t \in Holding' => HandNodes' = With(HandNodes, t, NodeOf(t)')
         /\ t \in Holding /\ t \notin Holding' => HandNodes' = Without(HandNodes, t)
<1> DEFINE Holding == Carrying \cup Freeing
<1>1. \A u \in Threads : u # t => (u \in Holding' <=> u \in Holding) /\ NodeOf(u)' = NodeOf(u)
  BY SetsMove
<1>2. Holding \subseteq Threads /\ Holding' \subseteq Threads
  BY ConstantFacts DEF Carrying, Freeing
<1>3. HandNodes = [u \in Holding |-> NodeOf(u)] /\ HandNodes' = [u \in Holding' |-> NodeOf(u)']
  BY DEF HandNodes
<1>4. DOMAIN HandNodes = Holding
  BY <1>3
<1> HIDE DEF Holding
<1>5. CASE t \notin Holding /\ t \notin Holding'
  <2>1. Holding' = Holding /\ \A u \in Holding : NodeOf(u)' = NodeOf(u)
    BY <1>1, <1>2, <1>5
  <2> QED BY <1>3, <1>5, <2>1 DEF Holding
<1>6. CASE t \in Holding /\ t \in Holding'
  <2>1. Holding' = Holding
    BY <1>1, <1>2, <1>6
  <2>2. NodeOf(t)' = NodeOf(t) => \A u \in Holding : NodeOf(u)' = NodeOf(u)
    BY <1>1, <1>2, <1>6
  <2> QED BY <1>3, <1>6, <2>1, <2>2 DEF Holding
<1>7. CASE t \notin Holding /\ t \in Holding'
  <2>1. Holding' = Holding \cup {t} /\ \A u \in Holding : NodeOf(u)' = NodeOf(u)
    BY <1>1, <1>2, <1>7
  <2>2. HandNodes' = With(HandNodes, t, NodeOf(t)')
    BY <1>3, <1>4, <1>7, <2>1 DEF With
  <2> QED BY <1>7, <2>2 DEF Holding
<1>8. CASE t \in Holding /\ t \notin Holding'
  <2>1. Holding' = Holding \ {t} /\ \A u \in Holding' : NodeOf(u)' = NodeOf(u)
    BY <1>1, <1>2, <1>8
  <2>2. HandNodes' = Without(HandNodes, t)
    BY <1>3, <1>4, <1>8, <2>1 DEF Without
  <2> QED BY <1>8, <2>2 DEF Holding
<1> QED BY <1>5, <1>6, <1>7, <1>8 DEF Holding

\* What is in a list, and where mTail is.
LEMMA ListFacts ==
  ASSUME NEW q, ListInv(q)
  PROVE  /\ q \in Seq(NodePointers) /\ Len(q) \in Nat \ {0} /\ q # <<>> /\ mHead = q[1]
         /\ \A i \in 1 .. Len(q) : q[i] \in NodePointers /\ q[i][1] \in Nodes
         /\ \A i \in 1 .. Len(q) : Next[q[i][1]] = IF i = Len(q) THEN Null ELSE q[i + 1]
         /\ \A i, j \in 1 .. Len(q) : q[i][1] = q[j][1] => i = j
         /\ NodesOf(q) \in Seq(Nodes) /\ Len(NodesOf(q)) = Len(q)
         /\ \A i \in 1 .. Len(q) : NodesOf(q)[i] = q[i][1]
         /\ \E j \in 1 .. Len(q) : mTail = q[j]
<1>1. q \in Seq(NodePointers) /\ Len(q) \in Nat /\ q # <<>>
  BY LengthZero DEF ListInv, IsList
<1>2. Len(q) # 0
  BY <1>1, LengthZero
<1>3. \A i \in 1 .. Len(q) : q[i] \in NodePointers /\ q[i][1] \in Nodes
  BY <1>1, PointerFacts
<1>4. NodesOf(q) \in [1 .. Len(q) -> Nodes] /\ \A i \in 1 .. Len(q) : NodesOf(q)[i] = q[i][1]
  BY <1>3 DEF NodesOf
<1>5. NodesOf(q) \in Seq(Nodes) /\ Len(NodesOf(q)) = Len(q)
  BY <1>1, <1>4, FunctionIsSeq
<1>6. mHead = q[1]
  BY <1>1 DEF ListInv, IsList
<1>7. \A i \in 1 .. Len(q) : Next[q[i][1]] = IF i = Len(q) THEN Null ELSE q[i + 1]
  BY PointerFacts DEF ListInv, IsList
<1>8. \A i, j \in 1 .. Len(q) : q[i][1] = q[j][1] => i = j
  BY DEF ListInv, IsList
<1>9. \E j \in 1 .. Len(q) : mTail = q[j]
  BY DEF ListInv, TailIn
<1> QED BY <1>1, <1>2, <1>3, <1>4, <1>5, <1>6, <1>7, <1>8, <1>9

\* The node of a call is its own.
LEMMA HandFacts ==
  ASSUME NEW q, ListInv(q)
  PROVE  /\ DOMAIN HandNodes = Carrying \cup Freeing /\ Carrying \cap Freeing = {}
         /\ \A t \in Carrying : HandNodes[t] = newNode[t] /\ newNode[t] \in Nodes
         /\ \A t \in Freeing : HandNodes[t] = localMyHead[t][1] /\ localMyHead[t][1] \in Nodes
         /\ \A t \in Carrying : \A i \in 1 .. Len(q) : q[i][1] # newNode[t]
         /\ \A t, u \in Carrying : u # t => newNode[u] # newNode[t]
<1> DEFINE Holding == Carrying \cup Freeing
<1>1. Carrying \cap Freeing = {}
  BY ConstantFacts DEF Carrying, Freeing
<1>2. /\ DOMAIN HandNodes = Holding
      /\ \A t \in Carrying : HandNodes[t] = newNode[t]
      /\ \A t \in Freeing : HandNodes[t] = localMyHead[t][1]
  BY <1>1 DEF HandNodes, NodeOf
<1>3. /\ \A t \in Holding : HandNodes[t] \in Nodes
      /\ \A t, u \in Holding : HandNodes[t] = HandNodes[u] => t = u
      /\ \A i \in 1 .. Len(NodesOf(q)) : \A t \in Holding : HandNodes[t] # NodesOf(q)[i]
  BY <1>2 DEF ListInv, Placed, Apart
<1>4. Len(NodesOf(q)) = Len(q) /\ \A i \in 1 .. Len(q) : NodesOf(q)[i] = q[i][1]
  BY ListFacts
<1> QED BY <1>1, <1>2, <1>3, <1>4

----------------------------------------------------------------------------
(* Types *)

\* The values of a producer.
LEMMA ValueOf ==
  ASSUME NEW p \in Producers, NEW q \in Quotas, NEW i \in 1 .. q[p]
  PROVE  <<p, i>> \in Values
<1> DEFINE S == { {r} \X (1 .. s[r]) : r \in Producers, s \in Quotas }
           a == {p} \X (1 .. q[p])
<1>1. <<p, i>> \in a
  OBVIOUS
<1>2. a \in S
  OBVIOUS
<1>3. Values = UNION S
  BY DEF Values
<1> HIDE DEF S, a
<1> QED BY <1>1, <1>2, <1>3

\* A new node is one the instance has room for.
LEMMA RoomForNode ==
  ASSUME TypeOK, LocalsKnown, Bounded
  PROVE  /\ mID \in Nat /\ mID <= Cardinality(Values) /\ IsFiniteSet(Begun)
         /\ IsFiniteSet(Getting) /\ Cardinality(Getting) \in Nat
         /\ \A t \in Getting : mCapacity + 1 \in Nodes /\ mCapacity + 1 <= MaxNodes
<1>1. Getting \in SUBSET Producers
  BY DEF Getting
<1>2. IsFiniteSet(Getting) /\ Cardinality(Getting) \in Nat
  BY <1>1, ConstantFacts, FS_Subset, FS_CardinalityType
<1>3. Begun \in SUBSET Values
  <2>1. ASSUME NEW p \in Producers, NEW i \in 1 .. serial[p]
        PROVE  <<p, i>> \in Values
    <3>1. PICK q \in Quotas : serial[p] <= q[p]
      BY DEF TypeOK
    <3>2. q[p] \in Nat /\ serial[p] \in Nat
      BY QueueBounds DEF Bounded
    <3>3. i \in 1 .. q[p]
      BY <3>1, <3>2
    <3> QED BY <3>3, ValueOf
  <2> QED BY <2>1 DEF Begun
<1>4. IsFiniteSet(Begun) /\ Cardinality(Begun) <= Cardinality(Values) /\ Cardinality(Begun) \in Nat
  BY <1>3, ConstantFacts, FS_Subset, FS_CardinalityType
<1>5. mID \in Nat /\ mID <= Cardinality(Values)
  BY <1>4 DEF Bounded
<1>6. ASSUME NEW t \in Getting
      PROVE  mCapacity + 1 \in Nodes /\ mCapacity + 1 <= MaxNodes
  <2>1. Cardinality(Getting) # 0
    BY <1>2, <1>6, FS_EmptySet
  <2>2. mCapacity \in Nat
    BY PointerFacts DEF TypeOK
  <2>3. mCapacity + 1 <= 1 + mID
    BY <1>2, <1>5, <2>1, <2>2 DEF Bounded
  <2> QED BY <1>5, <2>2, <2>3, ConstantFacts DEF MaxNodes, Nodes
<1> QED BY <1>2, <1>4, <1>5, <1>6

\* The types of the shared variables.
SharedTypes ==
  /\ mHead \in Pointers /\ mTail \in Pointers /\ mID \in Nat /\ mCount \in Int
  /\ Next \in [Nodes -> Pointers]
  /\ Data \in [Nodes -> Values \cup {NoValue}]
  /\ pool \in Seq(Nodes) /\ mCapacity \in Nodes

\* The nodes a step of t uses.
LEMMA NodesUsed ==
  ASSUME TypeOK, LocalsKnown, NEW q, ListInv(q), NEW t \in Threads
  PROVE  /\ t \in Producers /\ pc[t] \in {"fill", "tail", "link", "read_next", "help"}
              => newNode[t] \in Nodes
         /\ t \in Producers /\ pc[t] \in {"link", "read_next", "help", "swing"}
              => localMyTail[t][1] \in Nodes /\ localMyTail[t] \in NodePointers
         /\ t \in Consumers /\ pc[t] \in {"d_tail", "d_next", "d_test", "d_cas", "d_free"}
              => localMyHead[t][1] \in Nodes /\ localMyHead[t] \in NodePointers
         /\ localMyNext[t][1] # 0 => localMyNext[t][1] \in Nodes
<1>1. t \in Producers /\ pc[t] \in {"fill", "tail", "link", "read_next", "help"} => newNode[t] \in Nodes
  BY HandFacts DEF Carrying
<1>2. localMyNext[t] \in Pointers
  BY DEF TypeOK
<1> QED BY <1>1, <1>2, PointerFacts DEF LocalsKnown

\* Every step keeps the types of the shared variables,
LEMMA SharedTypesStep ==
  ASSUME TypeOK, LocalsKnown, Bounded, NEW q, ListInv(q), NEW t \in Threads, ThreadStep(t)
  PROVE  SharedTypes'
<1>1. SharedTypes /\ LocalTypes
  BY LocalsTyped DEF TypeOK, SharedTypes
<1>2. t \in Producers => t \notin Consumers
  BY ConstantFacts
<1>3. CASE EnqueueId(t)
  BY <1>1, <1>3 DEF EnqueueId, SharedTypes
<1>4. CASE Alloc(t)
  <2>1. pool # <<>> => Tail(pool) \in Seq(Nodes)
    BY <1>1, TailOf DEF SharedTypes
  <2> QED BY <1>1, <1>4, <2>1 DEF Alloc, SharedTypes
<1>5. CASE NewNode(t) /\ t \in Producers
  <2>1. t \in Getting
    BY <1>5 DEF NewNode, Getting, At
  <2> QED BY <1>1, <1>5, <2>1, RoomForNode DEF NewNode, SharedTypes
<1>6. CASE Fill(t) /\ t \in Producers
  <2>1. newNode[t] \in Nodes /\ value[t] \in Values /\ Null \in Pointers
    BY <1>6, NodesUsed, PointerFacts DEF Fill, At, LocalsKnown
  <2> QED BY <1>1, <1>6, <2>1 DEF Fill, SharedTypes
<1>7. CASE Link(t) /\ t \in Producers
  <2>1. localMyTail[t][1] \in Nodes
    BY <1>7, NodesUsed DEF Link, At
  <2>2. newTailHopeToChange(t) \in Pointers
    BY <1>1 DEF LocalTypes, newTailHopeToChange, Pointers
  <2> QED BY <1>1, <1>7, <2>1, <2>2 DEF Link, SharedTypes, getPurePointer
<1>8. CASE Help(t) \/ Swing(t)
  <2>1. newTailHopeToChange(t) \in Pointers /\ localMyNext[t] \in Pointers
    BY <1>1 DEF LocalTypes, newTailHopeToChange, Pointers
  <2> QED BY <1>1, <1>8, <2>1 DEF Help, Swing, SwingTail, SharedTypes
<1>9. CASE CountUp(t) \/ CountDown(t)
  BY <1>1, <1>9 DEF CountUp, CountDown, SharedTypes
<1>10. CASE MoveHead(t)
  <2>1. localMyNext[t] \in Pointers
    BY <1>1 DEF LocalTypes
  <2> QED BY <1>1, <1>10, <2>1 DEF MoveHead, SharedTypes
<1>11. CASE Free(t) /\ t \in Consumers
  <2>1. localMyHead[t][1] \in Nodes
    BY <1>11, NodesUsed DEF Free, At
  <2>2. <<localMyHead[t][1]>> \o pool \in Seq(Nodes)
    BY <1>1, <2>1, Prepended DEF SharedTypes
  <2> QED BY <1>1, <1>11, <2>2 DEF Free, SharedTypes, getPurePointer
<1>12. CASE \/ ReadTail(t) \/ ReadNext(t) \/ TryDequeue(t) \/ ReadHead(t) \/ ReadHeadTail(t)
            \/ ReadHeadNext(t) \/ SeemsEmpty(t) \/ CopyData(t)
  <2>1. UNCHANGED shared
    BY <1>12 DEF ReadTail, ReadNext, TryDequeue, ReadHead, ReadHeadTail, ReadHeadNext, SeemsEmpty, CopyData
  <2> QED BY <1>1, <2>1 DEF SharedTypes, shared
<1> QED BY <1>2, <1>3, <1>4, <1>5, <1>6, <1>7, <1>8, <1>9, <1>10, <1>11, <1>12
        DEF ThreadStep, ProducerStep, ConsumerStep, EnqueueStep, DequeueStep

\* those of the calls,
LEMMA LocalTypesStep ==
  ASSUME TypeOK, LocalsKnown, Bounded, NEW q, ListInv(q), NEW t \in Threads, ThreadStep(t)
  PROVE  LocalTypes'
<1>1. SharedTypes /\ LocalTypes
  BY LocalsTyped DEF TypeOK, SharedTypes
<1>2. t \in Producers => t \notin Consumers
  BY ConstantFacts
<1>3. Null \in Pointers /\ 0 \in 0 .. MaxNodes /\ 0 \in 0 .. TagCount - 1 /\ Nodes \subseteq 0 .. MaxNodes
  BY PointerFacts, ConstantFacts
<1>4. ASSUME Forget(t), Goto(t, "idle")
      PROVE  LocalTypes'
  BY <1>1, <1>3, <1>4 DEF Forget, Goto, LocalTypes, EnqueueLabels
<1> USE DEF LocalTypes, Goto, EnqueueLabels, DequeueLabels
<1>5. CASE EnqueueId(t) /\ t \in Producers
  <2>1. IdFlag(mID + 1) \in 0 .. TagCount - 1
    BY <1>1, FlagFits DEF SharedTypes
  <2>2. <<t, serial[t] + 1>> \in Values
    <3>1. PICK qu \in Quotas : serial[t] < qu[t]
      BY <1>5 DEF EnqueueId, MayEnqueue
    <3>2. serial[t] \in Nat /\ qu[t] \in Nat
      BY <1>5, QueueBounds DEF Bounded
    <3>3. serial[t] + 1 \in 1 .. qu[t]
      BY <3>1, <3>2
    <3> QED BY <1>5, <3>3, ValueOf
  <2> QED BY <1>1, <1>5, <2>1, <2>2 DEF EnqueueId
<1>6. CASE Alloc(t)
  <2>1. pool # <<>> => Head(pool) \in Nodes
    BY <1>1, TailOf DEF SharedTypes
  <2> QED BY <1>1, <1>3, <1>6, <2>1 DEF Alloc
<1>7. CASE NewNode(t) /\ t \in Producers
  <2>1. t \in Getting
    BY <1>7 DEF NewNode, Getting, At
  <2>2. mCapacity + 1 \in 0 .. MaxNodes
    BY <1>3, <2>1, RoomForNode
  <2> QED BY <1>1, <1>7, <2>2 DEF NewNode
<1>8. CASE Fill(t) \/ Link(t)
  BY <1>1, <1>8 DEF Fill, Link, locals
<1>9. CASE ReadTail(t)
  BY <1>1, <1>9 DEF ReadTail, SharedTypes
<1>10. CASE ReadNext(t) /\ t \in Producers
  <2>1. localMyTail[t][1] \in Nodes
    BY <1>10, NodesUsed DEF ReadNext, At
  <2> QED BY <1>1, <1>10, <2>1 DEF ReadNext, SharedTypes, getPurePointer
<1>11. CASE Help(t) \/ Swing(t)
  BY <1>1, <1>11 DEF Help, Swing, locals
<1>12. CASE CountUp(t) \/ CountDown(t)
  BY <1>4, <1>12 DEF CountUp, CountDown
<1>13. CASE TryDequeue(t) \/ ReadHead(t) \/ ReadHeadTail(t)
  BY <1>1, <1>13 DEF TryDequeue, ReadHead, ReadHeadTail, SharedTypes, locals
<1>14. CASE ReadHeadNext(t) /\ t \in Consumers
  <2>1. localMyHead[t][1] \in Nodes
    BY <1>14, NodesUsed DEF ReadHeadNext, At
  <2> QED BY <1>1, <1>14, <2>1 DEF ReadHeadNext, SharedTypes, getPurePointer
<1>15. CASE SeemsEmpty(t)
  <2>1. CASE mCount = 0
    BY <1>4, <1>15, <2>1 DEF SeemsEmpty
  <2>2. CASE mCount # 0
    BY <1>1, <1>15, <2>2 DEF SeemsEmpty, locals
  <2> QED BY <2>1, <2>2
<1>16. CASE CopyData(t)
  <2>1. localMyNext[t][1] # 0 => localMyNext[t][1] \in Nodes
    BY NodesUsed
  <2> QED BY <1>1, <1>16, <2>1 DEF CopyData, SharedTypes, getPurePointer
<1>17. CASE MoveHead(t) \/ Free(t)
  BY <1>1, <1>17 DEF MoveHead, Free, locals
<1> QED BY <1>2, <1>5, <1>6, <1>7, <1>8, <1>9, <1>10, <1>11, <1>12, <1>13, <1>14, <1>15, <1>16, <1>17
        DEF ThreadStep, ProducerStep, ConsumerStep, EnqueueStep, DequeueStep

\* and the count of what each producer has begun.
LEMMA BoundedStep ==
  ASSUME TypeOK, LocalsKnown, Bounded, NEW t \in Threads, ThreadStep(t)
  PROVE  Bounded' /\ \A p \in Producers : \E q \in Quotas : serial'[p] <= q[p]
<1>1. /\ serial \in [Producers -> Nat] /\ mID = Cardinality(Begun) /\ mID \in Nat
      /\ mCapacity + Cardinality(Getting) <= 1 + mID /\ mCapacity \in Nat
      /\ IsFiniteSet(Begun) /\ IsFiniteSet(Getting) /\ Cardinality(Getting) \in Nat
      /\ \A p \in Producers : \E q \in Quotas : serial[p] <= q[p]
      /\ LocalTypes
  BY RoomForNode, LocalsTyped, PointerFacts DEF Bounded, TypeOK
<1>2. \A u \in Threads : u # t => (u \in Getting' <=> u \in Getting)
  BY <1>1, SetsMove
<1>3. Getting \subseteq Threads /\ Getting' \subseteq Threads
  BY ConstantFacts DEF Getting
<1>4. CASE EnqueueId(t) /\ t \in Producers
  <2>1. /\ serial' = [serial EXCEPT ![t] = @ + 1] /\ mID' = mID + 1 /\ mCapacity' = mCapacity
        /\ t \notin Getting /\ t \in Getting'
    BY <1>1, <1>4 DEF EnqueueId, Getting, At, Goto, LocalTypes
  <2>2. serial'[t] = serial[t] + 1 /\ \A p \in Producers : p # t => serial'[p] = serial[p]
    BY <1>1, <1>4, <2>1
  <2>3. Begun' = Begun \cup {<<t, serial[t] + 1>>}
    <3>1. serial[t] \in Nat
      BY <1>1, <1>4
    <3>2. 1 .. serial[t] + 1 = (1 .. serial[t]) \cup {serial[t] + 1}
      BY <3>1
    <3>3. ASSUME NEW e
          PROVE  e \in Begun' <=> e \in Begun \cup {<<t, serial[t] + 1>>}
      <4>1. e \in Begun <=> \E p \in Producers : e \in {p} \X (1 .. serial[p])
        BY DEF Begun
      <4>2. e \in Begun' <=> \E p \in Producers : e \in {p} \X (1 .. serial'[p])
        BY DEF Begun
      <4>3. e \in {t} \X (1 .. serial[t] + 1)
              <=> e \in {t} \X (1 .. serial[t]) \/ e = <<t, serial[t] + 1>>
        BY <3>2
      <4> QED BY <1>4, <2>2, <4>1, <4>2, <4>3
    <3> QED BY <3>3
  <2>4. <<t, serial[t] + 1>> \notin Begun
    <3>1. \A p \in Producers : serial[p] \in Nat
      BY <1>1
    <3> QED BY <1>4, <3>1 DEF Begun
  <2>5. Cardinality(Begun') = Cardinality(Begun) + 1
    BY <1>1, <2>3, <2>4, FS_AddElement
  <2>6. Getting' = Getting \cup {t}
    BY <1>2, <1>3, <2>1
  <2>7. Cardinality(Getting') = Cardinality(Getting) + 1
    BY <1>1, <2>1, <2>6, FS_AddElement
  <2>8. \A p \in Producers : \E q \in Quotas : serial'[p] <= q[p]
    <3>1. PICK q \in Quotas : serial[t] < q[t] /\ \A p \in Producers : serial[p] <= q[p]
      BY <1>4 DEF EnqueueId, MayEnqueue
    <3>2. serial[t] \in Nat /\ q[t] \in Nat
      BY <1>1, <1>4, QueueBounds
    <3>3. \A p \in Producers : serial'[p] <= q[p]
      BY <2>2, <3>1, <3>2
    <3> QED BY <3>1, <3>3
  <2>9. serial' \in [Producers -> Nat]
    BY <1>1, <1>4, <2>1
  <2> QED BY <1>1, <2>1, <2>5, <2>7, <2>8, <2>9 DEF Bounded
<1>5. CASE UNCHANGED <<serial, mID, mCapacity>> /\ (t \in Getting' => t \in Getting)
  <2>1. Begun' = Begun
    BY <1>5 DEF Begun
  <2>2. Getting' \in SUBSET Getting
    BY <1>2, <1>3, <1>5
  <2>3. Cardinality(Getting') <= Cardinality(Getting) /\ Cardinality(Getting') \in Nat
    BY <1>1, <2>2, FS_Subset, FS_CardinalityType
  <2> QED BY <1>1, <1>5, <2>1, <2>3 DEF Bounded
<1>6. CASE NewNode(t) /\ t \in Producers
  <2>1. UNCHANGED <<serial, mID>> /\ mCapacity' = mCapacity + 1 /\ t \in Getting /\ t \notin Getting'
    BY <1>1, <1>6 DEF NewNode, Getting, At, Goto, LocalTypes
  <2>2. Begun' = Begun
    BY <2>1 DEF Begun
  <2>3. Getting' = Getting \ {t}
    BY <1>2, <1>3, <2>1
  <2>4. Cardinality(Getting') = Cardinality(Getting) - 1
    BY <1>1, <2>1, <2>3, FS_RemoveElement
  <2> QED BY <1>1, <2>1, <2>2, <2>4 DEF Bounded
<1>7. CASE Alloc(t)
  BY <1>1, <1>5, <1>7 DEF Alloc, Getting, At
<1>8. CASE \/ Fill(t) \/ ReadTail(t) \/ Link(t) \/ ReadNext(t) \/ Help(t) \/ Swing(t) \/ CountUp(t)
  BY <1>1, <1>5, <1>8 DEF Fill, ReadTail, Link, ReadNext, Help, Swing, CountUp, Getting, Goto, shared, LocalTypes
<1>9. CASE t \in Consumers /\ ConsumerStep(t)
  <2>1. UNCHANGED <<serial, mID, mCapacity>>
    BY <1>9 DEF ConsumerStep, DequeueStep, TryDequeue, ReadHead, ReadHeadTail, ReadHeadNext, SeemsEmpty,
                CopyData, MoveHead, Free, CountDown, shared
  <2>2. t \notin Getting'
    BY <1>9, ConstantFacts DEF Getting
  <2> QED BY <1>5, <2>1, <2>2
<1> QED BY <1>4, <1>6, <1>7, <1>8, <1>9 DEF ThreadStep, ProducerStep, EnqueueStep

\* Together: every step keeps all the types.
LEMMA TypesStep ==
  ASSUME TypeOK, LocalsKnown, Bounded, NEW q, ListInv(q), NEW t \in Threads, ThreadStep(t)
  PROVE  TypeOK' /\ LocalTypes'
<1>1. SharedTypes' /\ LocalTypes'
  BY SharedTypesStep, LocalTypesStep
<1>2. \A p \in Producers : \E qu \in Quotas : serial'[p] <= qu[p]
  BY BoundedStep
<1> QED BY <1>1, <1>2 DEF TypeOK, SharedTypes, LocalTypes

----------------------------------------------------------------------------
(* The list *)

\* The compare-and-swap on Next that appends, and the one on mHead that removes.
Appends(t) == Link(t) /\ Next[getPurePointer(localMyTail[t])] = Null
Removes(t) == MoveHead(t) /\ mHead = localMyHead[t]

\* The list is what following Next from mHead finds.
LEMMA NodeAtIs ==
  ASSUME NEW q, ListInv(q)
  PROVE  /\ Len(q) <= MaxNodes
         /\ NodeAt = [i \in 1 .. MaxNodes + 1 |-> IF i <= Len(q) THEN q[i][1] ELSE 0]
<1>1. q \in Seq(NodePointers) /\ Len(q) \in Nat /\ \A i \in 1 .. Len(q) : q[i][1] \in Nodes
  BY ListFacts
<1>2. Len(q) <= MaxNodes
  <2> DEFINE f == [i \in 1 .. Len(q) |-> q[i][1]]
  <2>1. f \in Injection(1 .. Len(q), Nodes)
    BY <1>1, ListFacts DEF Injection, IsInjective
  <2>2. IsFiniteSet(Nodes) /\ Cardinality(Nodes) = MaxNodes
    <3>1. MaxNodes \in Nat \ {0} /\ 1 \in Int /\ MaxNodes \in Int
      BY ConstantFacts
    <3>2. IsFiniteSet(1 .. MaxNodes) /\ Cardinality(1 .. MaxNodes) = IF 1 > MaxNodes THEN 0 ELSE MaxNodes - 1 + 1
      BY <3>1, FS_Interval
    <3> QED BY <3>1, <3>2 DEF Nodes
  <2> HIDE DEF f
  <2>3. Cardinality(1 .. Len(q)) <= Cardinality(Nodes)
    BY <2>1, <2>2, FS_Injection
  <2>4. Len(q) \in Int /\ 1 \in Int
    BY <1>1
  <2>5. Cardinality(1 .. Len(q)) = IF 1 > Len(q) THEN 0 ELSE Len(q) - 1 + 1
    BY <2>4, FS_Interval
  <2> QED BY <1>1, <2>2, <2>3, <2>5, ConstantFacts
<1>3. NodePointers \subseteq (Nat \ {0}) \X Nat
  BY PointerFacts
<1>4. NodeAt = [i \in 1 .. MaxNodes + 1 |-> IF i <= Len(q) THEN q[i][1] ELSE 0]
  <2>1. IsList(mHead, Next, q, NodePointers)
    BY DEF ListInv
  <2>2. NodeAt = Walked(mHead, Next, MaxNodes + 1)
    BY Zenon DEF NodeAt, getPurePointer, Walked
  <2>3. Len(q) < MaxNodes + 1 /\ MaxNodes + 1 \in Nat
    BY <1>1, <1>2, ConstantFacts
  <2> QED BY <1>3, <2>1, <2>2, <2>3, ListWalk
<1> QED BY <1>2, <1>4

\* A producer appends behind the last node of the list.
LEMMA LastIsFound ==
  ASSUME NEW q, ListInv(q), NEW n, n # 0, \E i \in 1 .. MaxNodes + 1 : NodeAt[i] = n
  PROVE  \E i \in 1 .. Len(q) : n = q[i][1]
<1>1. Len(q) \in Nat /\ MaxNodes \in Nat
  BY ListFacts, ConstantFacts
<1>2. NodeAt = [i \in 1 .. MaxNodes + 1 |-> IF i <= Len(q) THEN q[i][1] ELSE 0]
  BY NodeAtIs
<1>3. PICK i \in 1 .. MaxNodes + 1 : NodeAt[i] = n
  OBVIOUS
<1>4. i <= Len(q) /\ n = q[i][1]
  BY <1>2, <1>3
<1>5. i \in 1 .. Len(q)
  BY <1>1, <1>4
<1> QED BY <1>4, <1>5

\* What the two compare-and-swaps do.
LEMMA AppendFacts ==
  ASSUME TypeOK, LocalsKnown, AppendsToList, NEW q, ListInv(q), NEW t \in Producers, Appends(t)
  PROVE  /\ At(t, "link") /\ pc'[t] = "swing" /\ t \in Carrying /\ t \notin Carrying'
         /\ localMyTail[t][1] = q[Len(q)][1]
         /\ Next' = [Next EXCEPT ![q[Len(q)][1]] = newTailHopeToChange(t)]
         /\ newTailHopeToChange(t) \in NodePointers /\ newTailHopeToChange(t)[1] = newNode[t]
         /\ newNode[t] \in Nodes /\ \A i \in 1 .. Len(q) : q[i][1] # newNode[t]
         /\ UNCHANGED <<mHead, mTail, mCount, Data, pool, mCapacity, locals>>
<1>1. At(t, "link") /\ Next[localMyTail[t][1]] = Null /\ LocalTypes /\ t \in Threads
  BY LocalsTyped, ConstantFacts DEF Appends, Link, getPurePointer
<1>2. localMyTail[t][1] \in Nodes /\ localMyTail[t][1] # 0
  BY <1>1, NodesUsed, PointerFacts DEF At
<1>3. \E i \in 1 .. Len(q) : localMyTail[t][1] = q[i][1]
  <2>1. \E i \in 1 .. MaxNodes + 1 : NodeAt[i] = localMyTail[t][1]
    BY <1>1 DEF AppendsToList, getPurePointer
  <2> DEFINE n == localMyTail[t][1]
  <2>2. n # 0 /\ \E i \in 1 .. MaxNodes + 1 : NodeAt[i] = n
    BY <1>2, <2>1
  <2> HIDE DEF n
  <2>3. \E i \in 1 .. Len(q) : n = q[i][1]
    BY <2>2, LastIsFound
  <2> QED BY <2>3 DEF n
<1>4. localMyTail[t][1] = q[Len(q)][1]
  <2>1. PICK i \in 1 .. Len(q) : localMyTail[t][1] = q[i][1]
    BY <1>3
  <2>2. i # Len(q) => Next[q[i][1]] = q[i + 1] /\ i + 1 \in 1 .. Len(q)
    BY ListFacts
  <2>3. i # Len(q) => q[i + 1] \in NodePointers
    BY <2>2, ListFacts
  <2> QED BY <1>1, <2>1, <2>2, <2>3, PointerFacts
<1>5. pc'[t] = "swing" /\ t \in Carrying /\ t \notin Carrying'
  BY <1>1 DEF Appends, Link, Goto, At, Carrying, LocalTypes, getPurePointer
<1>6. newNode[t] \in Nodes /\ \A i \in 1 .. Len(q) : q[i][1] # newNode[t]
  BY <1>5, HandFacts
<1>7. newTailHopeToChange(t) \in NodePointers /\ newTailHopeToChange(t)[1] = newNode[t]
  BY <1>1, <1>6 DEF newTailHopeToChange, NodePointers, LocalTypes
<1>8. /\ Next' = [Next EXCEPT ![localMyTail[t][1]] = newTailHopeToChange(t)]
      /\ UNCHANGED <<mHead, mTail, mCount, Data, pool, mCapacity, locals>>
  BY <1>1 DEF Appends, Link, getPurePointer
<1> QED BY <1>1, <1>4, <1>5, <1>6, <1>7, <1>8

\* The other takes the first of a list that has two, and mTail is not there.
LEMMA RemoveFacts ==
  ASSUME TypeOK, LocalsKnown, HeadsTrue, NEW q, ListInv(q), NEW t \in Consumers, Removes(t)
  PROVE  /\ At(t, "d_cas") /\ pc'[t] = "d_free" /\ t \notin Freeing /\ t \in Freeing'
         /\ Len(q) >= 2 /\ localMyHead[t] = q[1] /\ mTail # q[1]
         /\ localMyNext[t] = q[2] /\ mHead' = q[2] /\ outData[t] = Data[q[2][1]]
         /\ UNCHANGED <<mTail, mCount, Next, Data, pool, mCapacity, locals>>
<1>1. At(t, "d_cas") /\ LocalTypes /\ t \in Threads /\ localMyHead[t] = mHead
  BY LocalsTyped, ConstantFacts DEF Removes, MoveHead
<1>2. mHead = q[1] /\ Len(q) \in Nat \ {0} /\ \E j \in 1 .. Len(q) : mTail = q[j]
  BY ListFacts
<1>3. mTail # mHead /\ localMyNext[t] = Next[mHead[1]] /\ outData[t] = Data[localMyNext[t][1]]
  BY <1>1 DEF HeadsTrue, At
<1>4. Len(q) # 1
  BY <1>2, <1>3
<1>5. Next[q[1][1]] = q[2]
  <2>1. \A i \in 1 .. Len(q) : Next[q[i][1]] = IF i = Len(q) THEN Null ELSE q[i + 1]
    BY ListFacts
  <2>2. 1 \in 1 .. Len(q) /\ 1 # Len(q) /\ 1 + 1 = 2
    BY <1>2, <1>4
  <2>3. Next[q[1][1]] = q[1 + 1]
    BY <2>1, <2>2
  <2> QED BY <2>2, <2>3
<1>6. /\ pc'[t] = "d_free" /\ mHead' = localMyNext[t]
      /\ UNCHANGED <<mTail, mCount, Next, Data, pool, mCapacity, locals>>
  BY <1>1 DEF Removes, MoveHead, Goto, LocalTypes
<1>7. t \notin Freeing /\ t \in Freeing'
  BY <1>1, <1>6 DEF Freeing, At
<1>8. Len(q) >= 2
  <2>1. Len(q) \in Nat /\ Len(q) # 0
    BY <1>2
  <2> QED BY <1>4, <2>1
<1> QED BY <1>1, <1>2, <1>3, <1>5, <1>6, <1>7, <1>8

\* Any other step writes neither mHead nor the Next of a node in the list.
LEMMA NextStays ==
  ASSUME TypeOK, LocalsKnown, NEW q, ListInv(q), NEW t \in Threads, ThreadStep(t), ~Appends(t)
  PROVE  /\ ~Removes(t) => mHead' = mHead
         /\ \A n \in Nodes : ~(Fill(t) /\ n = newNode[t]) => Next'[n] = Next[n]
         /\ \A i \in 1 .. Len(q) : Next'[q[i][1]] = Next[q[i][1]]
<1>1. LocalTypes
  BY LocalsTyped
<1>2. CASE Fill(t)
  <2>1. t \in Producers
    BY <1>1, <1>2 DEF ThreadStep, LocalsKnown, DequeueLabels, Fill, At
  <2>2. \A i \in 1 .. Len(q) : q[i][1] # newNode[t] /\ q[i][1] \in Nodes
    <3>1. t \in Carrying
      BY <1>2, <2>1 DEF Fill, At, Carrying
    <3> QED BY <3>1, HandFacts, ListFacts
  <2> QED BY <1>2, <2>2 DEF Fill, TypeOK
<1>3. CASE ~Fill(t)
  <2>1. UNCHANGED Next /\ (~Removes(t) => UNCHANGED mHead)
    BY <1>3 DEF Appends, Removes, ThreadStep, ProducerStep, ConsumerStep, EnqueueStep, DequeueStep,
                EnqueueId, Alloc, NewNode, ReadTail, Link, ReadNext, Help, Swing, CountUp, TryDequeue,
                ReadHead, ReadHeadTail, ReadHeadNext, SeemsEmpty, CopyData, MoveHead, Free, CountDown, shared
  <2> QED BY <1>3, <2>1
<1> QED BY <1>2, <1>3


----------------------------------------------------------------------------
(* What a call knows *)

KnownToProducer(t) ==
  /\ pc[t] \in EnqueueLabels
  /\ pc[t] \in {"idle", "alloc", "new"} => newNode[t] = 0
  /\ pc[t] \in {"alloc", "new", "fill", "tail", "link", "read_next", "help"} => value[t] \in Values
  /\ pc[t] \in {"tail", "link", "read_next", "help"}
       => Data[newNode[t]] = value[t] /\ Next[newNode[t]] = Null
  /\ pc[t] \in {"link", "read_next", "help", "swing"} => localMyTail[t] \in NodePointers

KnownToConsumer(t) ==
  /\ pc[t] \in DequeueLabels
  /\ pc[t] \in {"d_tail", "d_next", "d_test", "d_cas", "d_free"} => localMyHead[t] \in NodePointers

\* Only Fill writes the data of a node, and its node is that of one call.
LEMMA DataStays ==
  ASSUME TypeOK, LocalsKnown, NEW q, ListInv(q), NEW t \in Threads, ThreadStep(t)
  PROVE  /\ \A n \in Nodes : ~(Fill(t) /\ n = newNode[t]) => Data'[n] = Data[n]
         /\ Fill(t) => Data' = [Data EXCEPT ![newNode[t]] = value[t]]
<1>1. Data \in [Nodes -> Values \cup {NoValue}]
  BY DEF TypeOK
<1>2. CASE Fill(t)
  BY <1>1, <1>2 DEF Fill
<1>3. CASE ~Fill(t)
  <2>1. UNCHANGED Data
    BY <1>3 DEF ThreadStep, ProducerStep, ConsumerStep, EnqueueStep, DequeueStep, EnqueueId, Alloc,
                NewNode, ReadTail, Link, ReadNext, Help, Swing, CountUp, TryDequeue, ReadHead,
                ReadHeadTail, ReadHeadNext, SeemsEmpty, CopyData, MoveHead, Free, CountDown, shared
  <2> QED BY <1>3, <2>1
<1> QED BY <1>2, <1>3

\* What a producer knows after its own step,
LEMMA ProducerKnows ==
  ASSUME TypeOK, LocalsKnown, Bounded, NEW q, ListInv(q), NEW t \in Producers, ProducerStep(t)
  PROVE  KnownToProducer(t)'
<1>1. LocalTypes /\ KnownToProducer(t) /\ t \in Threads
  BY LocalsTyped, ConstantFacts DEF LocalsKnown, KnownToProducer
<1>2. ThreadStep(t)
  BY DEF ThreadStep
<1> USE DEF LocalTypes, Goto, EnqueueLabels, At, KnownToProducer
<1>3. CASE EnqueueId(t)
  <2>1. /\ pc'[t] = "alloc" /\ value'[t] = <<t, serial[t] + 1>> /\ newNode'[t] = newNode[t] /\ pc[t] = "idle"
    BY <1>1, <1>3 DEF EnqueueId
  <2>2. value'[t] \in Values
    <3>1. LocalTypes'
      BY <1>1, <1>2, LocalTypesStep
    <3>2. value'[t] \in Values \cup {NoValue}
      BY <1>1, <3>1
    <3>3. PICK qu \in Quotas : serial[t] < qu[t]
      BY <1>3 DEF EnqueueId, MayEnqueue
    <3>4. serial[t] \in Nat /\ qu[t] \in Nat
      BY QueueBounds DEF Bounded
    <3>5. serial[t] + 1 \in 1 .. qu[t]
      BY <3>3, <3>4
    <3> QED BY <2>1, <3>5, ValueOf
  <2> QED BY <1>1, <2>1, <2>2
<1>4. CASE Alloc(t) \/ NewNode(t)
  <2>1. value'[t] = value[t] /\ pc[t] \in {"alloc", "new"} /\ pc'[t] \in {"new", "fill"}
        /\ (pc'[t] = "new" => newNode'[t] = newNode[t])
    BY <1>1, <1>4 DEF Alloc, NewNode
  <2> QED BY <1>1, <2>1
<1>5. CASE Fill(t)
  <2>1. newNode[t] \in Nodes
    BY <1>1, <1>5, NodesUsed DEF Fill
  <2>2. Data'[newNode[t]] = value[t] /\ Next'[newNode[t]] = Null
    BY <1>1, <1>5, <2>1 DEF Fill, TypeOK
  <2> QED BY <1>1, <1>5, <2>2 DEF Fill, locals
<1>6. CASE ReadTail(t)
  <2>1. mTail \in NodePointers
    BY ListFacts
  <2> QED BY <1>1, <1>6, <2>1 DEF ReadTail, shared
<1>7. CASE Link(t) \/ Help(t) \/ Swing(t)
  BY <1>1, <1>7 DEF Link, Help, Swing, locals
<1>8. CASE ReadNext(t)
  BY <1>1, <1>8 DEF ReadNext, shared
<1>9. CASE CountUp(t)
  BY <1>1, <1>9 DEF CountUp, Forget
<1> QED BY <1>3, <1>4, <1>5, <1>6, <1>7, <1>8, <1>9 DEF ProducerStep, EnqueueStep

\* what a consumer does,
LEMMA ConsumerKnows ==
  ASSUME TypeOK, LocalsKnown, NEW q, ListInv(q), NEW t \in Consumers, ConsumerStep(t)
  PROVE  KnownToConsumer(t)'
<1>1. LocalTypes /\ KnownToConsumer(t) /\ t \in Threads
  BY LocalsTyped, ConstantFacts DEF LocalsKnown, KnownToConsumer
<1> USE DEF LocalTypes, Goto, DequeueLabels, At, KnownToConsumer
<1>2. CASE TryDequeue(t) \/ MoveHead(t) \/ Free(t)
  BY <1>1, <1>2 DEF TryDequeue, MoveHead, Free, locals
<1>3. CASE ReadHead(t)
  <2>1. mHead \in NodePointers
    BY ListFacts
  <2> QED BY <1>1, <1>3, <2>1 DEF ReadHead
<1>4. CASE ReadHeadTail(t) \/ ReadHeadNext(t) \/ CopyData(t)
  BY <1>1, <1>4 DEF ReadHeadTail, ReadHeadNext, CopyData
<1>5. CASE SeemsEmpty(t) \/ CountDown(t)
  BY <1>1, <1>5 DEF SeemsEmpty, CountDown, Forget, locals
<1> QED BY <1>2, <1>3, <1>4, <1>5 DEF ConsumerStep, DequeueStep

\* and what all the calls know after the step of one.
LEMMA LocalsStep ==
  ASSUME TypeOK, LocalsKnown, Bounded, AppendsToList, NEW q, ListInv(q), NEW t \in Threads, ThreadStep(t)
  PROVE  LocalsKnown'
<1>1. LocalTypes /\ LocalTypes'
  BY LocalsTyped, TypesStep
<1>2. ASSUME NEW u \in Producers, u # t
      PROVE  KnownToProducer(u)'
  <2>1. KnownToProducer(u) /\ u \in Threads
    BY ConstantFacts DEF LocalsKnown, KnownToProducer
  <2>2. pc'[u] = pc[u] /\ newNode'[u] = newNode[u] /\ value'[u] = value[u] /\ localMyTail'[u] = localMyTail[u]
    BY <1>1, <1>2, <2>1, OthersStay
  <2>3. pc[u] \in {"tail", "link", "read_next", "help"}
          => Data'[newNode[u]] = Data[newNode[u]] /\ Next'[newNode[u]] = Next[newNode[u]]
    <3> HAVE pc[u] \in {"tail", "link", "read_next", "help"}
    <3>1. u \in Carrying /\ newNode[u] \in Nodes
      BY <1>2, <2>1, NodesUsed DEF Carrying
    <3>2. Fill(t) /\ t \in Producers => newNode[t] # newNode[u]
      <4> HAVE Fill(t) /\ t \in Producers
      <4>1. t \in Carrying
        BY DEF Fill, At, Carrying
      <4> QED BY <1>2, <3>1, <4>1, HandFacts
    <3>3. Fill(t) => t \in Producers
      BY <1>1 DEF ThreadStep, LocalsKnown, DequeueLabels, Fill, At
    <3>4. CASE Appends(t)
      <4>1. t \in Producers
        BY <1>1, <3>4 DEF ThreadStep, LocalsKnown, DequeueLabels, Appends, Link, At
      <4>2. Next' = [Next EXCEPT ![q[Len(q)][1]] = newTailHopeToChange(t)] /\ ~Fill(t)
        BY <3>4, <4>1, AppendFacts DEF Fill, At
      <4>3. newNode[u] # q[Len(q)][1]
        BY <3>1, HandFacts, ListFacts
      <4>4. Next'[newNode[u]] = Next[newNode[u]]
        BY <3>1, <4>2, <4>3 DEF TypeOK
      <4> QED BY <3>1, <4>2, <4>4, DataStays
    <3>5. CASE ~Appends(t)
      <4>1. \A n \in Nodes : ~(Fill(t) /\ n = newNode[t]) => Next'[n] = Next[n]
        BY <3>5, NextStays
      <4> QED BY <3>1, <3>2, <3>3, <4>1, DataStays
    <3> QED BY <3>4, <3>5
  <2> QED BY <2>1, <2>2, <2>3 DEF KnownToProducer
<1>3. ASSUME NEW u \in Consumers, u # t
      PROVE  KnownToConsumer(u)'
  <2>1. KnownToConsumer(u) /\ u \in Threads
    BY ConstantFacts DEF LocalsKnown, KnownToConsumer
  <2>2. pc'[u] = pc[u] /\ localMyHead'[u] = localMyHead[u]
    BY <1>1, <1>3, <2>1, OthersStay
  <2> QED BY <2>1, <2>2 DEF KnownToConsumer
<1>4. /\ t \in Producers => KnownToProducer(t)'
      /\ t \in Consumers => KnownToConsumer(t)'
  BY ProducerKnows, ConsumerKnows, ConstantFacts DEF ThreadStep
<1>5. /\ \A u \in Producers : KnownToProducer(u)'
      /\ \A u \in Consumers : KnownToConsumer(u)'
  BY <1>2, <1>3, <1>4
<1>6. pc' \in [Threads -> EnqueueLabels \cup DequeueLabels]
  BY <1>1 DEF LocalTypes
<1> QED BY <1>5, <1>6 DEF LocalsKnown, KnownToProducer, KnownToConsumer

----------------------------------------------------------------------------
(* The pool *)

\* The pool hands out a node and gets it back.
LEMMA PoolStep ==
  ASSUME TypeOK, LocalsKnown, PoolApart, NEW q, ListInv(q), NEW t \in Threads, ThreadStep(t)
  PROVE  PoolApart'
<1>1. pool \in Seq(Nodes) /\ mCapacity \in Nat /\ \A n \in Nodes : n \in Nat /\ n <= MaxNodes
  BY ConstantFacts, PointerFacts DEF TypeOK, Nodes
<1>2. CASE UNCHANGED <<pool, mCapacity>>
  BY <1>2 DEF PoolApart
<1>3. CASE pool # <<>> /\ pool' = Tail(pool) /\ UNCHANGED mCapacity
  <2>1. /\ Len(pool') = Len(pool) - 1 /\ Len(pool) \in Nat
        /\ \A i \in 1 .. Len(pool) - 1 : pool'[i] = pool[i + 1]
    BY <1>1, <1>3, TailOf
  <2>2. \A i \in 1 .. Len(pool') : i + 1 \in 1 .. Len(pool) /\ pool'[i] = pool[i + 1]
    BY <2>1
  <2>3. \A i \in 1 .. Len(pool') : pool'[i] <= mCapacity'
    BY <1>3, <2>2 DEF PoolApart
  <2>4. ASSUME NEW i \in 1 .. Len(pool'), NEW j \in 1 .. Len(pool'), pool'[i] = pool'[j]
        PROVE  i = j
    <3>1. i + 1 = j + 1
      BY <2>2, <2>4 DEF PoolApart
    <3> QED BY <3>1
  <2> QED BY <2>3, <2>4 DEF PoolApart
<1>4. CASE NewNode(t)
  <2>1. mCapacity' = mCapacity + 1 /\ UNCHANGED pool
    BY <1>4 DEF NewNode
  <2>2. \A i \in 1 .. Len(pool) : pool[i] \in Nat
    BY <1>1
  <2> QED BY <1>1, <2>1, <2>2 DEF PoolApart
<1>5. CASE Free(t) /\ t \in Consumers
  <2> DEFINE n == localMyHead[t][1]
  <2>1. t \in Freeing /\ pool' = <<n>> \o pool /\ UNCHANGED mCapacity
    BY <1>5 DEF Free, Freeing, At, getPurePointer
  <2>2. n \in Nodes /\ n \notin SpareNodes
    <3>1. t \in DOMAIN HandNodes /\ HandNodes[t] = n
      BY <2>1, HandFacts
    <3> QED BY <3>1 DEF ListInv, Placed, Apart
  <2>3. n <= mCapacity /\ \A i \in 1 .. Len(pool) : pool[i] # n
    <3>1. n \in Nat /\ n <= MaxNodes /\ MaxNodes \in Nat
      BY <1>1, <2>2, ConstantFacts
    <3> QED BY <1>1, <2>2, <3>1 DEF SpareNodes
  <2> HIDE DEF n
  <2>4. /\ Len(pool') = Len(pool) + 1 /\ Len(pool) \in Nat /\ pool'[1] = n
        /\ \A i \in 1 .. Len(pool) : pool'[i + 1] = pool[i]
    BY <1>1, <2>1, <2>2, Prepended, LengthZero
  <2>5. \A i \in 1 .. Len(pool') : i = 1 \/ (i - 1 \in 1 .. Len(pool) /\ pool'[i] = pool[i - 1])
    <3> TAKE i \in 1 .. Len(pool')
    <3>1. CASE i # 1
      <4>1. i - 1 \in 1 .. Len(pool) /\ i = (i - 1) + 1
        BY <2>4, <3>1
      <4>2. pool'[(i - 1) + 1] = pool[i - 1]
        BY <2>4, <4>1
      <4> QED BY <4>1, <4>2
    <3> QED BY <3>1
  <2>6. \A i \in 1 .. Len(pool') : pool'[i] <= mCapacity'
    BY <2>1, <2>3, <2>4, <2>5 DEF PoolApart
  <2>7. ASSUME NEW i \in 1 .. Len(pool'), NEW j \in 1 .. Len(pool'), pool'[i] = pool'[j]
        PROVE  i = j
    <3>1. CASE i = 1 \/ j = 1
      BY <2>3, <2>4, <2>5, <2>7, <3>1
    <3>2. CASE i # 1 /\ j # 1
      <4>1. i - 1 = j - 1
        BY <2>5, <2>7, <3>2 DEF PoolApart
      <4>2. i \in Int /\ j \in Int
        BY <2>4
      <4> QED BY <4>1, <4>2
    <3> QED BY <3>1, <3>2
  <2> QED BY <2>6, <2>7 DEF PoolApart
<1>6. CASE Alloc(t)
  BY <1>2, <1>3, <1>6 DEF Alloc
<1>7. CASE ~Alloc(t) /\ ~NewNode(t) /\ ~(Free(t) /\ t \in Consumers)
  <2>1. UNCHANGED <<pool, mCapacity>>
    BY <1>7 DEF ThreadStep, ProducerStep, ConsumerStep, EnqueueStep, DequeueStep, EnqueueId, Fill,
                ReadTail, Link, ReadNext, Help, Swing, CountUp, TryDequeue, ReadHead,
                ReadHeadTail, ReadHeadNext, SeemsEmpty, CopyData, MoveHead, CountDown, shared
  <2> QED BY <1>2, <2>1
<1> QED BY <1>4, <1>5, <1>6, <1>7

----------------------------------------------------------------------------
(* The list after a step *)

\* One node more, one less, or as it was.
LEMMA ListStep ==
  ASSUME TypeOK, LocalsKnown, HeadsTrue, AppendsToList, NEW q, ListInv(q),
         NEW t \in Threads, ThreadStep(t), NEW p, p = newTailHopeToChange(t)
  PROVE  /\ ~Appends(t) /\ ~Removes(t) => IsList(mHead', Next', q, NodePointers)
         /\ t \in Producers /\ Appends(t) => IsList(mHead', Next', Append(q, p), NodePointers)
         /\ t \in Consumers /\ Removes(t) => IsList(mHead', Next', Tail(q), NodePointers)
<1>1. IsList(mHead, Next, q, NodePointers) /\ q # <<>>
  BY DEF ListInv
<1>2. CASE ~Appends(t) /\ ~Removes(t)
  <2>1. mHead' = mHead /\ \A i \in 1 .. Len(q) : Next'[q[i][1]] = Next[q[i][1]]
    BY <1>2, NextStays
  <2> QED BY <1>1, <1>2, <2>1 DEF IsList
<1>3. CASE t \in Producers /\ Appends(t)
  <2>1. /\ Next' = [Next EXCEPT ![q[Len(q)][1]] = p] /\ mHead' = mHead
        /\ p \in NodePointers /\ p[1] = newNode[t] /\ newNode[t] \in Nodes
        /\ \A i \in 1 .. Len(q) : q[i][1] # newNode[t]
        /\ At(t, "link")
    BY <1>3, AppendFacts
  <2>2. DOMAIN Next = Nodes /\ \A i \in 1 .. Len(q) : q[i][1] \in Nodes
    BY ListFacts DEF TypeOK
  <2>3. Next[p[1]] = <<0, 0>>
    BY <1>3, <2>1, PointerFacts DEF LocalsKnown, At
  <2>4. p[1] \in DOMAIN Next /\ \A i \in 1 .. Len(q) : q[i][1] # p[1] /\ q[i][1] \in DOMAIN Next
    BY <2>1, <2>2
  <2>5. IsList(mHead, [Next EXCEPT ![q[Len(q)][1]] = p], Append(q, p), NodePointers)
    BY <1>1, <2>1, <2>3, <2>4, ListAppend
  <2> QED BY <1>3, <2>1, <2>5 DEF Removes, MoveHead, At
<1>4. CASE t \in Consumers /\ Removes(t)
  <2>1. mHead' = q[2] /\ Next' = Next /\ Len(q) >= 2
    BY <1>4, RemoveFacts
  <2>2. IsList(Next[mHead[1]], Next, Tail(q), NodePointers)
    BY <1>1, ListPop
  <2>3. Next[mHead[1]] = q[2]
    <3>1. /\ \A i \in 1 .. Len(q) : Next[q[i][1]] = IF i = Len(q) THEN Null ELSE q[i + 1]
          /\ mHead = q[1] /\ Len(q) \in Nat
      BY ListFacts
    <3>2. 1 \in 1 .. Len(q) /\ 1 # Len(q) /\ 1 + 1 = 2
      BY <2>1, <3>1
    <3>3. Next[q[1][1]] = q[1 + 1]
      BY <3>1, <3>2
    <3> QED BY <3>1, <3>2, <3>3
  <2>4. Next' = Next /\ mHead' = Next[mHead[1]]
    BY <2>1, <2>3
  <2>5. IsList(mHead', Next', Tail(q), NodePointers)
    BY <2>2, <2>4
  <2> QED BY <1>4, <2>5 DEF Appends, Link, Removes, MoveHead, At
<1> QED BY <1>2, <1>3, <1>4 DEF Appends, Removes

----------------------------------------------------------------------------
(* Where the nodes are *)

RowNodes(q) == { q[i][1] : i \in 1 .. Len(q) }

\* The nodes of a list that has become longer, or shorter.
LEMMA NodesOfParts ==
  ASSUME NEW q \in Seq(NodePointers), NEW p \in NodePointers
  PROVE  /\ NodesOf(Append(q, p)) = Append(NodesOf(q), p[1])
         /\ RowNodes(Append(q, p)) = RowNodes(q) \cup {p[1]}
         /\ q # <<>> => /\ NodesOf(Tail(q)) = Tail(NodesOf(q)) /\ NodesOf(q) # <<>>
                        /\ RowNodes(q) = RowNodes(Tail(q)) \cup {q[1][1]}
                        /\ NodesOf(q)[1] = q[1][1] /\ Head(NodesOf(q)) = q[1][1]
<1>1. \A s \in Seq(NodePointers) : /\ NodesOf(s) \in Seq(Nodes) /\ Len(NodesOf(s)) = Len(s)
                                   /\ \A i \in 1 .. Len(s) : NodesOf(s)[i] = s[i][1]
  <2> TAKE s \in Seq(NodePointers)
  <2>1. Len(s) \in Nat /\ \A i \in 1 .. Len(s) : s[i][1] \in Nodes
    BY PointerFacts
  <2>2. NodesOf(s) \in [1 .. Len(s) -> Nodes] /\ \A i \in 1 .. Len(s) : NodesOf(s)[i] = s[i][1]
    BY <2>1 DEF NodesOf
  <2> QED BY <2>1, <2>2, FunctionIsSeq
<1>2. p[1] \in Nodes
  BY PointerFacts
<1> DEFINE r == Append(q, p)
           a == NodesOf(q)
           b == Append(a, p[1])
<1>3. /\ r \in Seq(NodePointers) /\ Len(r) = Len(q) + 1 /\ Len(q) \in Nat
      /\ \A i \in 1 .. Len(q) : r[i] = q[i]
      /\ r[Len(q) + 1] = p
  BY Appended, LengthZero
<1>4. a \in Seq(Nodes) /\ Len(a) = Len(q) /\ \A i \in 1 .. Len(q) : a[i] = q[i][1]
  BY <1>1
<1>5. /\ b \in Seq(Nodes) /\ Len(b) = Len(q) + 1 /\ \A i \in 1 .. Len(q) : b[i] = a[i]
      /\ b[Len(q) + 1] = p[1]
  BY <1>2, <1>4, Appended
<1> HIDE DEF r, a, b
<1>6. NodesOf(r) = b
  <2>1. NodesOf(r) \in Seq(Nodes) /\ Len(NodesOf(r)) = Len(b)
    BY <1>1, <1>3, <1>5
  <2>2. \A i \in 1 .. Len(r) : NodesOf(r)[i] = r[i][1]
    BY <1>1, <1>3
  <2>3. \A i \in 1 .. Len(b) : i \in 1 .. Len(r) /\ (i = Len(q) + 1 \/ i \in 1 .. Len(q))
    BY <1>3, <1>5
  <2>4. \A i \in 1 .. Len(b) : NodesOf(r)[i] = b[i]
    <3> TAKE i \in 1 .. Len(b)
    <3>1. CASE i = Len(q) + 1
      BY <1>3, <1>5, <2>2, <2>3, <3>1
    <3>2. CASE i \in 1 .. Len(q)
      BY <1>3, <1>4, <1>5, <2>2, <2>3, <3>2
    <3> QED BY <2>3, <3>1, <3>2
  <2> QED BY <1>5, <2>1, <2>4, SameSequence
<1>7. RowNodes(r) = RowNodes(q) \cup {p[1]}
  <2>1. \A i \in 1 .. Len(r) : i = Len(q) + 1 \/ i \in 1 .. Len(q)
    BY <1>3
  <2>2. Len(q) + 1 \in 1 .. Len(r) /\ \A i \in 1 .. Len(q) : i \in 1 .. Len(r)
    BY <1>3
  <2> QED BY <1>3, <2>1, <2>2 DEF RowNodes
<1>8. ASSUME q # <<>>
      PROVE  /\ NodesOf(Tail(q)) = Tail(NodesOf(q)) /\ NodesOf(q) # <<>>
             /\ RowNodes(q) = RowNodes(Tail(q)) \cup {q[1][1]}
             /\ NodesOf(q)[1] = q[1][1] /\ Head(NodesOf(q)) = q[1][1]
  <2> DEFINE u == Tail(q)
             v == Tail(a)
  <2>1. /\ u \in Seq(NodePointers) /\ Len(u) = Len(q) - 1 /\ Len(q) \in Nat \ {0}
        /\ \A i \in 1 .. Len(q) - 1 : u[i] = q[i + 1]
    BY <1>8, TailOf
  <2>2. a # <<>>
    BY <1>4, <2>1
  <2>3. /\ v \in Seq(Nodes) /\ Len(v) = Len(q) - 1 /\ Head(a) = a[1]
        /\ \A i \in 1 .. Len(q) - 1 : v[i] = a[i + 1]
    BY <1>4, <2>2, TailOf
  <2> HIDE DEF u, v
  <2>4. \A i \in 1 .. Len(q) - 1 : i + 1 \in 1 .. Len(q)
    BY <2>1
  <2>5. NodesOf(u) = v
    <3>1. NodesOf(u) \in Seq(Nodes) /\ Len(NodesOf(u)) = Len(v)
      BY <1>1, <2>1, <2>3
    <3>2. \A i \in 1 .. Len(v) : NodesOf(u)[i] = u[i][1]
      BY <1>1, <2>1, <2>3
    <3>3. \A i \in 1 .. Len(v) : NodesOf(u)[i] = v[i]
      BY <1>4, <2>1, <2>3, <2>4, <3>2
    <3> QED BY <2>3, <3>1, <3>3, SameSequence
  <2>6. RowNodes(q) = RowNodes(u) \cup {q[1][1]}
    <3>1. ASSUME NEW i \in 1 .. Len(q)
          PROVE  q[i][1] \in RowNodes(u) \cup {q[1][1]}
      <4>1. CASE i # 1
        <5>1. i - 1 \in 1 .. Len(u) /\ i - 1 \in 1 .. Len(q) - 1 /\ (i - 1) + 1 = i
          BY <2>1, <4>1
        <5>2. u[i - 1] = q[(i - 1) + 1]
          BY <2>1, <5>1
        <5>3. u[i - 1] = q[i]
          BY <5>1, <5>2
        <5> QED BY <5>1, <5>3 DEF RowNodes
      <4> QED BY <4>1
    <3>2. \A i \in 1 .. Len(u) : i + 1 \in 1 .. Len(q) /\ u[i] = q[i + 1]
      BY <2>1
    <3>3. 1 \in 1 .. Len(q)
      BY <2>1
    <3> QED BY <3>1, <3>2, <3>3 DEF RowNodes
  <2>7. a[1] = q[1][1]
    BY <1>4, <2>1
  <2> QED BY <2>2, <2>3, <2>5, <2>6, <2>7 DEF u, v, a
<1> QED BY <1>6, <1>7, <1>8 DEF r, a, b

\* The nodes that nobody uses.
LEMMA SpareMove ==
  ASSUME TypeOK, LocalsKnown, Bounded, PoolApart, NEW t \in Threads
  PROVE  /\ Alloc(t) /\ pool # <<>>
              => Head(pool) \in SpareNodes /\ SpareNodes' = SpareNodes \ {Head(pool)}
         /\ NewNode(t) /\ t \in Producers
              => mCapacity + 1 \in SpareNodes /\ SpareNodes' = SpareNodes \ {mCapacity + 1}
         /\ Free(t) => SpareNodes' = SpareNodes \cup {localMyHead[t][1]}
         /\ UNCHANGED <<pool, mCapacity>> => SpareNodes' = SpareNodes
<1>1. /\ pool \in Seq(Nodes) /\ mCapacity \in Nat /\ MaxNodes \in Nat /\ Len(pool) \in Nat
      /\ \A i \in 1 .. Len(pool) : pool[i] \in Nodes /\ pool[i] \in Nat /\ pool[i] <= mCapacity
  <2>1. pool \in Seq(Nodes) /\ mCapacity \in Nodes
    BY DEF TypeOK
  <2>2. Len(pool) \in Nat /\ \A i \in 1 .. Len(pool) : pool[i] \in Nodes
    BY <2>1, LengthZero, ElementOf
  <2>3. \A i \in 1 .. Len(pool) : pool[i] <= mCapacity
    BY DEF PoolApart
  <2>4. \A n \in Nodes : n \in Nat
    BY PointerFacts
  <2>5. MaxNodes \in Nat
    BY ConstantFacts
  <2> QED BY <2>1, <2>2, <2>3, <2>4, <2>5
<1>2. ASSUME Alloc(t), pool # <<>>
      PROVE  Head(pool) \in SpareNodes /\ SpareNodes' = SpareNodes \ {Head(pool)}
  <2>1. pool' = Tail(pool) /\ mCapacity' = mCapacity
    BY <1>2 DEF Alloc
  <2>2. /\ Len(Tail(pool)) = Len(pool) - 1 /\ Len(pool) \in Nat \ {0} /\ Head(pool) = pool[1]
        /\ \A i \in 1 .. Len(pool) - 1 : Tail(pool)[i] = pool[i + 1]
    BY <1>1, <1>2, TailOf
  <2>3. 1 \in 1 .. Len(pool) /\ pool[1] <= mCapacity /\ pool[1] \in Nat
    BY <1>1, <2>2
  <2>4. { pool'[i] : i \in 1 .. Len(pool') } = { pool[i] : i \in 1 .. Len(pool) } \ {pool[1]}
    <3>1. ASSUME NEW i \in 1 .. Len(pool), i # 1
          PROVE  pool[i] # pool[1] /\ \E j \in 1 .. Len(pool') : pool'[j] = pool[i]
      <4>1. i - 1 \in 1 .. Len(pool) - 1 /\ (i - 1) + 1 = i
        BY <2>2, <3>1
      <4>2. Tail(pool)[i - 1] = pool[(i - 1) + 1]
        BY <2>2, <4>1
      <4>3. i - 1 \in 1 .. Len(pool') /\ pool'[i - 1] = pool[i]
        BY <2>1, <2>2, <4>1, <4>2
      <4> QED BY <2>3, <3>1, <4>3 DEF PoolApart
    <3>2. \A j \in 1 .. Len(pool') : j + 1 \in 1 .. Len(pool) /\ j + 1 # 1 /\ pool'[j] = pool[j + 1]
      BY <2>1, <2>2
    <3>3. \A j \in 1 .. Len(pool') : pool'[j] # pool[1]
      BY <3>1, <3>2
    <3>4. \A e \in { pool'[i] : i \in 1 .. Len(pool') } : e \in { pool[i] : i \in 1 .. Len(pool) } \ {pool[1]}
      BY <3>2, <3>3
    <3>5. \A e \in { pool[i] : i \in 1 .. Len(pool) } \ {pool[1]} : e \in { pool'[i] : i \in 1 .. Len(pool') }
      <4> TAKE e \in { pool[i] : i \in 1 .. Len(pool) } \ {pool[1]}
      <4>1. PICK i \in 1 .. Len(pool) : e = pool[i]
        OBVIOUS
      <4>2. i # 1
        BY <4>1
      <4>3. PICK j \in 1 .. Len(pool') : pool'[j] = pool[i]
        BY <3>1, <4>2
      <4> QED BY <4>1, <4>3
    <3> QED BY <3>4, <3>5
  <2>5. pool[1] \notin mCapacity + 1 .. MaxNodes
    BY <1>1, <2>3
  <2> QED BY <2>1, <2>2, <2>3, <2>4, <2>5 DEF SpareNodes
<1>3. ASSUME NewNode(t), t \in Producers
      PROVE  mCapacity + 1 \in SpareNodes /\ SpareNodes' = SpareNodes \ {mCapacity + 1}
  <2>1. mCapacity' = mCapacity + 1 /\ pool' = pool /\ t \in Getting
    BY <1>3 DEF NewNode, Getting, At
  <2>2. mCapacity + 1 <= MaxNodes
    BY <2>1, RoomForNode
  <2>3. mCapacity + 1 .. MaxNodes = (mCapacity + 1 + 1 .. MaxNodes) \cup {mCapacity + 1}
    BY <1>1, <2>2
  <2>4. \A i \in 1 .. Len(pool) : pool[i] # mCapacity + 1
    BY <1>1
  <2>5. mCapacity + 1 \notin (mCapacity + 1 + 1 .. MaxNodes)
    BY <1>1
  <2> QED BY <2>1, <2>3, <2>4, <2>5 DEF SpareNodes
<1>4. ASSUME Free(t)
      PROVE  SpareNodes' = SpareNodes \cup {localMyHead[t][1]}
  <2>1. PICK n : n = localMyHead[t][1]
    OBVIOUS
  <2>2. pool' = <<n>> \o pool /\ mCapacity' = mCapacity
    BY <1>4, <2>1 DEF Free, getPurePointer
  <2>3. CASE n \in Nodes
    <3>1. /\ Len(pool') = Len(pool) + 1 /\ pool'[1] = n
          /\ \A i \in 1 .. Len(pool) : pool'[i + 1] = pool[i]
      BY <1>1, <2>2, <2>3, Prepended
    <3>2. \A i \in 1 .. Len(pool') : i = 1 \/ (i - 1 \in 1 .. Len(pool) /\ pool'[i] = pool[i - 1])
      <4> TAKE i \in 1 .. Len(pool')
      <4>1. CASE i # 1
        <5>1. i - 1 \in 1 .. Len(pool) /\ i = (i - 1) + 1
          BY <1>1, <3>1, <4>1
        <5>2. pool'[(i - 1) + 1] = pool[i - 1]
          BY <3>1, <5>1
        <5> QED BY <5>1, <5>2
      <4> QED BY <4>1
    <3>3. \A i \in 1 .. Len(pool) : i + 1 \in 1 .. Len(pool')
      BY <1>1, <3>1
    <3>4. 1 \in 1 .. Len(pool')
      BY <1>1, <3>1
    <3>5. { pool'[i] : i \in 1 .. Len(pool') } = { pool[i] : i \in 1 .. Len(pool) } \cup {n}
      <4>1. \A i \in 1 .. Len(pool') : pool'[i] \in { pool[j] : j \in 1 .. Len(pool) } \cup {n}
        BY <3>1, <3>2
      <4>2. \A i \in 1 .. Len(pool) : pool[i] \in { pool'[j] : j \in 1 .. Len(pool') }
        <5> TAKE i \in 1 .. Len(pool)
        <5>1. i + 1 \in 1 .. Len(pool') /\ pool'[i + 1] = pool[i]
          BY <3>1, <3>3
        <5> QED BY <5>1
      <4>3. n \in { pool'[j] : j \in 1 .. Len(pool') }
        BY <3>1, <3>4
      <4> QED BY <4>1, <4>2, <4>3
    <3> QED BY <2>1, <2>2, <3>5 DEF SpareNodes
  <2>4. n \in Nodes
    <3>1. At(t, "d_free") /\ t \in Consumers
      BY <1>4 DEF Free, At, LocalsKnown, EnqueueLabels, Threads
    <3> QED BY <2>1, <3>1, PointerFacts DEF LocalsKnown, At
  <2> QED BY <2>3, <2>4
<1>5. UNCHANGED <<pool, mCapacity>> => SpareNodes' = SpareNodes
  BY DEF SpareNodes
<1> QED BY <1>2, <1>3, <1>4, <1>5

\* A call takes a spare node.
LEMMA PlacedTake ==
  ASSUME NEW q, ListInv(q), NEW t, t \notin DOMAIN HandNodes, NEW e \in SpareNodes,
         SpareNodes' = SpareNodes \ {e}, HandNodes' = With(HandNodes, t, e)
  PROVE  Placed(q)'
<1>1. /\ Apart(Nodes, SpareNodes, HandNodes, NodesOf(q))
      /\ Nodes = Off(SpareNodes, HandNodes) \cup RowNodes(q)
  BY DEF ListInv, Placed, RowNodes
<1> DEFINE row == NodesOf(q)
<1>2. Apart(Nodes, SpareNodes, HandNodes, row)
  BY <1>1
<1> HIDE DEF row
<1>3. /\ Apart(Nodes, SpareNodes \ {e}, With(HandNodes, t, e), row)
      /\ Off(SpareNodes \ {e}, With(HandNodes, t, e)) = Off(SpareNodes, HandNodes)
  BY <1>2, ApartTake
<1>4. Apart(Nodes, SpareNodes', HandNodes', row) /\ Off(SpareNodes', HandNodes') = Off(SpareNodes, HandNodes)
  BY <1>3
<1> QED BY <1>1, <1>4 DEF Placed, RowNodes, row

\* A call gives its node back.
LEMMA PlacedGive ==
  ASSUME NEW q, ListInv(q), NEW t \in DOMAIN HandNodes,
         SpareNodes' = SpareNodes \cup {HandNodes[t]}, HandNodes' = Without(HandNodes, t)
  PROVE  Placed(q)'
<1>1. /\ Apart(Nodes, SpareNodes, HandNodes, NodesOf(q))
      /\ Nodes = Off(SpareNodes, HandNodes) \cup RowNodes(q)
  BY DEF ListInv, Placed, RowNodes
<1> DEFINE row == NodesOf(q)
<1>2. Apart(Nodes, SpareNodes, HandNodes, row)
  BY <1>1
<1> HIDE DEF row
<1>3. /\ Apart(Nodes, SpareNodes \cup {HandNodes[t]}, Without(HandNodes, t), row)
      /\ Off(SpareNodes \cup {HandNodes[t]}, Without(HandNodes, t)) = Off(SpareNodes, HandNodes)
  BY <1>2, ApartGive
<1>4. Apart(Nodes, SpareNodes', HandNodes', row) /\ Off(SpareNodes', HandNodes') = Off(SpareNodes, HandNodes)
  BY <1>3
<1> QED BY <1>1, <1>4 DEF Placed, RowNodes, row

\* A step moves at most one node, and every node stays in one place.
LEMMA PlacedStep ==
  ASSUME TypeOK, LocalsKnown, Bounded, PoolApart, HeadsTrue, AppendsToList, NEW q, ListInv(q),
         NEW t \in Threads, ThreadStep(t), NEW p, p = newTailHopeToChange(t)
  PROVE  /\ ~Appends(t) /\ ~Removes(t) => Placed(q)'
         /\ t \in Producers /\ Appends(t) => Placed(Append(q, p))'
         /\ t \in Consumers /\ Removes(t) => Placed(Tail(q))'
<1> DEFINE Holding == Carrying \cup Freeing
<1>1. /\ Apart(Nodes, SpareNodes, HandNodes, NodesOf(q))
      /\ Nodes = Off(SpareNodes, HandNodes) \cup RowNodes(q)
  BY DEF ListInv, Placed, RowNodes
<1>2. /\ LocalTypes /\ DOMAIN HandNodes = Holding /\ Carrying \cap Freeing = {}
      /\ q \in Seq(NodePointers) /\ q # <<>>
  BY LocalsTyped, HandFacts, ListFacts
<1>3. t \in Producers => t \notin Consumers
  BY ConstantFacts
<1>4. /\ t \notin Holding /\ t \notin Holding' => HandNodes' = HandNodes
      /\ t \in Holding /\ t \in Holding' /\ NodeOf(t)' = NodeOf(t) => HandNodes' = HandNodes
      /\ t \notin Holding /\ t \in Holding' => HandNodes' = With(HandNodes, t, NodeOf(t)')
      /\ t \in Holding /\ t \notin Holding' => HandNodes' = Without(HandNodes, t)
  BY <1>2, NodesMove
<1> USE DEF At, Goto, LocalTypes
<1>5. ASSUME SpareNodes' = SpareNodes, HandNodes' = HandNodes
      PROVE  Placed(q)'
  BY <1>1, <1>5 DEF Placed, RowNodes
<1>6. CASE Alloc(t) /\ pool # <<>> /\ t \in Producers
  <2>1. Head(pool) \in SpareNodes /\ SpareNodes' = SpareNodes \ {Head(pool)}
    BY <1>6, SpareMove
  <2>2. t \notin Holding /\ t \in Carrying' /\ NodeOf(t)' = Head(pool)
    BY <1>2, <1>3, <1>6 DEF Alloc, Carrying, Freeing, NodeOf
  <2>3. HandNodes' = With(HandNodes, t, Head(pool))
    BY <1>4, <2>2
  <2>4. t \notin DOMAIN HandNodes
    BY <1>2, <2>2
  <2>5. Placed(q)'
    BY <2>1, <2>3, <2>4, PlacedTake
  <2> QED BY <1>6, <2>5 DEF Appends, Removes, Alloc, Link, MoveHead
<1>7. CASE NewNode(t) /\ t \in Producers
  <2>1. mCapacity + 1 \in SpareNodes /\ SpareNodes' = SpareNodes \ {mCapacity + 1}
    BY <1>7, SpareMove
  <2>2. t \notin Holding /\ t \in Carrying' /\ NodeOf(t)' = mCapacity + 1
    BY <1>2, <1>3, <1>7 DEF NewNode, Carrying, Freeing, NodeOf
  <2>3. HandNodes' = With(HandNodes, t, mCapacity + 1)
    BY <1>4, <2>2
  <2>4. t \notin DOMAIN HandNodes
    BY <1>2, <2>2
  <2>5. Placed(q)'
    BY <2>1, <2>3, <2>4, PlacedTake
  <2> QED BY <1>7, <2>5 DEF Appends, Removes, NewNode, Link, MoveHead
<1>8. CASE Free(t) /\ t \in Consumers
  <2>1. SpareNodes' = SpareNodes \cup {localMyHead[t][1]}
    BY <1>8, SpareMove
  <2>2. t \in Freeing /\ t \notin Holding' /\ HandNodes[t] = localMyHead[t][1]
    <3>1. t \in Freeing
      BY <1>8 DEF Free, Freeing
    <3>2. t \notin Carrying'
      BY <1>3, <1>8 DEF Carrying
    <3>3. t \notin Freeing'
      BY <1>2, <1>8 DEF Free, Freeing
    <3> QED BY <3>1, <3>2, <3>3, HandFacts
  <2>3. HandNodes' = Without(HandNodes, t) /\ SpareNodes' = SpareNodes \cup {HandNodes[t]}
    BY <1>4, <2>1, <2>2
  <2>4. t \in DOMAIN HandNodes
    BY <1>2, <2>2
  <2>5. Placed(q)'
    BY <2>3, <2>4, PlacedGive
  <2> QED BY <1>8, <2>5 DEF Appends, Removes, Free, Link, MoveHead
<1>9. CASE t \in Producers /\ Appends(t)
  <2>1. /\ t \in Carrying /\ t \notin Carrying' /\ p \in NodePointers /\ p[1] = newNode[t]
        /\ UNCHANGED <<pool, mCapacity>> /\ At(t, "link")
    BY <1>9, AppendFacts
  <2>2. SpareNodes' = SpareNodes
    BY <2>1 DEF SpareNodes
  <2>3. t \in Holding /\ t \notin Holding'
    BY <1>3, <1>9, <2>1 DEF Freeing
  <2>4. HandNodes' = Without(HandNodes, t) /\ HandNodes[t] = p[1] /\ t \in DOMAIN HandNodes
    BY <1>2, <1>4, <2>1, <2>3, HandFacts
  <2>5. /\ Apart(Nodes, SpareNodes, Without(HandNodes, t), Append(NodesOf(q), HandNodes[t]))
        /\ HandNodes[t] \in Off(SpareNodes, HandNodes) /\ HandNodes[t] \in Nodes
        /\ Off(SpareNodes, Without(HandNodes, t)) = Off(SpareNodes, HandNodes) \ {HandNodes[t]}
    BY <1>1, <2>4, ApartAppend
  <2>6. /\ NodesOf(Append(q, p)) = Append(NodesOf(q), p[1])
        /\ RowNodes(Append(q, p)) = RowNodes(q) \cup {p[1]}
    BY <1>2, <2>1, NodesOfParts
  <2>7. Apart(Nodes, SpareNodes', HandNodes', NodesOf(Append(q, p)))
    BY <2>2, <2>4, <2>5, <2>6
  <2>8. Nodes = Off(SpareNodes', HandNodes') \cup RowNodes(Append(q, p))
    BY <1>1, <2>2, <2>4, <2>5, <2>6
  <2>9. Placed(Append(q, p))'
    BY <2>7, <2>8 DEF Placed, RowNodes
  <2> QED BY <1>9, <2>1, <2>9 DEF Removes, MoveHead
<1>10. CASE t \in Consumers /\ Removes(t)
  <2>1. /\ t \notin Freeing /\ t \in Freeing' /\ localMyHead[t] = q[1] /\ UNCHANGED <<pool, mCapacity, locals>>
        /\ At(t, "d_cas")
    BY <1>10, RemoveFacts
  <2>2. SpareNodes' = SpareNodes
    BY <2>1 DEF SpareNodes
  <2>3. t \notin Holding /\ t \in Holding' /\ t \notin Carrying'
    BY <1>3, <1>10, <2>1 DEF Carrying
  <2>4. /\ NodesOf(Tail(q)) = Tail(NodesOf(q)) /\ NodesOf(q) # <<>>
        /\ RowNodes(q) = RowNodes(Tail(q)) \cup {q[1][1]}
        /\ NodesOf(q)[1] = q[1][1] /\ Head(NodesOf(q)) = q[1][1]
    <3>1. mHead \in NodePointers
      BY ListFacts
    <3> QED BY <1>2, <3>1, NodesOfParts
  <2>5. NodeOf(t)' = NodesOf(q)[1]
    BY <2>1, <2>3, <2>4 DEF NodeOf, locals
  <2>6. HandNodes' = With(HandNodes, t, NodesOf(q)[1])
    BY <1>4, <2>3, <2>5
  <2>7. /\ Apart(Nodes, SpareNodes, With(HandNodes, t, NodesOf(q)[1]), Tail(NodesOf(q)))
        /\ Off(SpareNodes, With(HandNodes, t, NodesOf(q)[1]))
             = Off(SpareNodes, HandNodes) \cup {Head(NodesOf(q))}
    <3>1. t \notin DOMAIN HandNodes
      BY <1>2, <2>3
    <3> DEFINE row == NodesOf(q)
    <3>2. Apart(Nodes, SpareNodes, HandNodes, row) /\ row # <<>>
      BY <1>1, <2>4
    <3> HIDE DEF row
    <3>3. /\ Apart(Nodes, SpareNodes, With(HandNodes, t, row[1]), Tail(row))
          /\ Off(SpareNodes, With(HandNodes, t, row[1])) = Off(SpareNodes, HandNodes) \cup {Head(row)}
      BY <3>1, <3>2, ApartPop
    <3> QED BY <3>3 DEF row
  <2>8. Apart(Nodes, SpareNodes', HandNodes', NodesOf(Tail(q)))
    BY <2>2, <2>4, <2>6, <2>7
  <2>9. Nodes = Off(SpareNodes', HandNodes') \cup RowNodes(Tail(q))
    BY <1>1, <2>2, <2>4, <2>6, <2>7
  <2>10. Placed(Tail(q))'
    BY <2>8, <2>9 DEF Placed, RowNodes
  <2> QED BY <1>10, <2>1, <2>10 DEF Appends, Link
<1>11. CASE ~Appends(t) /\ ~Removes(t) /\ ~(Alloc(t) /\ pool # <<>>) /\ ~NewNode(t) /\ ~Free(t)
  <2>1. UNCHANGED <<pool, mCapacity>>
    BY <1>11 DEF ThreadStep, ProducerStep, ConsumerStep, EnqueueStep, DequeueStep, EnqueueId, Fill, Alloc,
                ReadTail, Link, ReadNext, Help, Swing, CountUp, TryDequeue, ReadHead,
                ReadHeadTail, ReadHeadNext, SeemsEmpty, CopyData, MoveHead, CountDown, shared
  <2>2. SpareNodes' = SpareNodes
    BY <2>1 DEF SpareNodes
  <2>3. CASE t \in Producers /\ ProducerStep(t)
    <3>1. t \notin Freeing /\ t \notin Freeing'
      BY <1>3, <2>3 DEF Freeing
    <3>2. (t \in Carrying <=> t \in Carrying') /\ (t \in Carrying => newNode'[t] = newNode[t])
      <4>1. CASE EnqueueId(t) \/ ReadTail(t) \/ ReadNext(t)
        BY <1>2, <2>3, <4>1 DEF EnqueueId, ReadTail, ReadNext, Carrying
      <4>2. CASE Alloc(t) /\ pool = <<>>
        BY <1>2, <2>3, <4>2 DEF Alloc, Carrying
      <4>3. CASE Fill(t) \/ Help(t) \/ Swing(t)
        BY <1>2, <2>3, <4>3 DEF Fill, Help, Swing, Carrying, locals
      <4>4. CASE Link(t)
        BY <1>2, <1>11, <2>3, <4>4 DEF Link, Appends, Carrying, locals
      <4>5. CASE CountUp(t)
        BY <1>2, <2>3, <4>5 DEF CountUp, Carrying
      <4> QED BY <1>11, <2>3, <4>1, <4>2, <4>3, <4>4, <4>5 DEF ProducerStep, EnqueueStep
    <3>3. HandNodes' = HandNodes
      BY <1>4, <3>1, <3>2 DEF NodeOf
    <3>4. Placed(q)'
      BY <1>5, <2>2, <3>3
    <3> QED BY <1>11, <3>4
  <2>4. CASE t \in Consumers /\ ConsumerStep(t)
    <3>1. t \notin Carrying /\ t \notin Carrying'
      BY <1>3, <2>4 DEF Carrying
    <3>2. t \notin Freeing /\ t \notin Freeing'
      <4>1. CASE TryDequeue(t) \/ ReadHead(t) \/ ReadHeadTail(t) \/ ReadHeadNext(t)
        BY <1>2, <2>4, <4>1 DEF TryDequeue, ReadHead, ReadHeadTail, ReadHeadNext, Freeing
      <4>2. CASE SeemsEmpty(t) \/ CopyData(t) \/ CountDown(t)
        BY <1>2, <2>4, <4>2 DEF SeemsEmpty, CopyData, CountDown, Freeing
      <4>3. CASE MoveHead(t)
        BY <1>2, <1>11, <2>4, <4>3 DEF MoveHead, Removes, Freeing
      <4> QED BY <1>11, <2>4, <4>1, <4>2, <4>3 DEF ConsumerStep, DequeueStep
    <3>3. HandNodes' = HandNodes
      BY <1>4, <3>1, <3>2
    <3>4. Placed(q)'
      BY <1>5, <2>2, <3>3
    <3> QED BY <1>11, <3>4
  <2> QED BY <1>11, <2>3, <2>4 DEF ThreadStep
<1>12. /\ Alloc(t) \/ NewNode(t) => t \in Producers
       /\ Free(t) => t \in Consumers
       /\ Appends(t) => t \in Producers
       /\ Removes(t) => t \in Consumers
  <2>1. t \in Producers => pc[t] \in EnqueueLabels
    BY DEF LocalsKnown
  <2>2. t \in Consumers => pc[t] \in DequeueLabels
    BY DEF LocalsKnown
  <2> QED BY <2>1, <2>2 DEF Alloc, NewNode, Free, Appends, Removes, Link, MoveHead, Threads, EnqueueLabels, DequeueLabels
<1> QED BY <1>6, <1>7, <1>8, <1>9, <1>10, <1>11, <1>12

----------------------------------------------------------------------------
(* What the calls have read *)

\* The calls that go by what they read of mTail, and those that go by what they read of mHead.
TailLabels == {"link", "read_next", "help", "swing"}
HeadLabels == {"d_tail", "d_next", "d_test", "d_cas"}

\* mTail stays or goes on to the next node.
LEMMA TailMoves ==
  ASSUME TypeOK, LocalsKnown, TailsTrue, NEW t \in Threads, ThreadStep(t)
  PROVE  \/ mTail' = mTail
         \/ /\ mTail' = Next[mTail[1]] /\ mTail' # Null /\ UNCHANGED <<mHead, Next, Data, mCount, locals>>
            /\ t \in Producers /\ pc'[t] \in {"tail", "count"} /\ ~Appends(t) /\ ~Removes(t)
<1>1. LocalTypes /\ (t \in Producers => t \notin Consumers)
  BY LocalsTyped, ConstantFacts
<1>2. CASE Help(t) \/ Swing(t)
  <2>1. t \in Producers
    <3>1. t \in Consumers => pc[t] \in DequeueLabels
      BY DEF LocalsKnown
    <3> QED BY <1>2, <3>1 DEF DequeueLabels, Help, Swing, At, Threads
  <2>2. CASE mTail = localMyTail[t]
    <3>1. /\ pc[t] \in {"help", "swing"} => Next[mTail[1]] # Null
          /\ pc[t] = "help" => localMyNext[t] = Next[mTail[1]]
          /\ pc[t] = "swing" => newTailHopeToChange(t) = Next[mTail[1]]
      BY <2>1, <2>2 DEF TailsTrue
    <3> QED BY <1>1, <1>2, <2>1, <2>2, <3>1 DEF Help, Swing, SwingTail, At, Goto, LocalTypes,
                                               Appends, Removes, Link, MoveHead
  <2>3. CASE mTail # localMyTail[t]
    BY <1>2, <2>3 DEF Help, Swing, SwingTail
  <2> QED BY <2>2, <2>3
<1>3. CASE ~Help(t) /\ ~Swing(t)
  BY <1>3 DEF ThreadStep, ProducerStep, ConsumerStep, EnqueueStep, DequeueStep, EnqueueId, Alloc, NewNode,
              Fill, ReadTail, Link, ReadNext, CountUp, TryDequeue, ReadHead, ReadHeadTail, ReadHeadNext,
              SeemsEmpty, CopyData, MoveHead, Free, CountDown, shared
<1> QED BY <1>2, <1>3

\* What a call knows of mTail and mHead it knew before, or has just read it.
LEMMA EndsRead ==
  ASSUME TypeOK, LocalsKnown, NEW t \in Threads, ThreadStep(t)
  PROVE  /\ \A u \in Producers : pc'[u] \in TailLabels =>
              \/ pc[u] \in TailLabels /\ localMyTail'[u] = localMyTail[u]
              \/ localMyTail'[u] = mTail /\ u = t /\ ReadTail(t)
         /\ \A u \in Consumers : pc'[u] \in HeadLabels =>
              \/ pc[u] \in HeadLabels /\ localMyHead'[u] = localMyHead[u]
              \/ localMyHead'[u] = mHead /\ u = t /\ ReadHead(t)
<1>1. LocalTypes /\ \A u \in Producers \cup Consumers : u \in Threads
  BY LocalsTyped, ConstantFacts
<1> USE DEF LocalTypes, Goto, At, TailLabels, HeadLabels, locals
<1>2. ASSUME NEW u \in Producers, pc'[u] \in TailLabels
      PROVE  \/ pc[u] \in TailLabels /\ localMyTail'[u] = localMyTail[u]
             \/ localMyTail'[u] = mTail /\ u = t /\ ReadTail(t)
  <2>1. CASE u # t
    BY <1>1, <1>2, <2>1, OthersStay
  <2>2. CASE u = t
    <3>1. t \notin Consumers
      BY <2>2, ConstantFacts
    <3>2. CASE EnqueueId(t) \/ Alloc(t) \/ NewNode(t) \/ Fill(t)
      BY <1>1, <1>2, <2>2, <3>2 DEF EnqueueId, Alloc, NewNode, Fill
    <3>3. CASE ReadTail(t) \/ Link(t) \/ ReadNext(t)
      BY <1>1, <1>2, <2>2, <3>3 DEF ReadTail, Link, ReadNext
    <3>4. CASE Help(t) \/ Swing(t) \/ CountUp(t)
      BY <1>1, <1>2, <2>2, <3>4 DEF Help, Swing, CountUp
    <3> QED BY <3>1, <3>2, <3>3, <3>4 DEF ThreadStep, ProducerStep, EnqueueStep
  <2> QED BY <2>1, <2>2
<1>3. ASSUME NEW u \in Consumers, pc'[u] \in HeadLabels
      PROVE  \/ pc[u] \in HeadLabels /\ localMyHead'[u] = localMyHead[u]
             \/ localMyHead'[u] = mHead /\ u = t /\ ReadHead(t)
  <2>1. CASE u # t
    BY <1>1, <1>3, <2>1, OthersStay
  <2>2. CASE u = t
    <3>1. t \notin Producers
      BY <2>2, ConstantFacts
    <3>2. CASE TryDequeue(t) \/ ReadHead(t) \/ ReadHeadTail(t) \/ ReadHeadNext(t)
      BY <1>1, <1>3, <2>2, <3>2 DEF TryDequeue, ReadHead, ReadHeadTail, ReadHeadNext
    <3>3. CASE SeemsEmpty(t)
      BY <1>1, <1>3, <2>2, <3>3 DEF SeemsEmpty
    <3>4. CASE CopyData(t) \/ MoveHead(t)
      BY <1>1, <1>3, <2>2, <3>4 DEF CopyData, MoveHead
    <3>5. CASE Free(t) \/ CountDown(t)
      BY <1>1, <1>3, <2>2, <3>5 DEF Free, CountDown
    <3> QED BY <3>1, <3>2, <3>3, <3>4, <3>5 DEF ThreadStep, ConsumerStep, DequeueStep
  <2> QED BY <2>1, <2>2
<1> QED BY <1>2, <1>3

\* The list without its first, and with one more.
LEMMA RowFacts ==
  ASSUME NEW q \in Seq(NodePointers), q # <<>>, NEW p \in NodePointers
  PROVE  /\ Len(Append(q, p)) = Len(q) + 1 /\ Len(q) \in Nat \ {0}
         /\ \A i \in 1 .. Len(q) : Append(q, p)[i] = q[i]
         /\ Append(q, p)[Len(q) + 1] = p
         /\ Len(Tail(q)) = Len(q) - 1
         /\ \A i \in 1 .. Len(q) - 1 : Tail(q)[i] = q[i + 1]
<1>1. Append(q, p) \in Seq(NodePointers) /\ Len(Append(q, p)) = Len(q) + 1
  BY Appended
<1> QED BY <1>1, Appended, TailOf

\* mTail stays in the list, and what was read of it is not further on.
LEMMA TailInStep ==
  ASSUME TypeOK, LocalsKnown, TailsTrue, HeadsTrue, Undisturbed, NEW q, ListInv(q),
         NEW t \in Threads, ThreadStep(t), NEW p, p = newTailHopeToChange(t)
  PROVE  /\ ~Appends(t) /\ ~Removes(t) => TailIn(q)'
         /\ t \in Producers /\ Appends(t) => TailIn(Append(q, p))'
         /\ t \in Consumers /\ Removes(t) => TailIn(Tail(q))'
<1>1. PICK j \in 1 .. Len(q) :
        /\ mTail = q[j]
        /\ \A u \in Producers : pc[u] \in TailLabels => \A i \in j + 1 .. Len(q) : q[i] # localMyTail[u]
  BY DEF ListInv, TailIn, TailLabels
<1>2. /\ q \in Seq(NodePointers) /\ Len(q) \in Nat \ {0} /\ q # <<>> /\ mHead = q[1]
      /\ \A i, k \in 1 .. Len(q) : q[i] = q[k] => i = k
      /\ Next[q[j][1]] = IF j = Len(q) THEN Null ELSE q[j + 1]
  BY ListFacts
<1>3. \A u \in Producers : pc'[u] \in TailLabels => \A i \in j + 1 .. Len(q) : q[i] # localMyTail'[u]
  <2> TAKE u \in Producers
  <2> HAVE pc'[u] \in TailLabels
  <2> TAKE i \in j + 1 .. Len(q)
  <2>1. i \in 1 .. Len(q) /\ i # j
    BY <1>2
  <2>2. q[i] # q[j]
    BY <1>2, <2>1
  <2> QED BY <1>1, <2>2, EndsRead
<1>4. CASE ~Appends(t) /\ ~Removes(t)
  <2>1. CASE mTail' = mTail
    BY <1>1, <1>3, <1>4, <2>1 DEF TailIn, TailLabels, Appends, Removes
  <2>2. CASE mTail' = Next[mTail[1]] /\ mTail' # Null
    <3>1. j # Len(q) /\ mTail' = q[j + 1]
      BY <1>1, <1>2, <2>2
    <3>2. j + 1 \in 1 .. Len(q) /\ \A i \in (j + 1) + 1 .. Len(q) : i \in j + 1 .. Len(q)
      BY <1>2, <3>1
    <3> DEFINE k == j + 1
    <3>3. k \in 1 .. Len(q) /\ mTail' = q[k] /\ \A i \in k + 1 .. Len(q) : i \in j + 1 .. Len(q)
      BY <3>1, <3>2
    <3> HIDE DEF k
    <3>4. TailIn(q)'
      BY <1>3, <3>3 DEF TailIn, TailLabels
    <3> QED BY <1>4, <3>4
  <2> QED BY <2>1, <2>2, TailMoves
<1>5. CASE t \in Producers /\ Appends(t)
  <2>1. p \in NodePointers /\ mTail' = mTail /\ At(t, "link") /\ UNCHANGED locals
    BY <1>5, AppendFacts DEF Undisturbed
  <2>2. /\ Len(Append(q, p)) = Len(q) + 1
        /\ \A i \in 1 .. Len(q) : Append(q, p)[i] = q[i]
        /\ Append(q, p)[Len(q) + 1] = p
    BY <1>2, <2>1, RowFacts
  <2>3. \A u \in Producers : p # localMyTail'[u]
    BY <1>5, <2>1, ConstantFacts DEF Undisturbed, TagsTellApart, locals
  <2> DEFINE r == Append(q, p)
  <2>4. j \in 1 .. Len(r) /\ mTail' = r[j]
    BY <1>1, <1>2, <2>1, <2>2
  <2>5. ASSUME NEW u \in Producers, pc'[u] \in TailLabels, NEW i \in j + 1 .. Len(r)
        PROVE  r[i] # localMyTail'[u]
    <3>1. CASE i = Len(q) + 1
      BY <2>2, <2>3, <3>1
    <3>2. CASE i # Len(q) + 1
      <4>1. i \in j + 1 .. Len(q) /\ i \in 1 .. Len(q)
        BY <1>2, <2>2, <3>2
      <4> QED BY <1>3, <2>2, <2>5, <4>1
    <3> QED BY <3>1, <3>2
  <2> HIDE DEF r
  <2>6. TailIn(r)'
    BY <2>4, <2>5 DEF TailIn, TailLabels
  <2>7. TailIn(Append(q, p))'
    BY <2>6 DEF r
  <2> QED BY <1>5, <2>1, <2>7 DEF Removes, MoveHead, At
<1>6. CASE t \in Consumers /\ Removes(t)
  <2>1. mTail # q[1] /\ mTail' = mTail /\ At(t, "d_cas")
    BY <1>6, RemoveFacts
  <2>2. PICK p0 \in NodePointers : TRUE
    BY <1>2
  <2> DEFINE r == Tail(q)
             k == j - 1
             n == Len(q)
  <2>3. /\ Len(r) = n - 1 /\ n \in Nat \ {0} /\ j \in 1 .. n
        /\ \A i \in 1 .. n - 1 : r[i] = q[i + 1]
    BY <1>2, <2>2, RowFacts
  <2> HIDE DEF r, n
  <2>4. k \in 1 .. Len(r) /\ k + 1 = j /\ j # 1
    BY <1>1, <2>1, <2>3
  <2>5. mTail' = r[k]
    BY <1>1, <2>1, <2>3, <2>4
  <2>6. ASSUME NEW u \in Producers, pc'[u] \in TailLabels, NEW i \in k + 1 .. Len(r)
        PROVE  r[i] # localMyTail'[u]
    <3>1. i + 1 \in j + 1 .. n /\ i \in 1 .. n - 1
      BY <2>3, <2>4
    <3> QED BY <1>3, <2>3, <2>6, <3>1 DEF n
  <2> HIDE DEF k
  <2>7. TailIn(r)'
    BY <2>4, <2>5, <2>6 DEF TailIn, TailLabels
  <2>8. TailIn(Tail(q))'
    BY <2>7 DEF r
  <2> QED BY <1>6, <2>1, <2>8 DEF Appends, Link, At
<1> QED BY <1>4, <1>5, <1>6 DEF Appends, Removes

\* What was read of mHead is not further on.
LEMMA HeadsPassedStep ==
  ASSUME TypeOK, LocalsKnown, HeadsTrue, Undisturbed, NEW q, ListInv(q),
         NEW t \in Threads, ThreadStep(t), NEW p, p = newTailHopeToChange(t)
  PROVE  /\ ~Appends(t) /\ ~Removes(t) => HeadsPassed(q)'
         /\ t \in Producers /\ Appends(t) => HeadsPassed(Append(q, p))'
         /\ t \in Consumers /\ Removes(t) => HeadsPassed(Tail(q))'
<1>1. /\ q \in Seq(NodePointers) /\ Len(q) \in Nat \ {0} /\ q # <<>> /\ mHead = q[1]
      /\ \A i, k \in 1 .. Len(q) : q[i] = q[k] => i = k
      /\ \A u \in Consumers : pc[u] \in HeadLabels => \A i \in 2 .. Len(q) : q[i] # localMyHead[u]
  BY ListFacts DEF ListInv, HeadsPassed, HeadLabels
<1>2. \A u \in Consumers : pc'[u] \in HeadLabels => \A i \in 2 .. Len(q) : q[i] # localMyHead'[u]
  <2> TAKE u \in Consumers
  <2> HAVE pc'[u] \in HeadLabels
  <2> TAKE i \in 2 .. Len(q)
  <2>1. i \in 1 .. Len(q) /\ i # 1 /\ 1 \in 1 .. Len(q)
    BY <1>1
  <2>2. q[i] # q[1]
    BY <1>1, <2>1
  <2> QED BY <1>1, <2>2, EndsRead
<1>3. CASE ~Appends(t) /\ ~Removes(t)
  BY <1>2, <1>3 DEF HeadsPassed, HeadLabels, Appends, Removes
<1>4. CASE t \in Producers /\ Appends(t)
  <2>1. p \in NodePointers /\ At(t, "link") /\ UNCHANGED locals
    BY <1>4, AppendFacts DEF Undisturbed
  <2> DEFINE r == Append(q, p)
  <2>2. /\ Len(r) = Len(q) + 1
        /\ \A i \in 1 .. Len(q) : r[i] = q[i]
        /\ r[Len(q) + 1] = p
    BY <1>1, <2>1, RowFacts
  <2>3. \A u \in Consumers : p # localMyHead'[u]
    BY <1>4, <2>1, ConstantFacts DEF Undisturbed, TagsTellApart, locals
  <2>4. ASSUME NEW u \in Consumers, pc'[u] \in HeadLabels, NEW i \in 2 .. Len(r)
        PROVE  r[i] # localMyHead'[u]
    <3>1. CASE i = Len(q) + 1
      BY <2>2, <2>3, <3>1
    <3>2. CASE i # Len(q) + 1
      <4>1. i \in 2 .. Len(q) /\ i \in 1 .. Len(q)
        BY <1>1, <2>2, <3>2
      <4> QED BY <1>2, <2>2, <2>4, <4>1
    <3> QED BY <3>1, <3>2
  <2> HIDE DEF r
  <2>5. HeadsPassed(r)'
    BY <2>4 DEF HeadsPassed, HeadLabels
  <2>6. HeadsPassed(Append(q, p))'
    BY <2>5 DEF r
  <2> QED BY <1>4, <2>1, <2>6 DEF Removes, MoveHead, At
<1>5. CASE t \in Consumers /\ Removes(t)
  <2>1. At(t, "d_cas")
    BY <1>5, RemoveFacts
  <2>2. PICK p0 \in NodePointers : TRUE
    BY <1>1
  <2> DEFINE r == Tail(q)
  <2>3. /\ Len(r) = Len(q) - 1
        /\ \A i \in 1 .. Len(q) - 1 : r[i] = q[i + 1]
    BY <1>1, <2>2, RowFacts
  <2>4. ASSUME NEW u \in Consumers, pc'[u] \in HeadLabels, NEW i \in 2 .. Len(r)
        PROVE  r[i] # localMyHead'[u]
    <3>1. i + 1 \in 2 .. Len(q) /\ i \in 1 .. Len(q) - 1
      BY <1>1, <2>3
    <3> QED BY <1>2, <2>3, <2>4, <3>1
  <2> HIDE DEF r
  <2>5. HeadsPassed(r)'
    BY <2>4 DEF HeadsPassed, HeadLabels
  <2>6. HeadsPassed(Tail(q))'
    BY <2>5 DEF r
  <2> QED BY <1>5, <2>1, <2>6 DEF Appends, Link, At
<1> QED BY <1>3, <1>4, <1>5 DEF Appends, Removes

\* What a call knows of mTail stays true.
LEMMA TailsTrueStep ==
  ASSUME TypeOK, LocalsKnown, TailsTrue, AppendsToList, NEW q, ListInv(q),
         NEW t \in Threads, ThreadStep(t)
  PROVE  TailsTrue'
<1>1. PICK j \in 1 .. Len(q) :
        /\ mTail = q[j]
        /\ \A u \in Producers : pc[u] \in TailLabels => \A i \in j + 1 .. Len(q) : q[i] # localMyTail[u]
  BY DEF ListInv, TailIn, TailLabels
<1>2. /\ Len(q) \in Nat \ {0}
      /\ \A i \in 1 .. Len(q) : q[i] \in NodePointers /\ q[i][1] \in Nodes
      /\ \A i \in 1 .. Len(q) : Next[q[i][1]] = IF i = Len(q) THEN Null ELSE q[i + 1]
  BY ListFacts
<1>3. LocalTypes /\ \A u \in Producers : u \in Threads
  BY LocalsTyped, ConstantFacts
<1> DEFINE Later == {"read_next", "help", "swing"}
<1>4. CASE mTail' # mTail
  <2>1. mTail' = Next[mTail[1]] /\ mTail' # Null /\ pc'[t] \notin Later /\ ~Appends(t) /\ UNCHANGED locals
    BY <1>4, TailMoves
  <2>2. j + 1 \in j + 1 .. Len(q) /\ mTail' = q[j + 1]
    BY <1>1, <1>2, <2>1
  <2>3. ASSUME NEW u \in Producers, pc'[u] \in Later
        PROVE  localMyTail'[u] # mTail'
    <3>1. u # t
      BY <2>1, <2>3
    <3>2. pc[u] \in TailLabels
      BY <1>3, <2>3, <3>1, OthersStay DEF TailLabels
    <3> QED BY <1>1, <2>1, <2>2, <3>2 DEF locals
  <2> QED BY <2>3 DEF TailsTrue
<1>5. CASE mTail' = mTail /\ t \in Producers /\ Appends(t)
  <2> DEFINE p == newTailHopeToChange(t)
  <2>1. /\ pc'[t] = "swing" /\ localMyTail[t][1] = q[Len(q)][1] /\ Next' = [Next EXCEPT ![q[Len(q)][1]] = p]
        /\ p \in NodePointers /\ UNCHANGED locals
    BY <1>5, AppendFacts
  <2>2. Next[q[Len(q)][1]] = Null /\ q[Len(q)][1] \in Nodes /\ p # Null /\ mTail[1] \in Nodes
    BY <1>1, <1>2, <2>1, PointerFacts
  <2>3. Next \in [Nodes -> Pointers] /\ newTailHopeToChange(t)' = p
    BY <2>1 DEF TypeOK, newTailHopeToChange, locals
  <2> HIDE DEF p
  <2>4. ASSUME NEW u \in Producers, localMyTail'[u] = mTail', pc'[u] \in Later
        PROVE  /\ Next'[mTail[1]] # Null
               /\ pc'[u] = "help" => localMyNext'[u] = Next'[mTail[1]]
               /\ pc'[u] = "swing" => newTailHopeToChange(u)' = Next'[mTail[1]]
    <3>1. CASE u = t
      BY <1>5, <2>1, <2>2, <2>3, <2>4, <3>1 DEF locals
    <3>2. CASE u # t
      <4>1. pc[u] = pc'[u] /\ localMyTail[u] = mTail
        BY <1>3, <1>5, <2>1, <2>4, <3>2, OthersStay DEF locals
      <4>2. /\ Next[mTail[1]] # Null
            /\ pc[u] = "help" => localMyNext[u] = Next[mTail[1]]
            /\ pc[u] = "swing" => newTailHopeToChange(u) = Next[mTail[1]]
        BY <2>4, <4>1 DEF TailsTrue
      <4>3. Next'[mTail[1]] = Next[mTail[1]]
        BY <2>1, <2>2, <2>3, <4>2
      <4> QED BY <2>1, <4>1, <4>2, <4>3 DEF locals, newTailHopeToChange
    <3> QED BY <3>1, <3>2
  <2> QED BY <1>5, <2>4 DEF TailsTrue
<1>6. CASE mTail' = mTail /\ ~Appends(t)
  <2>1. Next'[mTail[1]] = Next[mTail[1]]
    BY <1>1, <1>6, NextStays
  <2>2. ASSUME NEW u \in Producers, localMyTail'[u] = mTail', pc'[u] \in Later
        PROVE  /\ Next'[mTail[1]] # Null
               /\ pc'[u] = "help" => localMyNext'[u] = Next'[mTail[1]]
               /\ pc'[u] = "swing" => newTailHopeToChange(u)' = Next'[mTail[1]]
    <3>1. CASE u = t
      <4>1. t \notin Consumers
        BY <3>1, ConstantFacts
      <4> USE DEF LocalTypes, Goto, At, locals
      <4>2. CASE EnqueueId(t) \/ Alloc(t) \/ NewNode(t) \/ Fill(t) \/ ReadTail(t)
        BY <1>3, <2>2, <3>1, <4>2 DEF EnqueueId, Alloc, NewNode, Fill, ReadTail
      <4>3. CASE Link(t)
        BY <1>3, <1>6, <2>2, <3>1, <4>3 DEF Link, Appends, getPurePointer
      <4>4. CASE ReadNext(t)
        BY <1>3, <1>6, <2>2, <3>1, <4>4 DEF ReadNext, TailsTrue, getPurePointer, shared
      <4>5. CASE Help(t) \/ Swing(t) \/ CountUp(t)
        BY <1>3, <2>2, <3>1, <4>5 DEF Help, Swing, CountUp
      <4> QED BY <4>1, <4>2, <4>3, <4>4, <4>5 DEF ThreadStep, ProducerStep, EnqueueStep
    <3>2. CASE u # t
      <4>1. /\ pc'[u] = pc[u] /\ localMyTail'[u] = localMyTail[u] /\ localMyNext'[u] = localMyNext[u]
            /\ newTailHopeToChange(u)' = newTailHopeToChange(u)
        BY <1>3, <3>2, OthersStay DEF newTailHopeToChange
      <4> QED BY <1>6, <2>1, <2>2, <4>1 DEF TailsTrue
    <3> QED BY <3>1, <3>2
  <2> QED BY <1>6, <2>2 DEF TailsTrue
<1>7. Appends(t) => t \in Producers
  <2>1. t \in Consumers => pc[t] \in DequeueLabels
    BY DEF LocalsKnown
  <2> QED BY <2>1 DEF Appends, Link, Threads, DequeueLabels, At
<1> QED BY <1>4, <1>5, <1>6, <1>7

\* The first two positions of a list.
LEMMA FirstTwo ==
  ASSUME NEW n \in Nat \ {0}
  PROVE  1 \in 1 .. n /\ (1 # n => 1 + 1 \in 1 .. n)
OBVIOUS

\* What a call knows of mHead stays true.
LEMMA HeadsTrueStep ==
  ASSUME TypeOK, LocalsKnown, TailsTrue, HeadsTrue, AppendsToList, NEW q, ListInv(q),
         NEW t \in Threads, ThreadStep(t)
  PROVE  HeadsTrue'
<1>0. Len(q) \in Nat \ {0}
  BY ListFacts
<1>1. /\ Len(q) \in Nat \ {0} /\ mHead = q[1] /\ \E j \in 1 .. Len(q) : mTail = q[j]
      /\ \A i \in 1 .. Len(q) : q[i] \in NodePointers /\ q[i][1] \in Nodes
      /\ \A i \in 1 .. Len(q) : Next[q[i][1]] = IF i = Len(q) THEN Null ELSE q[i + 1]
      /\ \A i, k \in 1 .. Len(q) : q[i][1] = q[k][1] => i = k
      /\ \A u \in Consumers : pc[u] \in HeadLabels => \A i \in 2 .. Len(q) : q[i] # localMyHead[u]
  BY ListFacts DEF ListInv, HeadsPassed, HeadLabels
<1>2. LocalTypes /\ \A u \in Consumers : u \in Threads
  BY LocalsTyped, ConstantFacts
<1>3. CASE t \in Consumers /\ Removes(t)
  <2>1. /\ pc'[t] = "d_free" /\ Len(q) >= 2 /\ mHead' = q[2]
    BY <1>3, RemoveFacts
  <2>2. 2 \in 2 .. Len(q)
    BY <1>1, <2>1
  <2>3. ASSUME NEW u \in Consumers, localMyHead'[u] = mHead'
        PROVE  pc'[u] \notin {"d_next", "d_test", "d_cas"}
    <3>1. CASE u = t
      BY <2>1, <3>1
    <3>2. CASE u # t
      BY <1>1, <1>2, <2>1, <2>2, <2>3, <3>2, OthersStay DEF HeadLabels
    <3> QED BY <3>1, <3>2
  <2> QED BY <2>3 DEF HeadsTrue
<1>4. CASE t \in Producers /\ Appends(t)
  <2>1. /\ Next' = [Next EXCEPT ![q[Len(q)][1]] = newTailHopeToChange(t)]
        /\ UNCHANGED <<mHead, mTail, Data, locals>> /\ t \notin Consumers
    BY <1>4, AppendFacts, ConstantFacts
  <2>2. Next[q[Len(q)][1]] = Null /\ q[Len(q)][1] \in Nodes /\ mHead[1] \in Nodes /\ Null[1] = 0
    BY <1>1, PointerFacts
  <2>3. Next \in [Nodes -> Pointers]
    BY DEF TypeOK
  <2>4. mTail # mHead => Next[mHead[1]] # Null
    <3>1. mTail # mHead => 1 # Len(q)
      BY <1>1
    <3>2. 1 \in 1 .. Len(q) /\ (1 # Len(q) => 1 + 1 \in 1 .. Len(q))
      BY <1>0, FirstTwo
    <3>3. Next[q[1][1]] = IF 1 = Len(q) THEN Null ELSE q[1 + 1]
      BY <1>1, <3>2
    <3>4. 1 # Len(q) => q[1 + 1] \in NodePointers
      BY <1>1, <3>2
    <3> QED BY <1>1, <3>1, <3>3, <3>4, PointerFacts
  <2>5. Next[mHead[1]] # Null => Next'[mHead[1]] = Next[mHead[1]]
    BY <2>1, <2>2, <2>3
  <2>6. ASSUME NEW u \in Consumers, localMyHead'[u] = mHead'
        PROVE  /\ pc'[u] \in {"d_next", "d_test", "d_cas"} /\ localMyTail'[u] # mHead' => mTail' # mHead'
               /\ pc'[u] = "d_test" /\ localMyNext'[u][1] # 0 => localMyNext'[u] = Next'[mHead'[1]]
               /\ pc'[u] = "d_cas" => /\ localMyTail'[u] # mHead' /\ localMyNext'[u] = Next'[mHead'[1]]
                                      /\ outData'[u] = Data'[localMyNext'[u][1]]
    <3>1. pc'[u] = pc[u] /\ u # t
      BY <1>2, <2>1, OthersStay
    <3>2. localMyHead[u] = mHead
      BY <2>1, <2>6 DEF locals
    <3>3. /\ pc[u] \in {"d_next", "d_test", "d_cas"} /\ localMyTail[u] # mHead => mTail # mHead
          /\ pc[u] = "d_test" /\ localMyNext[u][1] # 0 => localMyNext[u] = Next[mHead[1]]
          /\ pc[u] = "d_cas" => /\ localMyTail[u] # mHead /\ localMyNext[u] = Next[mHead[1]]
                                /\ outData[u] = Data[localMyNext[u][1]]
      BY <3>2 DEF HeadsTrue
    <3> QED BY <2>1, <2>2, <2>4, <2>5, <3>1, <3>3 DEF locals
  <2> QED BY <2>6 DEF HeadsTrue
<1>5. CASE ~Appends(t) /\ ~Removes(t)
  <2>1. mHead' = mHead /\ Next'[mHead[1]] = Next[mHead[1]]
    BY <1>1, <1>5, NextStays
  <2>2. mTail # mHead => mTail' # mHead
    <3>1. PICK j \in 1 .. Len(q) : mTail = q[j]
      BY <1>1
    <3>2. CASE mTail' = Next[mTail[1]] /\ mTail' # Null
      <4>1. j # Len(q) /\ mTail' = q[j + 1]
        BY <1>1, <3>1, <3>2
      <4>2. j + 1 \in 1 .. Len(q) /\ j + 1 # 1 /\ 1 \in 1 .. Len(q)
        BY <1>1, <4>1
      <4>3. \A k \in 1 .. Len(q) : k # 1 => q[k] # q[1]
        BY <1>1, <4>2
      <4>4. q[j + 1] # q[1]
        BY <4>2, <4>3
      <4> QED BY <1>1, <4>1, <4>4
    <3> QED BY <3>2, TailMoves
  <2>3. mTail # mHead /\ localMyNext[t] \in Pointers => Data'[Next[mHead[1]][1]] = Data[Next[mHead[1]][1]]
    <3>1. CASE mTail # mHead
      <4>1. 1 # Len(q)
        BY <1>1, <3>1
      <4>2. 1 \in 1 .. Len(q) /\ 1 + 1 \in 1 .. Len(q)
        BY <1>0, <4>1, FirstTwo
      <4>3. Next[q[1][1]] = IF 1 = Len(q) THEN Null ELSE q[1 + 1]
        BY <1>1, <4>2
      <4>4. Fill(t) => q[1 + 1][1] # newNode[t]
        <5>1. Fill(t) => t \in Carrying
          <6>1. t \in Consumers => pc[t] \in DequeueLabels
            BY DEF LocalsKnown
          <6> QED BY <6>1 DEF Fill, At, Carrying, DequeueLabels, Threads
        <5> QED BY <4>2, <5>1, HandFacts
      <4> QED BY <1>1, <4>1, <4>2, <4>3, <4>4, DataStays
    <3> QED BY <3>1
  <2>4. ASSUME NEW u \in Consumers, localMyHead'[u] = mHead'
        PROVE  /\ pc'[u] \in {"d_next", "d_test", "d_cas"} /\ localMyTail'[u] # mHead => mTail' # mHead
               /\ pc'[u] = "d_test" /\ localMyNext'[u][1] # 0 => localMyNext'[u] = Next[mHead[1]]
               /\ pc'[u] = "d_cas" => /\ localMyTail'[u] # mHead /\ localMyNext'[u] = Next[mHead[1]]
                                      /\ outData'[u] = Data'[localMyNext'[u][1]]
    <3>1. CASE u # t
      <4>1. /\ pc'[u] = pc[u] /\ localMyTail'[u] = localMyTail[u] /\ localMyNext'[u] = localMyNext[u]
            /\ localMyHead'[u] = localMyHead[u] /\ outData'[u] = outData[u] /\ localMyNext[t] \in Pointers
        BY <1>2, <3>1, OthersStay DEF LocalTypes
      <4>2. /\ pc[u] \in {"d_next", "d_test", "d_cas"} /\ localMyTail[u] # mHead => mTail # mHead
            /\ pc[u] = "d_test" /\ localMyNext[u][1] # 0 => localMyNext[u] = Next[mHead[1]]
            /\ pc[u] = "d_cas" => /\ localMyTail[u] # mHead /\ localMyNext[u] = Next[mHead[1]]
                                  /\ outData[u] = Data[localMyNext[u][1]]
        BY <2>1, <2>4, <4>1 DEF HeadsTrue
      <4> QED BY <2>2, <2>3, <4>1, <4>2
    <3>2. CASE u = t
      <4>1. t \notin Producers /\ t \in Threads
        BY <3>2, ConstantFacts
      <4> USE DEF LocalTypes, Goto, At, locals
      <4>2. CASE TryDequeue(t) \/ ReadHead(t)
        BY <1>2, <2>4, <3>2, <4>2 DEF TryDequeue, ReadHead
      <4>3. CASE ReadHeadTail(t)
        BY <1>2, <2>2, <2>4, <3>2, <4>3 DEF ReadHeadTail
      <4>4. CASE ReadHeadNext(t)
        BY <1>2, <2>1, <2>2, <2>4, <3>2, <4>4 DEF ReadHeadNext, HeadsTrue, getPurePointer
      <4>5. CASE SeemsEmpty(t)
        BY <1>2, <2>4, <3>2, <4>5 DEF SeemsEmpty
      <4>6. CASE CopyData(t)
        <5>1. localMyHead[t] = mHead /\ localMyTail'[t] = localMyTail[t] /\ localMyNext'[t] = localMyNext[t]
          BY <2>1, <2>4, <3>2, <4>6 DEF CopyData
        <5>2. /\ localMyTail[t] # mHead => mTail # mHead
              /\ localMyNext[t][1] # 0 => localMyNext[t] = Next[mHead[1]]
          BY <3>2, <4>6, <5>1 DEF CopyData, HeadsTrue
        <5> QED BY <1>2, <2>2, <3>2, <4>1, <4>6, <5>1, <5>2 DEF CopyData, getPurePointer, shared
      <4>7. CASE MoveHead(t)
        BY <1>2, <1>5, <2>4, <3>2, <4>1, <4>7 DEF MoveHead, Removes
      <4>8. CASE Free(t) \/ CountDown(t)
        BY <1>2, <2>4, <3>2, <4>1, <4>8 DEF Free, CountDown
      <4> QED BY <4>1, <4>2, <4>3, <4>4, <4>5, <4>6, <4>7, <4>8 DEF ThreadStep, ConsumerStep, DequeueStep
    <3> QED BY <3>1, <3>2
  <2> QED BY <2>1, <2>4 DEF HeadsTrue
<1>6. (Appends(t) => t \in Producers) /\ (Removes(t) => t \in Consumers)
  <2>1. (t \in Consumers => pc[t] \in DequeueLabels) /\ (t \in Producers => pc[t] \in EnqueueLabels)
    BY DEF LocalsKnown
  <2> QED BY <2>1 DEF Appends, Link, Removes, MoveHead, Threads, DequeueLabels, EnqueueLabels, At
<1> QED BY <1>3, <1>4, <1>5, <1>6

----------------------------------------------------------------------------
(* mCount *)

\* A set that at most one call joins or leaves.
LEMMA OneMoves ==
  ASSUME NEW A, NEW B, IsFiniteSet(A), NEW t, \A u : u # t => (u \in B <=> u \in A)
  PROVE  /\ Cardinality(A) \in Nat /\ IsFiniteSet(B)
         /\ (t \in A <=> t \in B) => Cardinality(B) = Cardinality(A)
         /\ t \notin A /\ t \in B => Cardinality(B) = Cardinality(A) + 1
         /\ t \in A /\ t \notin B => Cardinality(B) = Cardinality(A) - 1
<1>1. Cardinality(A) \in Nat
  BY FS_CardinalityType
<1>2. (t \in A <=> t \in B) => B = A
  OBVIOUS
<1>3. t \notin A /\ t \in B => B = A \cup {t}
  OBVIOUS
<1>4. t \in A /\ t \notin B => B = A \ {t}
  OBVIOUS
<1>5. /\ IsFiniteSet(A \cup {t}) /\ IsFiniteSet(A \ {t})
      /\ t \notin A => Cardinality(A \cup {t}) = Cardinality(A) + 1
      /\ t \in A => Cardinality(A \ {t}) = Cardinality(A) - 1
  BY FS_AddElement, FS_RemoveElement
<1> QED BY <1>1, <1>2, <1>3, <1>4, <1>5

\* mCount follows the list.
LEMMA CountedStep ==
  ASSUME TypeOK, LocalsKnown, TailsTrue, HeadsTrue, AppendsToList, NEW q, ListInv(q),
         NEW t \in Threads, ThreadStep(t), NEW p, p = newTailHopeToChange(t)
  PROVE  /\ ~Appends(t) /\ ~Removes(t) => Counted(q)'
         /\ t \in Producers /\ Appends(t) => Counted(Append(q, p))'
         /\ t \in Consumers /\ Removes(t) => Counted(Tail(q))'
<1> DEFINE a  == Cardinality(Linked)
           b  == Cardinality(Unlinked)
           a1 == Cardinality(Linked')
           b1 == Cardinality(Unlinked')
           n  == Len(q)
<1>1. IsFiniteSet(Linked) /\ IsFiniteSet(Unlinked)
  <2>1. Linked \in SUBSET Producers /\ Unlinked \in SUBSET Consumers
    BY DEF Linked, Unlinked
  <2> QED BY <2>1, ConstantFacts, FS_Subset
<1>2. LocalTypes /\ (t \in Producers => t \notin Consumers)
  BY LocalsTyped, ConstantFacts
<1>3. /\ \A u : u # t => (u \in Linked' <=> u \in Linked)
      /\ \A u : u # t => (u \in Unlinked' <=> u \in Unlinked)
  <2>1. \A u \in Threads : u # t => (u \in Linked' <=> u \in Linked) /\ (u \in Unlinked' <=> u \in Unlinked)
    BY <1>2, SetsMove
  <2>2. /\ Linked \subseteq Threads /\ Linked' \subseteq Threads
        /\ Unlinked \subseteq Threads /\ Unlinked' \subseteq Threads
    BY ConstantFacts DEF Linked, Unlinked
  <2> QED BY <2>1, <2>2
<1>4. /\ a \in Nat /\ b \in Nat
      /\ (t \in Linked <=> t \in Linked') => a1 = a
      /\ t \notin Linked /\ t \in Linked' => a1 = a + 1
      /\ t \in Linked /\ t \notin Linked' => a1 = a - 1
      /\ (t \in Unlinked <=> t \in Unlinked') => b1 = b
      /\ t \notin Unlinked /\ t \in Unlinked' => b1 = b + 1
      /\ t \in Unlinked /\ t \notin Unlinked' => b1 = b - 1
  BY <1>1, <1>3, OneMoves
<1>5. mCount = n - 1 - a + b /\ n \in Nat \ {0} /\ q \in Seq(NodePointers) /\ q # <<>>
  BY ListFacts DEF ListInv, Counted
<1>6. (t \in Producers => pc[t] \in EnqueueLabels) /\ (t \in Consumers => pc[t] \in DequeueLabels)
  BY DEF LocalsKnown
<1> HIDE DEF a, b, a1, b1, n
<1> USE DEF LocalTypes, Goto, At
<1>7. CASE t \in Producers /\ Appends(t)
  <2>1. /\ pc[t] = "link" /\ pc'[t] = "swing" /\ p \in NodePointers /\ mCount' = mCount
    BY <1>7, AppendFacts
  <2>2. Len(Append(q, p)) = n + 1
    BY <1>5, <2>1, RowFacts DEF n
  <2>3. t \notin Linked /\ t \in Linked' /\ t \notin Unlinked /\ t \notin Unlinked'
    BY <1>2, <1>7, <2>1 DEF Linked, Unlinked
  <2> DEFINE r == Append(q, p)
             m == Len(r)
  <2>4. m = n + 1
    BY <2>2
  <2> HIDE DEF m
  <2>5. mCount' = m - 1 - a1 + b1
    BY <1>4, <1>5, <2>1, <2>3, <2>4
  <2>6. Counted(r)'
    BY <2>5 DEF Counted, m, a1, b1
  <2> QED BY <1>7, <2>1, <2>6 DEF Removes, MoveHead
<1>8. CASE t \in Consumers /\ Removes(t)
  <2>1. /\ pc[t] = "d_cas" /\ pc'[t] = "d_free" /\ mCount' = mCount
    BY <1>8, RemoveFacts
  <2>2. Len(Tail(q)) = n - 1
    BY <1>5, TailOf DEF n
  <2>3. t \notin Unlinked /\ t \in Unlinked' /\ t \notin Linked /\ t \notin Linked'
    BY <1>2, <1>8, <2>1 DEF Linked, Unlinked
  <2> DEFINE r == Tail(q)
             m == Len(r)
  <2>4. m = n - 1
    BY <2>2
  <2> HIDE DEF m
  <2>5. mCount' = m - 1 - a1 + b1
    BY <1>4, <1>5, <2>1, <2>3, <2>4
  <2>6. Counted(r)'
    BY <2>5 DEF Counted, m, a1, b1
  <2> QED BY <1>8, <2>1, <2>6 DEF Appends, Link
<1>9. CASE CountUp(t) /\ t \in Producers
  <2>1. mCount' = mCount + 1 /\ t \in Linked /\ t \notin Linked' /\ t \notin Unlinked /\ t \notin Unlinked'
    BY <1>2, <1>9 DEF CountUp, Linked, Unlinked
  <2>2. mCount' = n - 1 - a1 + b1
    BY <1>4, <1>5, <2>1
  <2>3. Counted(q)'
    BY <2>2 DEF Counted, n, a1, b1
  <2> QED BY <1>9, <2>3 DEF CountUp, Appends, Removes, Link, MoveHead
<1>10. CASE CountDown(t) /\ t \in Consumers
  <2>1. mCount' = mCount - 1 /\ t \in Unlinked /\ t \notin Unlinked' /\ t \notin Linked /\ t \notin Linked'
    BY <1>2, <1>10 DEF CountDown, Linked, Unlinked
  <2>2. mCount' = n - 1 - a1 + b1
    BY <1>4, <1>5, <2>1
  <2>3. Counted(q)'
    BY <2>2 DEF Counted, n, a1, b1
  <2> QED BY <1>10, <2>3 DEF CountDown, Appends, Removes, Link, MoveHead
<1>11. CASE ~Appends(t) /\ ~Removes(t) /\ ~CountUp(t) /\ ~CountDown(t)
  <2>1. mCount' = mCount
    BY <1>11 DEF ThreadStep, ProducerStep, ConsumerStep, EnqueueStep, DequeueStep, EnqueueId, Fill, Alloc, NewNode,
                ReadTail, Link, ReadNext, Help, Swing, TryDequeue, ReadHead,
                ReadHeadTail, ReadHeadNext, SeemsEmpty, CopyData, MoveHead, Free, shared
  <2>2. ASSUME t \in Producers, ProducerStep(t)
        PROVE  a1 = a /\ b1 = b
    <3>1. t \notin Unlinked /\ t \notin Unlinked'
      BY <1>2, <2>2 DEF Unlinked
    <3>2. t \in Linked <=> t \in Linked'
      <4>1. CASE EnqueueId(t) \/ Alloc(t) \/ NewNode(t) \/ Fill(t)
        BY <1>2, <2>2, <4>1 DEF EnqueueId, Alloc, NewNode, Fill, Linked
      <4>2. CASE ReadTail(t) \/ ReadNext(t) \/ Help(t) \/ Swing(t)
        BY <1>2, <2>2, <4>2 DEF ReadTail, ReadNext, Help, Swing, Linked
      <4>3. CASE Link(t)
        BY <1>2, <1>11, <2>2, <4>3 DEF Link, Appends, Linked
      <4> QED BY <1>11, <2>2, <4>1, <4>2, <4>3 DEF ProducerStep, EnqueueStep
    <3> QED BY <1>4, <3>1, <3>2
  <2>3. ASSUME t \in Consumers, ConsumerStep(t)
        PROVE  a1 = a /\ b1 = b
    <3>1. t \notin Linked /\ t \notin Linked'
      BY <1>2, <2>3 DEF Linked
    <3>2. t \in Unlinked <=> t \in Unlinked'
      <4>1. CASE TryDequeue(t) \/ ReadHead(t) \/ ReadHeadTail(t) \/ ReadHeadNext(t)
        BY <1>2, <2>3, <4>1 DEF TryDequeue, ReadHead, ReadHeadTail, ReadHeadNext, Unlinked
      <4>2. CASE SeemsEmpty(t) \/ CopyData(t) \/ Free(t)
        BY <1>2, <2>3, <4>2 DEF SeemsEmpty, CopyData, Free, Unlinked
      <4>3. CASE MoveHead(t)
        BY <1>2, <1>11, <2>3, <4>3 DEF MoveHead, Removes, Unlinked
      <4> QED BY <1>11, <2>3, <4>1, <4>2, <4>3 DEF ConsumerStep, DequeueStep
    <3> QED BY <1>4, <3>1, <3>2
  <2>4. a1 = a /\ b1 = b
    BY <2>2, <2>3 DEF ThreadStep
  <2>5. mCount' = n - 1 - a1 + b1
    BY <1>5, <2>1, <2>4
  <2>6. Counted(q)'
    BY <2>5 DEF Counted, n, a1, b1
  <2> QED BY <1>11, <2>6
<1>12. (Appends(t) \/ CountUp(t) => t \in Producers) /\ (Removes(t) \/ CountDown(t) => t \in Consumers)
  BY <1>6 DEF Appends, Link, Removes, MoveHead, CountUp, CountDown, Threads, DequeueLabels, EnqueueLabels
<1> QED BY <1>7, <1>8, <1>9, <1>10, <1>11, <1>12

----------------------------------------------------------------------------
(* The invariant holds *)

\* The list after a step of t.
LEMMA ListInvStep ==
  ASSUME TypeOK, LocalsKnown, Bounded, PoolApart, TailsTrue, HeadsTrue, Undisturbed, NEW q, ListInv(q),
         NEW t \in Threads, ThreadStep(t), NEW p, p = newTailHopeToChange(t)
  PROVE  /\ ~Appends(t) /\ ~Removes(t) => ListInv(q)'
         /\ t \in Producers /\ Appends(t) => ListInv(Append(q, p))'
         /\ t \in Consumers /\ Removes(t) => ListInv(Tail(q))'
<1>1. AppendsToList /\ q \in Seq(NodePointers) /\ Len(q) \in Nat \ {0} /\ q # <<>>
  BY ListFacts DEF Undisturbed
<1>2. CASE ~Appends(t) /\ ~Removes(t)
  <2>1. IsList(mHead', Next', q, NodePointers)
    BY <1>1, <1>2, ListStep
  <2>2. Placed(q)'
    BY <1>1, <1>2, PlacedStep
  <2>3. TailIn(q)'
    BY <1>2, TailInStep
  <2>4. HeadsPassed(q)'
    BY <1>2, HeadsPassedStep
  <2>5. Counted(q)'
    BY <1>1, <1>2, CountedStep
  <2>6. ListInv(q)'
    BY <1>1, <2>1, <2>2, <2>3, <2>4, <2>5 DEF ListInv
  <2> QED BY <1>2, <2>6
<1>3. CASE t \in Producers /\ Appends(t)
  <2> DEFINE r == Append(q, p)
  <2>1. IsList(mHead', Next', r, NodePointers)
    BY <1>1, <1>3, ListStep
  <2>2. Placed(r)'
    BY <1>1, <1>3, PlacedStep
  <2>3. TailIn(r)'
    BY <1>3, TailInStep
  <2>4. HeadsPassed(r)'
    BY <1>3, HeadsPassedStep
  <2>5. Counted(r)'
    BY <1>1, <1>3, CountedStep
  <2>6. r # <<>> /\ At(t, "link")
    <3>1. p \in NodePointers /\ At(t, "link")
      BY <1>1, <1>3, AppendFacts
    <3>2. r \in Seq(NodePointers) /\ Len(r) = Len(q) + 1
      BY <1>1, <3>1, Appended
    <3>3. Len(r) # 0
      BY <1>1, <3>2
    <3> QED BY <3>1, <3>2, <3>3, LengthZero
  <2> HIDE DEF r
  <2>7. ListInv(r)'
    BY <2>1, <2>2, <2>3, <2>4, <2>5, <2>6 DEF ListInv
  <2>8. ListInv(Append(q, p))'
    BY <2>7 DEF r
  <2> QED BY <1>3, <2>6, <2>8 DEF Removes, MoveHead, At
<1>4. CASE t \in Consumers /\ Removes(t)
  <2> DEFINE r == Tail(q)
  <2>1. IsList(mHead', Next', r, NodePointers)
    BY <1>1, <1>4, ListStep
  <2>2. Placed(r)'
    BY <1>1, <1>4, PlacedStep
  <2>3. TailIn(r)'
    BY <1>4, TailInStep
  <2>4. HeadsPassed(r)'
    BY <1>4, HeadsPassedStep
  <2>5. Counted(r)'
    BY <1>1, <1>4, CountedStep
  <2>6. r # <<>> /\ At(t, "d_cas")
    <3>1. Len(q) >= 2 /\ At(t, "d_cas")
      BY <1>4, RemoveFacts
    <3>2. r \in Seq(NodePointers) /\ Len(r) = Len(q) - 1
      BY <1>1, TailOf
    <3>3. Len(r) # 0
      BY <1>1, <3>1, <3>2
    <3> QED BY <3>1, <3>2, <3>3, LengthZero
  <2> HIDE DEF r
  <2>7. ListInv(r)'
    BY <2>1, <2>2, <2>3, <2>4, <2>5, <2>6 DEF ListInv
  <2>8. ListInv(Tail(q))'
    BY <2>7 DEF r
  <2> QED BY <1>4, <2>6, <2>8 DEF Appends, Link, At
<1>5. Appends(t) /\ Removes(t) => FALSE
  BY DEF Appends, Link, Removes, MoveHead, At
<1> QED BY <1>2, <1>3, <1>4

\* It is producers that append and consumers that remove.
LEMMA WhoMoves ==
  ASSUME LocalsKnown, NEW t \in Threads
  PROVE  (Appends(t) => t \in Producers) /\ (Removes(t) => t \in Consumers)
<1>1. (t \in Consumers => pc[t] \in DequeueLabels) /\ (t \in Producers => pc[t] \in EnqueueLabels)
  BY DEF LocalsKnown
<1> QED BY <1>1 DEF Appends, Link, Removes, MoveHead, Threads, DequeueLabels, EnqueueLabels, At

\* A step of a thread keeps the invariant.
LEMMA ThreadKeeps ==
  ASSUME QueueInv, Undisturbed, NEW t \in Threads, ThreadStep(t)
  PROVE  QueueInv'
<1>1. PICK q : ListInv(q)
  BY DEF QueueInv
<1>2. TypeOK /\ LocalsKnown /\ Bounded /\ PoolApart /\ TailsTrue /\ HeadsTrue /\ AppendsToList
  BY DEF QueueInv, Undisturbed
<1>3. PICK p : p = newTailHopeToChange(t)
  OBVIOUS
<1>4. TypeOK'
  BY <1>1, <1>2, TypesStep
<1>5. LocalsKnown' /\ PoolApart'
  BY <1>1, <1>2, LocalsStep, PoolStep
<1>6. Bounded'
  BY <1>2, BoundedStep
<1>7. TailsTrue' /\ HeadsTrue'
  BY <1>1, <1>2, TailsTrueStep, HeadsTrueStep
<1>8. /\ ~Appends(t) /\ ~Removes(t) => ListInv(q)'
      /\ Appends(t) => ListInv(Append(q, p))'
      /\ Removes(t) => ListInv(Tail(q))'
  BY <1>1, <1>2, <1>3, ListInvStep, WhoMoves
<1>9. \E r : ListInv(r)'
  BY <1>8
<1> QED BY <1>4, <1>5, <1>6, <1>7, <1>9 DEF QueueInv

\* The list is empty in the beginning.
LEMMA InitInv ==
  ASSUME Init
  PROVE  QueueInv
<1> USE DEF Init
<1>1. /\ MaxNodes \in Nat \ {0} /\ 1 \in Nodes /\ TagCount \in Nat \ {0}
      /\ Producers \cup Consumers = Threads /\ Producers \cap Consumers = {}
  BY ConstantFacts DEF Threads
<1>2. <<1, 0>> \in NodePointers /\ <<1, 0>> \in Pointers /\ Null \in Pointers
      /\ 0 \in 0 .. TagCount - 1 /\ 0 \in 0 .. MaxNodes
  BY <1>1 DEF NodePointers, Pointers, Nodes, Null
<1>3. TypeOK
  <2>1. \A p \in Producers : \E q \in Quotas : serial[p] <= q[p]
    BY QueueBounds
  <2>2. pool \in Seq(Nodes)
    OBVIOUS
  <2> QED BY <1>1, <1>2, <2>1, <2>2 DEF TypeOK
<1>4. LocalsKnown
  BY <1>1 DEF LocalsKnown, EnqueueLabels, DequeueLabels
<1>5. Carrying = {} /\ Freeing = {} /\ Linked = {} /\ Unlinked = {} /\ Getting = {}
  BY <1>1 DEF Carrying, Freeing, Linked, Unlinked, Getting
<1>6. Cardinality({}) = 0
  BY FS_EmptySet
<1>7. Bounded
  <2>1. Begun = {}
    BY DEF Begun
  <2> QED BY <1>5, <1>6, <2>1 DEF Bounded
<1>8. PoolApart /\ TailsTrue /\ HeadsTrue
  <2>1. Len(pool) = 0
    OBVIOUS
  <2>2. \A t \in Threads : pc[t] = "idle"
    OBVIOUS
  <2> QED BY <1>1, <2>1, <2>2 DEF PoolApart, TailsTrue, HeadsTrue
<1> DEFINE q == <<<<1, 0>>>>
<1>9. q \in Seq(NodePointers) /\ Len(q) = 1 /\ q[1] = <<1, 0>> /\ q # <<>> /\ q[1][1] = 1
  BY <1>2
<1>10. \A i \in 1 .. Len(q) : i = 1
  BY <1>9
<1> HIDE DEF q
<1>11. IsList(mHead, Next, q, NodePointers)
  BY <1>1, <1>9, <1>10 DEF IsList, Null
<1>12. Placed(q)
  <2>1. HandNodes = [t \in {} |-> NodeOf(t)]
    BY <1>5 DEF HandNodes
  <2>2. DOMAIN HandNodes = {}
    BY <2>1
  <2>3. SpareNodes = 2 .. MaxNodes
    <3>1. Len(pool) = 0
      OBVIOUS
    <3>2. { pool[i] : i \in 1 .. Len(pool) } = {}
      BY <3>1
    <3> QED BY <3>2 DEF SpareNodes
  <2>4. NodesOf(q) \in Seq(Nodes) /\ Len(NodesOf(q)) = 1 /\ NodesOf(q)[1] = 1
    <3>1. NodesOf(q) \in [1 .. 1 -> Nodes] /\ NodesOf(q)[1] = 1
      BY <1>1, <1>9, <1>10 DEF NodesOf
    <3> QED BY <3>1, FunctionIsSeq
  <2>5. \A i \in 1 .. Len(NodesOf(q)) : i = 1
    BY <2>4
  <2>6. Apart(Nodes, SpareNodes, HandNodes, NodesOf(q))
    BY <1>1, <2>2, <2>3, <2>4, <2>5 DEF Apart, Nodes
  <2>7. { q[i][1] : i \in 1 .. Len(q) } = {1}
    BY <1>9, <1>10
  <2>8. Off(SpareNodes, HandNodes) = 2 .. MaxNodes
    BY <2>2, <2>3 DEF Off
  <2>9. Nodes = (2 .. MaxNodes) \cup {1}
    BY <1>1 DEF Nodes
  <2> QED BY <2>6, <2>7, <2>8, <2>9 DEF Placed
<1>13. TailIn(q) /\ HeadsPassed(q)
  <2>1. \A t \in Threads : pc[t] = "idle"
    OBVIOUS
  <2>2. 1 \in 1 .. Len(q) /\ mTail = q[1]
    BY <1>9
  <2> QED BY <1>1, <2>1, <2>2 DEF TailIn, HeadsPassed
<1>14. Counted(q)
  BY <1>5, <1>6, <1>9 DEF Counted
<1>15. ListInv(q)
  BY <1>9, <1>11, <1>12, <1>13, <1>14 DEF ListInv
<1> QED BY <1>3, <1>4, <1>7, <1>8, <1>15 DEF QueueInv

\* Nothing moves.
LEMMA ListStays ==
  ASSUME NEW q, ListInv(q), UNCHANGED vars
  PROVE  ListInv(q)'
<1>1. /\ UNCHANGED <<mHead, mTail, mID, mCount, Next, Data, pool, mCapacity>>
      /\ UNCHANGED <<value, newNode, localMyIdFlag, localMyHead, localMyTail, localMyNext, outData>>
      /\ UNCHANGED <<pc, serial, taken>>
  BY DEF vars, shared, locals
<1>2. /\ Carrying' = Carrying /\ Freeing' = Freeing /\ Linked' = Linked /\ Unlinked' = Unlinked
      /\ SpareNodes' = SpareNodes
  BY <1>1 DEF Carrying, Freeing, Linked, Unlinked, SpareNodes
<1>3. HandNodes' = HandNodes
  BY <1>1, <1>2 DEF HandNodes, NodeOf
<1> QED BY <1>1, <1>2, <1>3 DEF ListInv, Placed, TailIn, HeadsPassed, Counted

\* Nothing moves, nothing changes.
LEMMA StutterKeeps ==
  ASSUME QueueInv, UNCHANGED vars
  PROVE  QueueInv'
<1>1. /\ UNCHANGED <<mHead, mTail, mID, mCount, Next, Data, pool, mCapacity>>
      /\ UNCHANGED <<value, newNode, localMyIdFlag, localMyHead, localMyTail, localMyNext, outData>>
      /\ UNCHANGED <<pc, serial, taken>>
  BY DEF vars, shared, locals
<1>2. TypeOK'
  BY <1>1 DEF QueueInv, TypeOK
<1>3. LocalsKnown'
  BY <1>1 DEF QueueInv, LocalsKnown
<1>4. Getting' = Getting /\ Begun' = Begun
  BY <1>1 DEF Getting, Begun
<1>5. Bounded' /\ PoolApart'
  BY <1>1, <1>4 DEF QueueInv, Bounded, PoolApart
<1>6. TailsTrue' /\ HeadsTrue'
  BY <1>1 DEF QueueInv, TailsTrue, HeadsTrue, newTailHopeToChange
<1>7. \E q : ListInv(q)'
  BY ListStays DEF QueueInv
<1> QED BY <1>2, <1>3, <1>5, <1>6, <1>7 DEF QueueInv

\* A step is one of a thread, or none.
LEMMA StepsAreThreads ==
  ASSUME [NextStep]_vars
  PROVE  (\E t \in Threads : ThreadStep(t)) \/ UNCHANGED vars
<1>1. CASE \E t \in Producers : EnqueueId(t) \/ EnqueueStep(t)
  BY <1>1, ConstantFacts DEF ThreadStep, ProducerStep
<1>2. CASE \E t \in Consumers : TryDequeue(t) \/ DequeueStep(t)
  BY <1>2, ConstantFacts DEF ThreadStep, ConsumerStep
<1> QED BY <1>1, <1>2 DEF NextStep, Finished

\* The invariant is inductive as long as the hypotheses hold.
LEMMA InvariantStep ==
  ASSUME QueueInv, Undisturbed, [NextStep]_vars
  PROVE  QueueInv'
BY ThreadKeeps, StutterKeeps, StepsAreThreads

\* The invariant, in every behaviour in which the hypotheses hold.
THEOREM QueueInvariant == Spec /\ []Undisturbed => []QueueInv
<1>1. Init => QueueInv
  BY InitInv
<1>2. QueueInv /\ Undisturbed /\ [NextStep]_vars => QueueInv'
  BY InvariantStep
<1> QED BY <1>1, <1>2, PTL DEF Spec

----------------------------------------------------------------------------
(* What the callers see *)

\* The values in a list, first to last.
ValuesOf(q) == [i \in 1 .. Len(q) - 1 |-> Data[q[i + 1][1]]]

\* Following Next from mHead finds the list.
LEMMA ListIsWalked ==
  ASSUME NEW q, ListInv(q)
  PROVE  Length = Len(q) - 1 /\ Contents = ValuesOf(q)
<1> DEFINE n == Len(q)
           m == MaxNodes
<1>1. /\ n \in Nat \ {0} /\ m \in Nat /\ n <= m
      /\ NodeAt = [i \in 1 .. m + 1 |-> IF i <= n THEN q[i][1] ELSE 0]
  BY ListFacts, NodeAtIs, ConstantFacts
<1>2. \A i \in 1 .. n : q[i][1] # 0
  <2>1. \A i \in 1 .. Len(q) : q[i] \in NodePointers
    BY ListFacts
  <2> QED BY <2>1, PointerFacts
<1> HIDE DEF n, m
<1>3. { i \in 2 .. m + 1 : NodeAt[i] # 0 } = 2 .. n
  <2>1. \A i \in 2 .. m + 1 : NodeAt[i] # 0 <=> i <= n
    BY <1>1, <1>2
  <2>2. /\ n \in Nat \ {0} /\ m \in Nat /\ n <= m
        /\ \A i : i \in 2 .. n <=> i \in 2 .. m + 1 /\ i <= n
    BY <1>1
  <2>3. \A i : i \in { j \in 2 .. m + 1 : NodeAt[j] # 0 } <=> i \in 2 .. n
    BY <2>1, <2>2
  <2> QED BY <2>3
<1>4. Cardinality(2 .. n) = n - 1
  BY <1>1, FS_Interval
<1>5. Length = n - 1
  BY <1>3, <1>4 DEF Length, m
<1>6. \A i \in 1 .. n - 1 : NodeAt[i + 1] = q[i + 1][1]
  BY <1>1
<1> QED BY <1>5, <1>6 DEF Contents, ValuesOf, n

\* The same after a step.
LEMMA ListIsWalkedThen ==
  ASSUME NEW q
  PROVE  ListInv(q)' => (Length = Len(q) - 1 /\ Contents = ValuesOf(q))'
<1>1. ListInv(q) => Length = Len(q) - 1 /\ Contents = ValuesOf(q)
  BY ListIsWalked
<1> QED BY <1>1, PTL

\* What a step does to the values in the list, and to those taken.
LEMMA ValuesStep ==
  ASSUME TypeOK, LocalsKnown, HeadsTrue, AppendsToList, NEW q, ListInv(q),
         NEW t \in Threads, ThreadStep(t), NEW p, p = newTailHopeToChange(t)
  PROVE  /\ ~Appends(t) /\ ~Removes(t) => ValuesOf(q)' = ValuesOf(q) /\ taken' = taken
         /\ t \in Producers /\ Appends(t)
              => /\ ValuesOf(Append(q, p))' = Append(ValuesOf(q), value[t])
                 /\ value[t] \in Values /\ taken' = taken
         /\ t \in Consumers /\ Removes(t)
              => /\ ValuesOf(Tail(q))' = Tail(ValuesOf(q)) /\ ValuesOf(q) # <<>>
                 /\ taken' = Append(taken, Head(ValuesOf(q)))
<1> DEFINE n == Len(q)
           V == Values \cup {NoValue}
<1>1. q \in Seq(NodePointers) /\ n \in Nat \ {0} /\ q # <<>> /\ n - 1 \in Nat
  <2>1. q \in Seq(NodePointers) /\ n \in Nat \ {0} /\ q # <<>>
    BY ListFacts
  <2> QED BY <2>1
<1>2. \A i \in 1 .. n : q[i][1] \in Nodes
  BY ListFacts
<1>3. Data \in [Nodes -> V]
  BY DEF TypeOK
<1>4. ValuesOf(q) \in Seq(V) /\ Len(ValuesOf(q)) = n - 1
  <2>1. ValuesOf(q) \in [1 .. n - 1 -> V]
    <3>1. \A i \in 1 .. n - 1 : i + 1 \in 1 .. n
      BY <1>1
    <3> QED BY <1>2, <1>3, <3>1 DEF ValuesOf
  <2> HIDE DEF n, V
  <2> QED BY <1>1, <2>1, FunctionIsSeq
<1>5. \A i \in 1 .. n - 1 : ValuesOf(q)[i] = Data[q[i + 1][1]]
  BY DEF ValuesOf
<1> HIDE DEF V
<1>6. CASE ~Appends(t) /\ ~Removes(t)
  <2>1. taken' = taken
    BY <1>6 DEF ThreadStep, ProducerStep, ConsumerStep, EnqueueStep, DequeueStep, EnqueueId, Alloc, NewNode,
                Fill, ReadTail, Link, ReadNext, Help, Swing, CountUp, TryDequeue, ReadHead, ReadHeadTail,
                ReadHeadNext, SeemsEmpty, CopyData, MoveHead, Free, CountDown, Removes
  <2>2. \A i \in 1 .. n : Data'[q[i][1]] = Data[q[i][1]]
    <3>1. Fill(t) => t \in Carrying
      <4>1. t \in Consumers => pc[t] \in DequeueLabels
        BY DEF LocalsKnown
      <4> QED BY <4>1 DEF Fill, At, Carrying, DequeueLabels, Threads
    <3>2. Fill(t) => \A i \in 1 .. n : q[i][1] # newNode[t]
      BY <3>1, HandFacts
    <3> QED BY <1>2, <3>2, DataStays
  <2>3. \A i \in 1 .. n - 1 : i + 1 \in 1 .. n
    BY <1>1
  <2>4. ValuesOf(q)' = ValuesOf(q)
    BY <2>2, <2>3 DEF ValuesOf
  <2> QED BY <1>6, <2>1, <2>4
<1>7. CASE t \in Producers /\ Appends(t)
  <2>1. /\ At(t, "link") /\ p \in NodePointers /\ p[1] = newNode[t] /\ Data' = Data
    BY <1>7, AppendFacts
  <2>2. Data[p[1]] = value[t] /\ value[t] \in Values
    BY <1>7, <2>1 DEF LocalsKnown, At
  <2>3. taken' = taken
    BY <1>7 DEF Appends, Link
  <2> DEFINE r == Append(q, p)
             v == value[t]
             s == Append(ValuesOf(q), v)
             w == ValuesOf(r)'
  <2>4. /\ Len(r) = n + 1 /\ \A i \in 1 .. n : r[i] = q[i]
        /\ r[n + 1] = p
    BY <1>1, <2>1, RowFacts
  <2>5. w = [i \in 1 .. n |-> Data[r[i + 1][1]]]
    <3>1. Len(r) - 1 = n
      BY <1>1, <2>4
    <3> QED BY <2>1, <3>1 DEF ValuesOf
  <2>6. v \in V
    BY <2>2 DEF V
  <2>7. /\ s \in Seq(V) /\ Len(s) = (n - 1) + 1
        /\ \A i \in 1 .. n - 1 : s[i] = ValuesOf(q)[i]
        /\ s[(n - 1) + 1] = v
    BY <1>4, <2>6, Appended
  <2> HIDE DEF r, s, w, v, n
  <2>8. (n - 1) + 1 = n
    BY <1>1
  <2>9. \A i \in 1 .. n : w[i] = s[i]
    <3> TAKE i \in 1 .. n
    <3>1. CASE i = n
      BY <2>2, <2>4, <2>5, <2>7, <2>8, <3>1 DEF v
    <3>2. CASE i # n
      <4>1. i \in 1 .. n - 1 /\ i + 1 \in 1 .. n
        BY <1>1, <3>2
      <4> QED BY <1>5, <2>4, <2>5, <2>7, <4>1
    <3> QED BY <3>1, <3>2
  <2>10. s = [i \in 1 .. n |-> s[i]]
    BY <2>7, <2>8, SeqIsFunction
  <2>11. w = s
    BY <2>5, <2>9, <2>10
  <2> QED BY <1>7, <2>1, <2>2, <2>3, <2>11 DEF r, s, w, v, Removes, MoveHead, At
<1>8. CASE t \in Consumers /\ Removes(t)
  <2>1. At(t, "d_cas") /\ n >= 2 /\ outData[t] = Data[q[2][1]] /\ Data' = Data
    BY <1>8, RemoveFacts
  <2>2. taken' = Append(taken, outData[t])
    BY <1>8 DEF Removes, MoveHead
  <2> DEFINE r == Tail(q)
             u == ValuesOf(q)
             s == Tail(u)
             w == ValuesOf(r)'
  <2>3. Len(r) = n - 1 /\ \A i \in 1 .. n - 1 : r[i] = q[i + 1]
    BY <1>1, TailOf
  <2>4. u # <<>>
    <3>1. Len(u) # 0
      BY <1>1, <1>4, <2>1
    <3> QED BY <1>4, <3>1, LengthZero
  <2>5. w = [i \in 1 .. (n - 1) - 1 |-> Data[r[i + 1][1]]]
    BY <2>1, <2>3 DEF ValuesOf
  <2> HIDE DEF u
  <2>6. /\ s \in Seq(V) /\ Len(s) = Len(u) - 1
        /\ \A i \in 1 .. Len(u) - 1 : s[i] = u[i + 1]
        /\ Head(u) = u[1]
    BY <1>4, <2>4, TailOf DEF u
  <2>7. Len(u) = n - 1 /\ \A i \in 1 .. n - 1 : u[i] = Data[q[i + 1][1]]
    BY <1>4, <1>5 DEF u
  <2> HIDE DEF r, s, w, n
  <2>8. Head(u) = outData[t]
    <3>1. 1 \in 1 .. n - 1 /\ 1 + 1 = 2
      BY <1>1, <2>1
    <3>2. u[1] = Data[q[1 + 1][1]]
      BY <2>7, <3>1
    <3> QED BY <2>1, <2>6, <3>1, <3>2
  <2>9. \A i \in 1 .. (n - 1) - 1 : w[i] = s[i]
    <3> TAKE i \in 1 .. (n - 1) - 1
    <3>1. i + 1 \in 1 .. n - 1
      BY <1>1
    <3> QED BY <2>3, <2>5, <2>6, <2>7, <3>1
  <2>10. s = [i \in 1 .. (n - 1) - 1 |-> s[i]]
    <3>1. s = [i \in 1 .. Len(s) |-> s[i]]
      BY <2>6, SeqIsFunction
    <3>2. Len(s) = (n - 1) - 1
      BY <2>6, <2>7
    <3> QED BY <3>1, <3>2
  <2>11. w = s
    BY <2>5, <2>9, <2>10
  <2> QED BY <1>8, <2>1, <2>2, <2>4, <2>8, <2>11 DEF r, s, u, w, Appends, Link, At
<1> QED BY <1>6, <1>7, <1>8 DEF Appends, Removes

\* What a step does to what the callers see.
LEMMA CallersSee ==
  ASSUME QueueInv, Undisturbed, NEW t \in Threads, ThreadStep(t)
  PROVE  /\ ~Appends(t) /\ ~Removes(t) => Contents' = Contents /\ taken' = taken
         /\ Appends(t) => /\ t \in Producers /\ value[t] \in Values
                          /\ Contents' = Append(Contents, value[t]) /\ taken' = taken
         /\ Removes(t) => /\ t \in Consumers /\ Contents # <<>>
                          /\ Contents' = Tail(Contents) /\ taken' = Append(taken, Head(Contents))
<1>1. PICK q : ListInv(q)
  BY DEF QueueInv
<1>2. TypeOK /\ LocalsKnown /\ Bounded /\ PoolApart /\ TailsTrue /\ HeadsTrue /\ AppendsToList
  BY DEF QueueInv, Undisturbed
<1>3. Contents = ValuesOf(q)
  BY <1>1, ListIsWalked
<1>4. PICK p : p = newTailHopeToChange(t)
  OBVIOUS
<1>5. CASE ~Appends(t) /\ ~Removes(t)
  <2>1. ListInv(q)'
    BY <1>1, <1>2, <1>4, <1>5, ListInvStep
  <2>2. ValuesOf(q)' = ValuesOf(q) /\ taken' = taken
    BY <1>1, <1>2, <1>4, <1>5, ValuesStep
  <2>3. Contents' = ValuesOf(q)'
    BY <2>1, ListIsWalkedThen
  <2> QED BY <1>3, <1>5, <2>2, <2>3
<1>6. CASE Appends(t)
  <2>1. t \in Producers /\ ~Removes(t)
    BY <1>2, <1>6, WhoMoves DEF Appends, Link, Removes, MoveHead, At
  <2>2. ListInv(Append(q, p))'
    BY <1>1, <1>2, <1>4, <1>6, <2>1, ListInvStep
  <2>3. /\ ValuesOf(Append(q, p))' = Append(ValuesOf(q), value[t])
        /\ value[t] \in Values /\ taken' = taken
    BY <1>1, <1>2, <1>4, <1>6, <2>1, ValuesStep
  <2>4. Contents' = ValuesOf(Append(q, p))'
    BY <2>2, ListIsWalkedThen
  <2> QED BY <1>3, <1>6, <2>1, <2>3, <2>4
<1>7. CASE Removes(t)
  <2>1. t \in Consumers /\ ~Appends(t)
    BY <1>2, <1>7, WhoMoves DEF Appends, Link, Removes, MoveHead, At
  <2>2. ListInv(Tail(q))'
    BY <1>1, <1>2, <1>4, <1>7, <2>1, ListInvStep
  <2>3. /\ ValuesOf(Tail(q))' = Tail(ValuesOf(q)) /\ ValuesOf(q) # <<>>
        /\ taken' = Append(taken, Head(ValuesOf(q)))
    BY <1>1, <1>2, <1>4, <1>7, <2>1, ValuesStep
  <2>4. Contents' = ValuesOf(Tail(q))'
    BY <2>2, ListIsWalkedThen
  <2> QED BY <1>3, <1>7, <2>1, <2>3, <2>4
<1> QED BY <1>5, <1>6, <1>7

\* Nothing moves.
LEMMA CallersStay ==
  ASSUME QueueInv, UNCHANGED vars
  PROVE  UNCHANGED <<Contents, taken>>
<1>1. PICK q : ListInv(q)
  BY DEF QueueInv
<1>2. ListInv(q)' /\ taken' = taken /\ ValuesOf(q)' = ValuesOf(q)
  BY <1>1, ListStays DEF vars, shared, ValuesOf
<1>3. Contents' = ValuesOf(q)' /\ Contents = ValuesOf(q)
  BY <1>1, <1>2, ListIsWalked, ListIsWalkedThen
<1> QED BY <1>2, <1>3

\* Every step is a step of the queue, or none: Enqueue and TryDequeue happen at their
\* successful compare-and-swaps on Next and on mHead.
LEMMA StepIsFifoStep ==
  ASSUME QueueInv, Undisturbed, [NextStep]_vars
  PROVE  [Fifo!Next]_(Fifo!vars)
<1>1. ASSUME NEW t \in Threads, ThreadStep(t)
      PROVE  [Fifo!Next]_(Fifo!vars)
  <2>1. CASE ~Appends(t) /\ ~Removes(t)
    BY <1>1, <2>1, CallersSee DEF Fifo!vars
  <2>2. CASE Appends(t)
    <3>1. value[t] \in Values /\ Fifo!Enqueue(value[t])
      BY <1>1, <2>2, CallersSee DEF Fifo!Enqueue
    <3> QED BY <3>1 DEF Fifo!Next
  <2>3. CASE Removes(t)
    <3>1. Fifo!Dequeue
      BY <1>1, <2>3, CallersSee DEF Fifo!Dequeue
    <3> QED BY <3>1 DEF Fifo!Next
  <2> QED BY <2>1, <2>2, <2>3
<1>2. CASE UNCHANGED vars
  BY <1>2, CallersStay DEF Fifo!vars
<1> QED BY <1>1, <1>2, StepsAreThreads

\* A new queue is empty.
LEMMA InitIsFifoInit ==
  ASSUME Init
  PROVE  Fifo!Init
<1>1. PICK q : ListInv(q)
  BY InitInv DEF QueueInv
<1>2. Len(q) \in Nat \ {0} /\ mCount = Len(q) - 1 - Cardinality(Linked) + Cardinality(Unlinked)
  BY <1>1, ListFacts DEF ListInv, Counted
<1>3. Linked = {} /\ Unlinked = {} /\ mCount = 0 /\ taken = <<>>
  BY ConstantFacts DEF Init, Linked, Unlinked
<1>4. Len(q) - 1 = 0
  <2> DEFINE a == Cardinality(Linked)
             b == Cardinality(Unlinked)
             n == Len(q)
  <2>1. a = 0 /\ b = 0
    BY <1>3, FS_EmptySet
  <2>2. n \in Nat /\ mCount = n - 1 - a + b
    BY <1>2
  <2> HIDE DEF a, b, n
  <2>3. n - 1 = 0
    BY <1>3, <2>1, <2>2
  <2> QED BY <2>3 DEF n
<1>5. Contents = <<>>
  <2> DEFINE n == Len(q) - 1
             f == [i \in 1 .. n |-> Data[q[i + 1][1]]]
             V == { f[i] : i \in 1 .. n }
  <2>1. Contents = f /\ f \in [1 .. n -> V] /\ n = 0
    BY <1>1, <1>4, ListIsWalked DEF ValuesOf
  <2> HIDE DEF n, f, V
  <2>2. f \in Seq(V) /\ Len(f) = n
    BY <2>1, FunctionIsSeq
  <2> QED BY <2>1, <2>2, LengthZero
<1> QED BY <1>3, <1>5 DEF Fifo!Init

\* What the list says of mTail, of mCount and of the nodes.
LEMMA ListSays ==
  ASSUME QueueInv
  PROVE  TailInList /\ CountIsLength
<1>1. PICK q : ListInv(q)
  BY DEF QueueInv
<1>2. /\ Len(q) \in Nat \ {0} /\ MaxNodes \in Nat /\ Len(q) <= MaxNodes
      /\ NodeAt = [i \in 1 .. MaxNodes + 1 |-> IF i <= Len(q) THEN q[i][1] ELSE 0]
      /\ \A i \in 1 .. Len(q) : q[i] \in NodePointers
  BY <1>1, ListFacts, NodeAtIs, ConstantFacts
<1>3. TailInList
  <2>1. PICK j \in 1 .. Len(q) : mTail = q[j]
    BY <1>1, ListFacts
  <2>2. q[j] \in NodePointers /\ j <= Len(q)
    BY <1>2
  <2> DEFINE n == Len(q)
             m == MaxNodes
  <2>3. n \in Nat \ {0} /\ m \in Nat /\ n <= m /\ j \in 1 .. n
    BY <1>2
  <2> HIDE DEF n, m
  <2>4. j \in 1 .. m + 1
    BY <2>3
  <2>5. NodeAt[j] = q[j][1] /\ q[j][1] # 0
    BY <1>2, <2>2, <2>4, PointerFacts DEF m
  <2> QED BY <2>1, <2>4, <2>5 DEF TailInList, getPurePointer, m
<1>4. CountIsLength
  <2> DEFINE a == Cardinality(Linked)
             b == Cardinality(Unlinked)
             n == Len(q)
             len == Length
  <2>1. IsFiniteSet(Linked) /\ IsFiniteSet(Unlinked)
    <3>1. Linked \in SUBSET Producers /\ Unlinked \in SUBSET Consumers
      BY DEF Linked, Unlinked
    <3> QED BY <3>1, ConstantFacts, FS_Subset
  <2>2. a \in Nat /\ b \in Nat
    BY <2>1, FS_CardinalityType
  <2>3. mCount = n - 1 - a + b /\ n \in Nat /\ len = n - 1
    BY <1>1, <1>2, ListIsWalked DEF ListInv, Counted
  <2> HIDE DEF a, b, n, len
  <2>4. mCount = len - a + b
    BY <2>2, <2>3
  <2> QED BY <2>4 DEF CountIsLength, a, b, len, Linked, Unlinked
<1> QED BY <1>3, <1>4

\* A node that was made is in one place.
LEMMA OnePlace ==
  ASSUME QueueInv
  PROVE  NodesConserved
<1>1. PICK q : ListInv(q)
  BY DEF QueueInv
<1>2. TypeOK /\ LocalsKnown /\ PoolApart /\ LocalTypes
  BY LocalsTyped DEF QueueInv
<1>3. /\ Apart(Nodes, SpareNodes, HandNodes, NodesOf(q))
      /\ Nodes = Off(SpareNodes, HandNodes) \cup { q[i][1] : i \in 1 .. Len(q) }
  BY <1>1 DEF ListInv, Placed
<1> DEFINE l == Len(q)
           m == MaxNodes
<1>4. /\ l \in Nat \ {0} /\ m \in Nat /\ l <= m
      /\ NodeAt = [i \in 1 .. m + 1 |-> IF i <= l THEN q[i][1] ELSE 0]
      /\ \A i \in 1 .. l : q[i][1] \in Nodes
      /\ \A i, j \in 1 .. l : q[i][1] = q[j][1] => i = j
      /\ NodesOf(q) \in Seq(Nodes) /\ Len(NodesOf(q)) = l /\ \A i \in 1 .. l : NodesOf(q)[i] = q[i][1]
  BY <1>1, ListFacts, NodeAtIs, ConstantFacts
<1>5. /\ DOMAIN HandNodes = Carrying \cup Freeing /\ Carrying \cap Freeing = {}
      /\ \A t \in Carrying : HandNodes[t] = newNode[t]
      /\ \A t \in Freeing : HandNodes[t] = localMyHead[t][1]
  BY <1>1, HandFacts
<1>6. pool \in Seq(Nodes) /\ Len(pool) \in Nat /\ DOMAIN pool = 1 .. Len(pool) /\ mCapacity \in Nodes
  BY <1>2, LengthZero DEF TypeOK
<1> HIDE DEF l, m
<1>7. ASSUME NEW n \in 1 .. mCapacity
      PROVE  Cardinality(Places(n)) = 1
  <2> DEFINE InPool == { <<"pool", i>> : i \in { j \in DOMAIN pool : pool[j] = n } }
             InList == { <<"list", i>> : i \in { j \in 1 .. m + 1 : NodeAt[j] = n } }
             New    == { <<"new", t>> : t \in { u \in Producers : /\ newNode[u] = n
                                                                  /\ pc[u] \notin {"swing", "count"} } }
             Old    == { <<"old", t>> : t \in { u \in Consumers : /\ getPurePointer(localMyHead[u]) = n
                                                                  /\ At(u, "d_free") } }
  <2>1. Places(n) = InPool \cup InList \cup New \cup Old
    BY DEF Places, m
  <2>2. n \in Nodes /\ n # 0
    BY <1>6, ConstantFacts DEF Nodes
  <2>3. ASSUME NEW x \in InPool
        PROVE  \E i \in 1 .. Len(pool) : x = <<"pool", i>> /\ pool[i] = n
    BY <1>6, <2>3
  <2>4. ASSUME NEW x \in InList
        PROVE  \E i \in 1 .. l : x = <<"list", i>> /\ NodesOf(q)[i] = n
    <3>1. PICK i \in 1 .. m + 1 : x = <<"list", i>> /\ NodeAt[i] = n
      BY <2>4
    <3>2. i <= l /\ q[i][1] = n
      BY <1>4, <2>2, <3>1
    <3>3. i \in 1 .. l
      BY <1>4, <3>2
    <3> QED BY <1>4, <3>1, <3>2, <3>3
  <2>5. ASSUME NEW x \in New
        PROVE  \E t \in Carrying : x = <<"new", t>> /\ HandNodes[t] = n
    <3>1. PICK t \in Producers : x = <<"new", t>> /\ newNode[t] = n /\ pc[t] \notin {"swing", "count"}
      BY <2>5
    <3>2. pc[t] \in EnqueueLabels /\ pc[t] \notin {"idle", "alloc", "new"}
      BY <1>2, <2>2, <3>1 DEF LocalsKnown
    <3>3. t \in Carrying
      BY <3>1, <3>2 DEF EnqueueLabels, Carrying
    <3> QED BY <1>5, <3>1, <3>3
  <2>6. ASSUME NEW x \in Old
        PROVE  \E t \in Freeing : x = <<"old", t>> /\ HandNodes[t] = n
    BY <1>5, <2>6 DEF Freeing, At, getPurePointer
  <2> DEFINE Holding == DOMAIN HandNodes
  <2>7. \A x \in New \cup Old : \E t \in Holding : HandNodes[t] = n /\ (x = <<"new", t>> \/ x = <<"old", t>>)
                                  /\ (x \in New => x = <<"new", t>> /\ t \in Carrying)
                                  /\ (x \in Old => x = <<"old", t>> /\ t \in Freeing)
    <3> TAKE x \in New \cup Old
    <3>1. x \in New => x \notin Old
      <4>1. x \in New => x[1] = "new"
        OBVIOUS
      <4>2. x \in Old => x[1] = "old"
        OBVIOUS
      <4> QED BY <4>1, <4>2
    <3> HIDE DEF New, Old
    <3> QED BY <1>5, <2>5, <2>6, <3>1
  <2>8. /\ \A i \in 1 .. Len(pool) : pool[i] \in SpareNodes
        /\ \A i, j \in 1 .. Len(pool) : pool[i] = pool[j] => i = j
    BY <1>2 DEF SpareNodes, PoolApart
  <2>9. /\ \A i, j \in 1 .. l : NodesOf(q)[i] = NodesOf(q)[j] => i = j
        /\ \A i \in 1 .. l : NodesOf(q)[i] \notin SpareNodes /\ \A t \in Holding : HandNodes[t] # NodesOf(q)[i]
        /\ \A t \in Holding : HandNodes[t] \notin SpareNodes
        /\ \A t, u \in Holding : HandNodes[t] = HandNodes[u] => t = u
    BY <1>3, <1>4 DEF Apart
  <2> HIDE DEF InPool, InList, New, Old, Holding
  <2>10. \A x, y \in Places(n) : x = y
    <3> TAKE x, y \in Places(n)
    <3>1. CASE x \in InPool
      <4>1. n \in SpareNodes
        BY <2>3, <2>8, <3>1
      <4>2. y \in InPool
        BY <2>1, <2>4, <2>7, <2>9, <4>1
      <4> QED BY <2>3, <2>8, <3>1, <4>2
    <3>2. CASE x \in InList
      <4>1. PICK i \in 1 .. l : x = <<"list", i>> /\ NodesOf(q)[i] = n
        BY <2>4, <3>2
      <4>2. y \in InList
        BY <2>1, <2>3, <2>7, <2>8, <2>9, <4>1
      <4> QED BY <2>4, <2>9, <4>1, <4>2
    <3>3. CASE x \in New \cup Old
      <4>1. PICK t \in Holding : /\ HandNodes[t] = n
                                 /\ x \in New => x = <<"new", t>> /\ t \in Carrying
                                 /\ x \in Old => x = <<"old", t>> /\ t \in Freeing
        BY <2>7, <3>3
      <4>2. y \in New \cup Old
        BY <2>1, <2>3, <2>4, <2>8, <2>9, <4>1
      <4>3. PICK u \in Holding : /\ HandNodes[u] = n
                                 /\ y \in New => y = <<"new", u>> /\ u \in Carrying
                                 /\ y \in Old => y = <<"old", u>> /\ u \in Freeing
        BY <2>7, <4>2
      <4>4. t = u
        BY <2>9, <4>1, <4>3
      <4> QED BY <1>5, <3>3, <4>1, <4>2, <4>3, <4>4
    <3> QED BY <2>1, <3>1, <3>2, <3>3
  <2>11. Places(n) # {}
    <3>1. n \in SpareNodes \/ (\E t \in Holding : HandNodes[t] = n) \/ \E i \in 1 .. l : q[i][1] = n
      BY <1>3, <2>2 DEF Off, Holding, l
    <3>2. CASE n \in SpareNodes
      <4>1. n \notin mCapacity + 1 .. MaxNodes
        BY <1>6, ConstantFacts DEF Nodes
      <4>2. PICK i \in 1 .. Len(pool) : pool[i] = n
        BY <3>2, <4>1 DEF SpareNodes
      <4>3. <<"pool", i>> \in InPool
        BY <1>6, <4>2 DEF InPool
      <4> QED BY <2>1, <4>3
    <3>3. CASE \E t \in Holding : HandNodes[t] = n
      <4>1. PICK t \in Holding : HandNodes[t] = n
        BY <3>3
      <4>2. t \in Carrying => <<"new", t>> \in New
        BY <1>5, <4>1 DEF Carrying, New
      <4>3. t \in Freeing => <<"old", t>> \in Old
        BY <1>5, <4>1 DEF Freeing, Old, At, getPurePointer
      <4> QED BY <1>5, <2>1, <4>1, <4>2, <4>3 DEF Holding
    <3>4. CASE \E i \in 1 .. l : q[i][1] = n
      <4>1. PICK i \in 1 .. l : q[i][1] = n
        BY <3>4
      <4>2. i \in 1 .. m + 1 /\ i <= l
        BY <1>4
      <4>3. NodeAt[i] = n
        BY <1>4, <4>1, <4>2
      <4>4. <<"list", i>> \in InList
        BY <4>2, <4>3 DEF InList
      <4> QED BY <2>1, <4>4
    <3> QED BY <3>1, <3>2, <3>3, <3>4
  <2>12. PICK x : x \in Places(n)
    BY <2>11
  <2>13. Places(n) = {x}
    BY <2>10, <2>12
  <2> QED BY <2>13, FS_Singleton
<1> QED BY <1>7 DEF NodesConserved

\* As long as pointers are told apart and producers append to the list, the queue implements
\* FifoQueue: Enqueue and TryDequeue change it in one step each, and values leave in the order
\* in which they came, each of them once.
THEOREM QueueRefined == Spec /\ []Undisturbed => Fifo!Spec
<1>1. Init => Fifo!Init
  BY InitIsFifoInit
<1>2. QueueInv /\ Undisturbed /\ [NextStep]_vars => [Fifo!Next]_(Fifo!vars)
  BY StepIsFifoStep
<1> QED BY <1>1, <1>2, QueueInvariant, PTL DEF Spec, Fifo!Spec

\* Then mTail stays in the list, mCount differs from the length of the list by the calls that
\* have not counted yet, and no node is lost or in two places.
THEOREM QueueHolds == Spec /\ []Undisturbed => [](TypeOK /\ TailInList /\ CountIsLength /\ NodesConserved)
<1>1. QueueInv => TypeOK /\ TailInList /\ CountIsLength /\ NodesConserved
  BY ListSays, OnePlace DEF QueueInv
<1> QED BY <1>1, QueueInvariant, PTL

----------------------------------------------------------------------------
(* The order of what one producer enqueues *)

\* Who is enqueueing what is not yet in the list.
Bringing == { t \in Producers : pc[t] \in {"alloc", "new", "fill", "tail", "link", "read_next", "help"} }

\* All that was enqueued, first to last.
Enqueued == taken \o Contents

\* The serial numbers of a producer rise along row, and those still to come are higher.
Rising(row) ==
  /\ row \in Seq(Values)
  /\ \A i, j \in 1 .. Len(row) : i < j /\ row[i][1] = row[j][1] => row[i][2] < row[j][2]
  /\ \A i \in 1 .. Len(row) : row[i][2] <= serial[row[i][1]]
  /\ \A t \in Bringing : /\ value[t] = <<t, serial[t]>>
                         /\ \A i \in 1 .. Len(row) : row[i][1] = t => row[i][2] < serial[t]

OrderInv == taken \in Seq(Values) /\ Contents \in Seq(Values) /\ Rising(Enqueued)

\* A value is a producer and a number.
LEMMA ValueParts ==
  ASSUME NEW v \in Values
  PROVE  v[1] \in Producers /\ v[2] \in Nat /\ v = <<v[1], v[2]>>
<1>1. PICK p \in Producers, q \in Quotas : v \in {p} \X (1 .. q[p])
  BY DEF Values
<1>2. q[p] \in Nat
  BY QueueBounds
<1> QED BY <1>1, <1>2

\* What is taken moves from one part to the other.
LEMMA TakenMoves ==
  ASSUME NEW S, NEW s \in Seq(S), NEW c \in Seq(S), c # <<>>
  PROVE  /\ Append(s, Head(c)) \in Seq(S) /\ Tail(c) \in Seq(S)
         /\ Append(s, Head(c)) \o Tail(c) = s \o c
<1> DEFINE h == Head(c)
           d == Tail(c)
           n == Len(s)
           m == Len(c)
<1>1. n \in Nat /\ m \in Nat \ {0} /\ d \in Seq(S) /\ Len(d) = m - 1 /\ h \in S /\ h = c[1]
      /\ \A i \in 1 .. m - 1 : d[i] = c[i + 1]
  BY TailOf
<1> HIDE DEF h, d
<1> DEFINE a == Append(s, h)
<1>2. a \in Seq(S) /\ Len(a) = n + 1 /\ a[n + 1] = h /\ \A i \in 1 .. n : a[i] = s[i]
  BY <1>1, Appended
<1> HIDE DEF a
<1>3. /\ a \o d \in Seq(S) /\ Len(a \o d) = Len(a) + Len(d)
      /\ \A i \in 1 .. Len(a) : (a \o d)[i] = a[i]
      /\ \A i \in 1 .. Len(d) : (a \o d)[Len(a) + i] = d[i]
  <2>1. a \in Seq(S) /\ d \in Seq(S)
    BY <1>1, <1>2
  <2> QED BY <2>1, Concatenated
<1>4. /\ s \o c \in Seq(S) /\ Len(s \o c) = n + m
      /\ \A i \in 1 .. n : (s \o c)[i] = s[i]
      /\ \A i \in 1 .. m : (s \o c)[n + i] = c[i]
  BY Concatenated
<1> DEFINE u == a \o d
           w == s \o c
<1> HIDE DEF u, w, n, m
<1>5. /\ u \in Seq(S) /\ Len(u) = (n + 1) + (m - 1)
      /\ \A i \in 1 .. n + 1 : u[i] = a[i]
      /\ \A i \in 1 .. m - 1 : u[(n + 1) + i] = d[i]
  BY <1>1, <1>2, <1>3 DEF u
<1>6. ASSUME NEW i \in 1 .. n + m
      PROVE  u[i] = w[i]
  <2>1. CASE i \in 1 .. n
    <3>1. i \in 1 .. n + 1
      BY <1>1, <2>1
    <3> QED BY <1>2, <1>4, <1>5, <2>1, <3>1 DEF w
  <2>2. CASE i = n + 1
    <3>1. 1 \in 1 .. m /\ n + 1 \in 1 .. n + 1
      BY <1>1
    <3> QED BY <1>1, <1>2, <1>4, <1>5, <2>2, <3>1 DEF w
  <2>3. CASE i > n + 1
    <3> DEFINE k == i - (n + 1)
    <3>1. k \in 1 .. m - 1 /\ (n + 1) + k = i /\ k + 1 \in 1 .. m /\ n + (k + 1) = i
      BY <1>1, <2>3
    <3> HIDE DEF k
    <3>2. u[i] = d[k]
      BY <1>5, <3>1
    <3>3. w[i] = c[k + 1]
      BY <1>4, <3>1 DEF w
    <3> QED BY <1>1, <3>1, <3>2, <3>3
  <2> QED BY <1>1, <2>1, <2>2, <2>3
<1>7. u \in Seq(S) /\ w \in Seq(S) /\ Len(u) = n + m /\ Len(w) = n + m
  BY <1>1, <1>4, <1>5 DEF w
<1>8. u = w
  BY <1>6, <1>7, SameSequence
<1> QED BY <1>1, <1>2, <1>8 DEF u, w, a, h, d

\* One more comes behind all.
LEMMA AppendedBehind ==
  ASSUME NEW S, NEW s \in Seq(S), NEW c \in Seq(S), NEW v \in S
  PROVE  Append(c, v) \in Seq(S) /\ s \o c \in Seq(S) /\ s \o Append(c, v) = Append(s \o c, v)
<1> DEFINE n == Len(s)
           m == Len(c)
           d == Append(c, v)
           w == s \o c
<1>1. n \in Nat /\ m \in Nat
  BY LengthZero
<1>2. d \in Seq(S) /\ Len(d) = m + 1 /\ d[m + 1] = v /\ \A i \in 1 .. m : d[i] = c[i]
  BY Appended
<1>3. /\ w \in Seq(S) /\ Len(w) = n + m
      /\ \A i \in 1 .. n : w[i] = s[i]
      /\ \A i \in 1 .. m : w[n + i] = c[i]
  BY Concatenated
<1> HIDE DEF d, w
<1>4. /\ s \o d \in Seq(S) /\ Len(s \o d) = n + Len(d)
      /\ \A i \in 1 .. n : (s \o d)[i] = s[i]
      /\ \A i \in 1 .. Len(d) : (s \o d)[n + i] = d[i]
  <2>1. d \in Seq(S)
    BY <1>2
  <2> QED BY <2>1, Concatenated
<1>5. /\ Append(w, v) \in Seq(S) /\ Len(Append(w, v)) = (n + m) + 1
      /\ \A i \in 1 .. n + m : Append(w, v)[i] = w[i]
      /\ Append(w, v)[(n + m) + 1] = v
  BY <1>3, Appended
<1> DEFINE u == s \o d
           x == Append(w, v)
<1> HIDE DEF u, x, n, m
<1>6. ASSUME NEW i \in 1 .. (n + m) + 1
      PROVE  u[i] = x[i]
  <2>1. CASE i \in 1 .. n
    <3>1. i \in 1 .. n + m
      BY <1>1, <2>1
    <3> QED BY <1>3, <1>4, <1>5, <2>1, <3>1 DEF u, x
  <2>2. CASE i > n
    <3> DEFINE k == i - n
    <3>1. k \in 1 .. m + 1 /\ n + k = i
      BY <1>1, <2>2
    <3>2. k = m + 1 \/ (k \in 1 .. m /\ i \in 1 .. n + m)
      BY <1>1, <3>1
    <3>3. k = m + 1 => i = (n + m) + 1
      BY <1>1, <3>1
    <3> HIDE DEF k
    <3>4. u[i] = d[k]
      BY <1>2, <1>4, <3>1 DEF u
    <3>5. CASE k = m + 1
      BY <1>2, <1>5, <3>3, <3>4, <3>5 DEF x
    <3>6. CASE k \in 1 .. m /\ i \in 1 .. n + m
      BY <1>2, <1>3, <1>5, <3>1, <3>4, <3>6 DEF x
    <3> QED BY <3>2, <3>5, <3>6
  <2> QED BY <1>1, <2>1, <2>2
<1>7. u \in Seq(S) /\ x \in Seq(S) /\ Len(u) = (n + m) + 1 /\ Len(x) = (n + m) + 1
  BY <1>1, <1>2, <1>4, <1>5 DEF u, x
<1>8. u = x
  BY <1>6, <1>7, SameSequence
<1> QED BY <1>2, <1>3, <1>8 DEF u, x, d, w

\* What a producer brings, after a step of t.
LEMMA BringingStep ==
  ASSUME TypeOK, LocalsKnown, Bounded, NEW t \in Threads, ThreadStep(t)
  PROVE  /\ \A u \in Bringing' : \/ u \in Bringing /\ value'[u] = value[u] /\ serial'[u] = serial[u]
                                 \/ u = t /\ value'[u] = <<u, serial'[u]>> /\ serial'[u] = serial[u] + 1
         /\ \A u \in Producers : serial[u] \in Nat /\ serial'[u] \in Nat /\ serial[u] <= serial'[u]
         /\ Appends(t) => t \in Bringing /\ t \notin Bringing' /\ serial' = serial
<1>1. LocalTypes /\ serial \in [Producers -> Nat] /\ \A u \in Producers : u \in Threads
  BY LocalsTyped, ConstantFacts DEF Bounded
<1>2. t \in Consumers => t \notin Producers
  BY ConstantFacts
<1>3. CASE EnqueueId(t) /\ t \in Producers
  <2>1. /\ serial' = [serial EXCEPT ![t] = serial[t] + 1] /\ value'[t] = <<t, serial[t] + 1>> /\ At(t, "idle")
    BY <1>1, <1>3 DEF EnqueueId, LocalTypes
  <2>2. ~Appends(t)
    BY <2>1 DEF Appends, Link, At
  <2>3. \A u \in Bringing' : u # t => u \in Bringing /\ value'[u] = value[u]
    BY <1>1, OthersStay DEF Bringing
  <2>4. \A u \in Producers : u # t => serial'[u] = serial[u]
    BY <1>1, <2>1
  <2>5. serial'[t] = serial[t] + 1 /\ serial[t] \in Nat
    BY <1>1, <1>3, <2>1
  <2> QED BY <1>1, <2>1, <2>2, <2>3, <2>4, <2>5 DEF Bringing
<1>4. CASE ~EnqueueId(t) /\ t \in Producers
  <2>1. serial' = serial
    BY <1>2, <1>4 DEF ThreadStep, ProducerStep, EnqueueStep, Alloc, NewNode, Fill, ReadTail, Link,
                      ReadNext, Help, Swing, CountUp
  <2>2. \A u \in Bringing' : u # t => u \in Bringing /\ value'[u] = value[u]
    BY <1>1, OthersStay DEF Bringing
  <2>3. t \in Bringing' => t \in Bringing /\ value'[t] = value[t]
    <3>1. CASE Alloc(t) \/ NewNode(t) \/ Fill(t)
      BY <1>1, <3>1 DEF Alloc, NewNode, Fill, Bringing, LocalTypes, At, Goto, locals
    <3>2. CASE ReadTail(t) \/ Link(t) \/ ReadNext(t)
      BY <1>1, <3>2 DEF ReadTail, Link, ReadNext, Bringing, LocalTypes, At, Goto, locals
    <3>3. CASE Help(t) \/ Swing(t) \/ CountUp(t)
      BY <1>1, <3>3 DEF Help, Swing, CountUp, Bringing, LocalTypes, At, Goto, locals
    <3> QED BY <1>2, <1>4, <3>1, <3>2, <3>3 DEF ThreadStep, ProducerStep, EnqueueStep
  <2>4. Appends(t) => t \in Bringing /\ t \notin Bringing'
    BY <1>1, <1>4 DEF Appends, Link, Bringing, LocalTypes, At, Goto, getPurePointer
  <2> QED BY <1>1, <2>1, <2>2, <2>3, <2>4
<1>5. CASE t \in Consumers
  <2>1. serial' = serial /\ ~Appends(t)
    <3>1. pc[t] \in DequeueLabels
      BY <1>5 DEF LocalsKnown
    <3> QED BY <1>2, <1>5, <3>1 DEF ThreadStep, ConsumerStep, DequeueStep, TryDequeue, ReadHead, ReadHeadTail,
                  ReadHeadNext, SeemsEmpty, CopyData, MoveHead, Free, CountDown, Appends, Link, At, DequeueLabels
  <2>2. \A u \in Bringing' : u \in Bringing /\ value'[u] = value[u]
    BY <1>1, <1>2, <1>5, OthersStay DEF Bringing
  <2> QED BY <1>1, <2>1, <2>2
<1> QED BY <1>3, <1>4, <1>5 DEF Threads

\* A step keeps the order.
LEMMA OrderStep ==
  ASSUME QueueInv, Undisturbed, OrderInv, NEW t \in Threads, ThreadStep(t)
  PROVE  OrderInv'
<1>1. TypeOK /\ LocalsKnown /\ Bounded
  BY DEF QueueInv
<1> DEFINE row == Enqueued
           n == Len(row)
<1>2. /\ row \in Seq(Values) /\ n \in Nat
      /\ \A i, j \in 1 .. n : i < j /\ row[i][1] = row[j][1] => row[i][2] < row[j][2]
      /\ \A i \in 1 .. n : row[i][2] <= serial[row[i][1]]
      /\ \A u \in Bringing : /\ value[u] = <<u, serial[u]>>
                             /\ \A i \in 1 .. n : row[i][1] = u => row[i][2] < serial[u]
      /\ taken \in Seq(Values) /\ Contents \in Seq(Values)
  BY LengthZero DEF OrderInv, Rising
<1>3. \A i \in 1 .. n : row[i] \in Values
  BY <1>2
<1>4. \A i \in 1 .. n : row[i][1] \in Producers /\ row[i][2] \in Nat
  BY <1>3, ValueParts
<1>5. /\ \A u \in Bringing' : \/ u \in Bringing /\ value'[u] = value[u] /\ serial'[u] = serial[u]
                              \/ u = t /\ value'[u] = <<u, serial'[u]>> /\ serial'[u] = serial[u] + 1
      /\ \A u \in Producers : serial[u] \in Nat /\ serial'[u] \in Nat /\ serial[u] <= serial'[u]
      /\ Appends(t) => t \in Bringing /\ t \notin Bringing' /\ serial' = serial
  BY <1>1, BringingStep
<1>6. Bringing' \subseteq Producers /\ Bringing \subseteq Producers
  BY DEF Bringing
<1> HIDE DEF row, n
<1>7. /\ \A i \in 1 .. n : row[i][2] <= serial'[row[i][1]]
      /\ \A u \in Bringing' : /\ value'[u] = <<u, serial'[u]>>
                              /\ \A i \in 1 .. n : row[i][1] = u => row[i][2] < serial'[u]
  <2>1. ASSUME NEW i \in 1 .. n
        PROVE  row[i][2] <= serial'[row[i][1]]
    <3> DEFINE u == row[i][1]
               k == row[i][2]
    <3>1. u \in Producers /\ k \in Nat /\ k <= serial[u]
      BY <1>2, <1>4
    <3> HIDE DEF u, k
    <3>2. serial[u] \in Nat /\ serial'[u] \in Nat /\ serial[u] <= serial'[u]
      BY <1>5, <3>1
    <3>3. k <= serial'[u]
      BY <3>1, <3>2
    <3> QED BY <3>3 DEF u, k
  <2>2. ASSUME NEW u \in Bringing'
        PROVE  /\ value'[u] = <<u, serial'[u]>>
               /\ \A i \in 1 .. n : row[i][1] = u => row[i][2] < serial'[u]
    <3>1. CASE u \in Bringing /\ value'[u] = value[u] /\ serial'[u] = serial[u]
      BY <1>2, <3>1
    <3>2. CASE value'[u] = <<u, serial'[u]>> /\ serial'[u] = serial[u] + 1
      <4>1. serial[u] \in Nat
        BY <1>5, <1>6
      <4>2. ASSUME NEW i \in 1 .. n, row[i][1] = u
            PROVE  row[i][2] < serial'[u]
        <5>1. row[i][2] <= serial[u] /\ row[i][2] \in Nat
          BY <1>2, <1>4, <4>2
        <5> QED BY <3>2, <4>1, <5>1
      <4> QED BY <3>2, <4>2
    <3> QED BY <1>5, <3>1, <3>2
  <2> QED BY <2>1, <2>2
<1>8. CASE ~Appends(t)
  <2>1. Enqueued' = row /\ taken' \in Seq(Values) /\ Contents' \in Seq(Values)
    <3>1. CASE Removes(t)
      <4>1. Contents # <<>> /\ Contents' = Tail(Contents) /\ taken' = Append(taken, Head(Contents))
        BY <3>1, CallersSee
      <4> DEFINE s == taken
                 c == Contents
      <4>2. s \in Seq(Values) /\ c \in Seq(Values) /\ c # <<>>
        BY <1>2, <4>1
      <4> HIDE DEF s, c
      <4>3. /\ Append(s, Head(c)) \in Seq(Values) /\ Tail(c) \in Seq(Values)
            /\ Append(s, Head(c)) \o Tail(c) = s \o c
        BY <4>2, TakenMoves
      <4> QED BY <4>1, <4>3 DEF s, c, Enqueued, row
    <3>2. CASE ~Removes(t)
      BY <1>2, <1>8, <3>2, CallersSee DEF Enqueued, row
    <3> QED BY <3>1, <3>2
  <2>2. Rising(row)'
    <3> SUFFICES /\ row \in Seq(Values)
                 /\ \A i, j \in 1 .. n : i < j /\ row'[i][1] = row'[j][1] => row'[i][2] < row'[j][2]
                 /\ \A i \in 1 .. n : row'[i][2] <= serial'[row'[i][1]]
                 /\ \A u \in Bringing' : /\ value'[u] = <<u, serial'[u]>>
                                         /\ \A i \in 1 .. n : row'[i][1] = u => row'[i][2] < serial'[u]
      BY <2>1 DEF Rising, row, n
    <3>1. row' = row
      BY <2>1 DEF row
    <3> QED BY <1>2, <1>7, <3>1
  <2> QED BY <2>1, <2>2 DEF OrderInv, row
<1>9. CASE Appends(t)
  <2>1. t \in Producers /\ value[t] \in Values /\ Contents' = Append(Contents, value[t]) /\ taken' = taken
    BY <1>9, CallersSee
  <2>2. t \in Bringing /\ t \notin Bringing' /\ serial' = serial /\ value[t] = <<t, serial[t]>>
    BY <1>2, <1>5, <1>9
  <2> DEFINE v == value[t]
             s == taken
             c == Contents
             w == Append(row, v)
  <2>3. s \in Seq(Values) /\ c \in Seq(Values) /\ v \in Values
    BY <1>2, <2>1
  <2>4. v[1] = t /\ v[2] = serial[t]
    BY <2>2
  <2> HIDE DEF s, c, v
  <2>5. Append(c, v) \in Seq(Values) /\ s \o Append(c, v) = Append(s \o c, v)
    BY <2>3, AppendedBehind
  <2>6. Enqueued' = w /\ taken' \in Seq(Values) /\ Contents' \in Seq(Values)
    BY <2>1, <2>3, <2>5 DEF s, c, v, Enqueued, row
  <2>7. /\ w \in Seq(Values) /\ Len(w) = n + 1 /\ w[n + 1] = v
        /\ \A i \in 1 .. n : w[i] = row[i]
    BY <1>2, <2>3, Appended DEF n
  <2> HIDE DEF w
  <2>8. \A i \in 1 .. n + 1 : i = n + 1 \/ i \in 1 .. n
    BY <1>2
  <2>9. ASSUME NEW i \in 1 .. n + 1, NEW j \in 1 .. n + 1, i < j, w[i][1] = w[j][1]
        PROVE  w[i][2] < w[j][2]
    <3>1. i \in 1 .. n
      BY <1>2, <2>9
    <3>2. CASE j \in 1 .. n
      BY <1>2, <2>7, <2>9, <3>1, <3>2
    <3>3. CASE j = n + 1
      <4>1. row[i][1] = t
        BY <2>4, <2>7, <2>9, <3>1, <3>3
      <4>2. row[i][2] < serial[t]
        BY <1>2, <2>2, <3>1, <4>1
      <4> QED BY <2>4, <2>7, <3>1, <3>3, <4>2
    <3> QED BY <2>8, <3>2, <3>3
  <2>10. ASSUME NEW i \in 1 .. n + 1
         PROVE  w[i][2] <= serial'[w[i][1]]
    <3>1. CASE i \in 1 .. n
      BY <1>7, <2>7, <3>1
    <3>2. CASE i = n + 1
      <4>1. serial[t] \in Nat /\ w[i][2] = serial[t] /\ w[i][1] = t
        BY <1>5, <2>1, <2>4, <2>7, <3>2
      <4> QED BY <2>2, <4>1
    <3> QED BY <2>8, <3>1, <3>2
  <2>11. ASSUME NEW u \in Bringing', NEW i \in 1 .. n + 1, w[i][1] = u
         PROVE  w[i][2] < serial'[u]
    <3>1. i # n + 1
      BY <2>2, <2>4, <2>7, <2>11
    <3>2. i \in 1 .. n
      BY <2>8, <3>1
    <3> QED BY <1>7, <2>7, <2>11, <3>2
  <2>12. Rising(Enqueued)'
    <3> DEFINE x == Enqueued'
    <3>1. x = w
      BY <2>6
    <3> SUFFICES /\ x \in Seq(Values)
                 /\ \A i, j \in 1 .. Len(x) : i < j /\ x[i][1] = x[j][1] => x[i][2] < x[j][2]
                 /\ \A i \in 1 .. Len(x) : x[i][2] <= serial'[x[i][1]]
                 /\ \A u \in Bringing' : /\ value'[u] = <<u, serial'[u]>>
                                         /\ \A i \in 1 .. Len(x) : x[i][1] = u => x[i][2] < serial'[u]
      BY DEF Rising
    <3> HIDE DEF x
    <3> QED BY <1>7, <2>7, <2>9, <2>10, <2>11, <3>1
  <2> QED BY <2>6, <2>12 DEF OrderInv
<1> QED BY <1>8, <1>9

\* Nothing is in the order yet.
LEMMA InitOrder ==
  ASSUME Init
  PROVE  OrderInv
<1>1. Contents = <<>> /\ taken = <<>>
  BY InitIsFifoInit DEF Fifo!Init
<1>2. Enqueued = <<>> /\ <<>> \in Seq(Values)
  BY <1>1 DEF Enqueued
<1>3. Bringing = {}
  BY ConstantFacts DEF Init, Bringing
<1>4. Len(Enqueued) = 0
  BY <1>2
<1> QED BY <1>1, <1>2, <1>3, <1>4 DEF OrderInv, Rising

\* Nothing moves.
LEMMA OrderStays ==
  ASSUME QueueInv, OrderInv, UNCHANGED vars
  PROVE  OrderInv'
<1>1. Contents' = Contents /\ taken' = taken
  BY CallersStay
<1>2. Enqueued' = Enqueued /\ Bringing' = Bringing /\ value' = value /\ serial' = serial
  BY <1>1 DEF Enqueued, Bringing, vars, locals
<1> QED BY <1>1, <1>2 DEF OrderInv, Rising

\* What was taken is the first part of what was enqueued.
LEMMA OrderSays ==
  ASSUME OrderInv
  PROVE  InOrder
<1> DEFINE s == taken
           c == Contents
           row == s \o c
<1>1. s \in Seq(Values) /\ c \in Seq(Values)
  BY DEF OrderInv
<1>2. \A i, j \in 1 .. Len(row) : i < j /\ row[i][1] = row[j][1] => row[i][2] < row[j][2]
  BY DEF OrderInv, Rising, Enqueued
<1> HIDE DEF s, c
<1>3. /\ Len(s) \in Nat /\ Len(c) \in Nat /\ DOMAIN s = 1 .. Len(s)
      /\ Len(row) = Len(s) + Len(c) /\ \A i \in 1 .. Len(s) : row[i] = s[i]
  BY <1>1, Concatenated, LengthZero
<1> HIDE DEF row
<1>4. \A i \in DOMAIN s : i \in 1 .. Len(row) /\ row[i] = s[i]
  BY <1>3
<1>5. \A i, j \in DOMAIN s : i < j /\ s[i][1] = s[j][1] => s[i][2] < s[j][2]
  BY <1>2, <1>4
<1> QED BY <1>5 DEF InOrder, s

\* As long as pointers are told apart and producers append to the list, what one producer
\* enqueues is taken in that order.
THEOREM QueueInOrder == Spec /\ []Undisturbed => []InOrder
<1>1. Init => OrderInv
  BY InitOrder
<1>2. QueueInv /\ OrderInv /\ Undisturbed /\ [NextStep]_vars => OrderInv'
  BY OrderStep, OrderStays, StepsAreThreads
<1>3. OrderInv => InOrder
  BY OrderSays
<1> QED BY <1>1, <1>2, <1>3, QueueInvariant, PTL DEF Spec

----------------------------------------------------------------------------
(* An ID that has not come round *)

\* The calls of Enqueue whose ID is in no pointer yet.
Tagged == Bringing

\* As long as no ID has come round, the ID of a call is in no pointer before it appends.
IdsFresh ==
  /\ mHead[2] <= mID /\ mTail[2] <= mID /\ \A n \in Nodes : Next[n][2] <= mID
  /\ \A u \in Threads : /\ localMyHead[u][2] <= mID /\ localMyTail[u][2] <= mID
                        /\ localMyNext[u][2] <= mID /\ localMyIdFlag[u] <= mID
  /\ \A t \in Tagged :
       /\ localMyIdFlag[t] # 0
       /\ mHead[2] # localMyIdFlag[t] /\ mTail[2] # localMyIdFlag[t]
       /\ \A n \in Nodes : Next[n][2] # localMyIdFlag[t]
       /\ \A u \in Threads : /\ localMyHead[u][2] # localMyIdFlag[t]
                             /\ localMyTail[u][2] # localMyIdFlag[t]
                             /\ localMyNext[u][2] # localMyIdFlag[t]
                             /\ u # t => localMyIdFlag[u] # localMyIdFlag[t]

\* Then pointers are told apart.
LEMMA FreshApart ==
  ASSUME IdsFresh
  PROVE  TagsTellApart
<1>1. \A t \in Producers : At(t, "link") => t \in Tagged
  BY DEF At, Tagged, Bringing
<1> QED BY <1>1 DEF IdsFresh, TagsTellApart, newTailHopeToChange

\* There are no more IDs given out than values.
LEMMA IdsLeftThen == (TypeOK /\ LocalsKnown /\ Bounded)' => (mID \in Nat /\ mID <= Cardinality(Values))'
<1>1. TypeOK /\ LocalsKnown /\ Bounded => mID \in Nat /\ mID <= Cardinality(Values)
  BY RoomForNode
<1> QED BY <1>1, PTL

\* A step keeps IDs fresh while there are more of them than calls of Enqueue.
LEMMA FreshStep ==
  ASSUME Cardinality(Values) < TagCount, QueueInv, AppendsToList, IdsFresh, NEW t \in Threads, ThreadStep(t)
  PROVE  IdsFresh'
<1>1. /\ TypeOK /\ LocalsKnown /\ Bounded /\ LocalTypes
  BY LocalsTyped DEF QueueInv
<1>2. /\ mHead \in Pointers /\ mTail \in Pointers /\ Next \in [Nodes -> Pointers] /\ mID \in Nat
  BY <1>1 DEF TypeOK
<1>3. \A u \in Producers : u \in Threads /\ u \notin Consumers
  BY ConstantFacts
<1>4. \A u \in Threads : u # t => (u \in Tagged' <=> u \in Tagged)
  BY <1>1, OthersStay DEF Tagged, Bringing
<1>5. Tagged \subseteq Threads /\ Tagged' \subseteq Threads
  BY <1>3 DEF Tagged, Bringing
<1>6. Null[2] = 0 /\ \A u \in Threads : localMyIdFlag[u] \in Nat
  BY <1>1, ConstantFacts DEF Null, LocalTypes
<1> USE DEF LocalTypes, At, Goto
<1>7. CASE EnqueueId(t) /\ t \in Producers
  <2>1. mID' \in Nat /\ mID' <= Cardinality(Values) /\ mID' = mID + 1
    <3>1. TypeOK' /\ LocalsKnown' /\ Bounded'
      BY FreshApart, ThreadKeeps DEF Undisturbed, QueueInv
    <3> QED BY <1>7, <3>1, IdsLeftThen DEF EnqueueId
  <2> DEFINE f == mID + 1
  <2>2. IdFlag(f) = f /\ f \in Nat /\ f # 0
    <3>1. f \in Nat /\ f < TagCount /\ TagCount \in Nat \ {0} /\ f # 0
      BY <1>2, <2>1, ConstantFacts
    <3> HIDE DEF f
    <3>2. f % TagCount = f
      BY <3>1
    <3> QED BY <3>1, <3>2 DEF IdFlag
  <2>3. /\ UNCHANGED <<mHead, mTail, Next, localMyHead, localMyTail, localMyNext>>
        /\ localMyIdFlag' = [localMyIdFlag EXCEPT ![t] = f] /\ mID' = f
    BY <1>7, <2>2 DEF EnqueueId
  <2>4. t \in Tagged' /\ \A u \in Tagged' : u # t => u \in Tagged
    BY <1>1, <1>3, <1>4, <1>5, <1>7 DEF EnqueueId, Tagged, Bringing
  <2>5. \A p \in Pointers : p[2] \in Nat /\ (p[2] <= mID => p[2] <= f /\ p[2] # f)
    BY <1>2, ConstantFacts DEF Pointers
  <2>6. \A u \in Threads : localMyIdFlag[u] <= mID => localMyIdFlag[u] <= f /\ localMyIdFlag[u] # f
    BY <1>2, <1>6
  <2> HIDE DEF f
  <2>7. /\ mHead'[2] <= mID' /\ mTail'[2] <= mID' /\ \A n \in Nodes : Next'[n][2] <= mID'
        /\ \A u \in Threads : /\ localMyHead'[u][2] <= mID' /\ localMyTail'[u][2] <= mID'
                              /\ localMyNext'[u][2] <= mID' /\ localMyIdFlag'[u] <= mID'
    BY <1>1, <1>2, <2>2, <2>3, <2>5, <2>6 DEF IdsFresh
  <2>8. /\ mHead'[2] # f /\ mTail'[2] # f /\ \A n \in Nodes : Next'[n][2] # f
        /\ \A u \in Threads : /\ localMyHead'[u][2] # f /\ localMyTail'[u][2] # f
                              /\ localMyNext'[u][2] # f /\ (u # t => localMyIdFlag'[u] # f)
    BY <1>1, <1>2, <2>3, <2>5, <2>6 DEF IdsFresh
  <2>9. localMyIdFlag'[t] = f /\ \A u \in Threads : u # t => localMyIdFlag'[u] = localMyIdFlag[u]
    BY <1>1, <2>3
  <2>10. ASSUME NEW u \in Tagged'
         PROVE  /\ localMyIdFlag'[u] # 0
                /\ mHead'[2] # localMyIdFlag'[u] /\ mTail'[2] # localMyIdFlag'[u]
                /\ \A n \in Nodes : Next'[n][2] # localMyIdFlag'[u]
                /\ \A w \in Threads : /\ localMyHead'[w][2] # localMyIdFlag'[u]
                                      /\ localMyTail'[w][2] # localMyIdFlag'[u]
                                      /\ localMyNext'[w][2] # localMyIdFlag'[u]
                                      /\ w # u => localMyIdFlag'[w] # localMyIdFlag'[u]
    <3>1. CASE u = t
      BY <2>2, <2>8, <2>9, <3>1
    <3>2. CASE u # t
      <4>1. u \in Tagged /\ u \in Threads /\ localMyIdFlag'[u] = localMyIdFlag[u] /\ localMyIdFlag'[u] # f
        BY <1>5, <2>4, <2>8, <2>9, <3>2
      <4> QED BY <2>3, <2>9, <4>1 DEF IdsFresh
    <3> QED BY <3>1, <3>2
  <2> QED BY <2>7, <2>10 DEF IdsFresh
<1>8. CASE Alloc(t) \/ NewNode(t) \/ TryDequeue(t) \/ Free(t)
  <2>1. UNCHANGED <<mHead, mTail, mID, Next, localMyHead, localMyTail, localMyNext, localMyIdFlag>>
    BY <1>8 DEF Alloc, NewNode, TryDequeue, Free, shared, locals
  <2>2. t \in Tagged' => t \in Tagged
    BY <1>1, <1>3, <1>8 DEF Alloc, NewNode, TryDequeue, Free, Tagged, Bringing, LocalsKnown
  <2>3. Tagged' \subseteq Tagged
    BY <1>4, <1>5, <2>2
  <2> QED BY <2>1, <2>3 DEF IdsFresh
<1>9. CASE Fill(t)
  <2>1. /\ UNCHANGED <<mHead, mTail, mID, localMyHead, localMyTail, localMyNext, localMyIdFlag>>
        /\ Next' = [Next EXCEPT ![newNode[t]] = Null]
    BY <1>9 DEF Fill, locals
  <2>2. Tagged' \subseteq Tagged
    <3>1. t \in Tagged' => t \in Tagged
      BY <1>1, <1>9 DEF Fill, Tagged, Bringing
    <3> QED BY <1>4, <1>5, <3>1
  <2>3. \A n \in Nodes : Next'[n] = Next[n] \/ Next'[n][2] = 0
    BY <1>2, <1>6, <2>1
  <2>4. 0 <= mID
    BY <1>2
  <2> QED BY <2>1, <2>2, <2>3, <2>4 DEF IdsFresh
<1>10. CASE ReadTail(t) \/ ReadHeadTail(t)
  <2>1. /\ UNCHANGED <<mHead, mTail, mID, Next, localMyHead, localMyNext, localMyIdFlag>>
        /\ localMyTail' = [localMyTail EXCEPT ![t] = mTail]
    BY <1>10 DEF ReadTail, ReadHeadTail, shared
  <2>2. Tagged' \subseteq Tagged
    <3>1. t \in Tagged' => t \in Tagged
      BY <1>1, <1>3, <1>10 DEF ReadTail, ReadHeadTail, Tagged, Bringing
    <3> QED BY <1>4, <1>5, <3>1
  <2> QED BY <1>1, <2>1, <2>2 DEF IdsFresh
<1>11. CASE ReadHead(t)
  <2>1. /\ UNCHANGED <<mHead, mTail, mID, Next, localMyTail, localMyNext, localMyIdFlag>>
        /\ localMyHead' = [localMyHead EXCEPT ![t] = mHead]
    BY <1>11 DEF ReadHead, shared
  <2>2. Tagged' \subseteq Tagged
    <3>1. t \in Tagged' => t \in Tagged
      BY <1>1, <1>11 DEF ReadHead, Tagged, Bringing
    <3> QED BY <1>4, <1>5, <3>1
  <2> QED BY <1>1, <2>1, <2>2 DEF IdsFresh
<1>12. CASE ReadNext(t) \/ ReadHeadNext(t)
  <2>1. PICK q : ListInv(q)
    BY DEF QueueInv
  <2>2. PICK n \in Nodes : localMyNext' = [localMyNext EXCEPT ![t] = Next[n]]
    <3>1. CASE ReadNext(t) /\ t \in Producers
      BY <1>1, <2>1, <3>1, NodesUsed DEF ReadNext, getPurePointer
    <3>2. CASE ReadHeadNext(t) /\ t \in Consumers
      BY <1>1, <2>1, <3>2, NodesUsed DEF ReadHeadNext, getPurePointer
    <3>3. (ReadNext(t) => t \in Producers) /\ (ReadHeadNext(t) => t \in Consumers)
      BY <1>1 DEF ReadNext, ReadHeadNext, Threads, LocalsKnown, EnqueueLabels, DequeueLabels
    <3> QED BY <1>12, <3>1, <3>2, <3>3
  <2>3. /\ UNCHANGED <<mHead, mTail, mID, Next, localMyHead, localMyTail, localMyIdFlag>>
    BY <1>12 DEF ReadNext, ReadHeadNext, shared
  <2>4. Tagged' \subseteq Tagged
    <3>1. t \in Tagged' => t \in Tagged
      BY <1>1, <1>12 DEF ReadNext, ReadHeadNext, Tagged, Bringing
    <3> QED BY <1>4, <1>5, <3>1
  <2> QED BY <1>1, <2>2, <2>3, <2>4 DEF IdsFresh
<1>13. CASE Link(t)
  <2>1. UNCHANGED <<mHead, mTail, mID, localMyHead, localMyTail, localMyNext, localMyIdFlag>>
    BY <1>13 DEF Link, locals
  <2>2. CASE Next[getPurePointer(localMyTail[t])] = Null
    <3>1. \A n \in Nodes : Next'[n] = Next[n] \/ Next'[n][2] = localMyIdFlag[t]
      BY <1>2, <1>13, <2>2 DEF Link, newTailHopeToChange
    <3>2. Tagged' \subseteq Tagged \ {t}
      <4>1. t \notin Tagged'
        BY <1>1, <1>13, <2>2 DEF Link, Tagged, Bringing
      <4> QED BY <1>4, <1>5, <4>1
    <3> QED BY <2>1, <3>1, <3>2 DEF IdsFresh
  <2>3. CASE Next[getPurePointer(localMyTail[t])] # Null
    <3>1. Next' = Next
      BY <1>13, <2>3 DEF Link
    <3>2. Tagged' \subseteq Tagged
      <4>1. t \in Tagged' => t \in Tagged
        BY <1>1, <1>13 DEF Link, Tagged, Bringing
      <4> QED BY <1>4, <1>5, <4>1
    <3> QED BY <2>1, <3>1, <3>2 DEF IdsFresh
  <2> QED BY <2>2, <2>3
<1>14. CASE Help(t)
  <2>1. /\ UNCHANGED <<mHead, mID, Next, localMyHead, localMyTail, localMyNext, localMyIdFlag>>
        /\ mTail' \in {mTail, localMyNext[t]}
    BY <1>14 DEF Help, SwingTail, locals
  <2>2. Tagged' \subseteq Tagged
    <3>1. t \in Tagged' => t \in Tagged
      BY <1>1, <1>14 DEF Help, Tagged, Bringing
    <3> QED BY <1>4, <1>5, <3>1
  <2> QED BY <2>1, <2>2 DEF IdsFresh
<1>15. CASE Swing(t)
  <2>1. /\ UNCHANGED <<mHead, mID, Next, localMyHead, localMyTail, localMyNext, localMyIdFlag>>
        /\ mTail' = mTail \/ mTail'[2] = localMyIdFlag[t]
    BY <1>15 DEF Swing, SwingTail, locals, newTailHopeToChange
  <2>2. Tagged' \subseteq Tagged /\ t \notin Tagged
    <3>1. t \notin Tagged' /\ t \notin Tagged
      BY <1>1, <1>15 DEF Swing, Tagged, Bringing
    <3> QED BY <1>4, <1>5, <3>1
  <2> QED BY <2>1, <2>2 DEF IdsFresh
<1>16. CASE CountUp(t) \/ CountDown(t) \/ (SeemsEmpty(t) /\ mCount = 0)
  <2>1. /\ UNCHANGED <<mHead, mTail, mID, Next>>
        /\ localMyHead' = [localMyHead EXCEPT ![t] = Null]
        /\ localMyTail' = [localMyTail EXCEPT ![t] = Null]
        /\ localMyNext' = [localMyNext EXCEPT ![t] = Null]
        /\ localMyIdFlag' = [localMyIdFlag EXCEPT ![t] = 0]
    BY <1>16 DEF CountUp, CountDown, SeemsEmpty, Forget, shared
  <2>2. Tagged' \subseteq Tagged \ {t}
    <3>1. t \notin Tagged'
      BY <1>1, <1>16 DEF CountUp, CountDown, SeemsEmpty, Tagged, Bringing
    <3> QED BY <1>4, <1>5, <3>1
  <2>3. 0 <= mID
    BY <1>2
  <2>4. /\ \A u \in Threads : u # t => /\ localMyHead'[u] = localMyHead[u] /\ localMyTail'[u] = localMyTail[u]
                                       /\ localMyNext'[u] = localMyNext[u] /\ localMyIdFlag'[u] = localMyIdFlag[u]
        /\ localMyHead'[t][2] = 0 /\ localMyTail'[t][2] = 0 /\ localMyNext'[t][2] = 0 /\ localMyIdFlag'[t] = 0
    BY <1>1, <1>6, <2>1
  <2>5. \A u \in Tagged' : localMyIdFlag'[u] = localMyIdFlag[u] /\ u \in Tagged
    BY <1>5, <2>2, <2>4
  <2> QED BY <2>1, <2>3, <2>4, <2>5 DEF IdsFresh
<1>17. CASE SeemsEmpty(t) /\ mCount # 0
  <2>1. UNCHANGED <<mHead, mTail, mID, Next, localMyHead, localMyTail, localMyNext, localMyIdFlag>>
    BY <1>17 DEF SeemsEmpty, shared, locals
  <2>2. Tagged' \subseteq Tagged
    <3>1. t \in Tagged' => t \in Tagged
      BY <1>1, <1>17 DEF SeemsEmpty, Tagged, Bringing
    <3> QED BY <1>4, <1>5, <3>1
  <2> QED BY <2>1, <2>2 DEF IdsFresh
<1>18. CASE CopyData(t)
  <2>1. UNCHANGED <<mHead, mTail, mID, Next, localMyHead, localMyTail, localMyNext, localMyIdFlag>>
    BY <1>18 DEF CopyData, shared
  <2>2. Tagged' \subseteq Tagged
    <3>1. t \in Tagged' => t \in Tagged
      BY <1>1, <1>18 DEF CopyData, Tagged, Bringing
    <3> QED BY <1>4, <1>5, <3>1
  <2> QED BY <2>1, <2>2 DEF IdsFresh
<1>19. CASE MoveHead(t)
  <2>1. /\ UNCHANGED <<mTail, mID, Next, localMyHead, localMyTail, localMyNext, localMyIdFlag>>
        /\ mHead' \in {mHead, localMyNext[t]}
    BY <1>19 DEF MoveHead, locals
  <2>2. Tagged' \subseteq Tagged
    <3>1. t \in Tagged' => t \in Tagged
      BY <1>1, <1>19 DEF MoveHead, Tagged, Bringing
    <3> QED BY <1>4, <1>5, <3>1
  <2> QED BY <2>1, <2>2 DEF IdsFresh
<1> QED BY <1>7, <1>8, <1>9, <1>10, <1>11, <1>12, <1>13, <1>14, <1>15, <1>16, <1>17, <1>18, <1>19
        DEF ThreadStep, ProducerStep, ConsumerStep, EnqueueStep, DequeueStep

\* A new queue has no ID but 0 in it.
LEMMA InitFresh ==
  ASSUME Init
  PROVE  IdsFresh
<1>1. Tagged = {} /\ Null[2] = 0
  BY ConstantFacts DEF Init, Tagged, Bringing, Null
<1> QED BY <1>1 DEF Init, IdsFresh

\* Nothing moves.
LEMMA FreshStays ==
  ASSUME IdsFresh, UNCHANGED vars
  PROVE  IdsFresh'
<1>1. Tagged' = Tagged
  BY DEF vars, Tagged, Bringing
<1> QED BY <1>1 DEF IdsFresh, vars, shared, locals

\* While there are more IDs than calls of Enqueue, pointers are told apart.
THEOREM IdsTellPointersApart ==
  ASSUME Cardinality(Values) < TagCount
  PROVE  Spec /\ []AppendsToList => []Undisturbed
<1>1. Init => QueueInv /\ IdsFresh
  BY InitInv, InitFresh
<1>2. QueueInv /\ IdsFresh /\ AppendsToList /\ [NextStep]_vars => (QueueInv /\ IdsFresh)'
  <2> SUFFICES ASSUME QueueInv, IdsFresh, AppendsToList, [NextStep]_vars
               PROVE  (QueueInv /\ IdsFresh)'
    OBVIOUS
  <2>1. QueueInv'
    BY FreshApart, InvariantStep DEF Undisturbed
  <2>2. IdsFresh'
    BY FreshStep, FreshStays, StepsAreThreads
  <2> QED BY <2>1, <2>2
<1>3. IdsFresh /\ AppendsToList => Undisturbed
  BY FreshApart DEF Undisturbed
<1> QED BY <1>1, <1>2, <1>3, PTL DEF Spec

----------------------------------------------------------------------------
(* One producer *)

\* A producer that is alone finds mTail at the last node, and nobody there before it.
AloneInv(p) ==
  /\ pc[p] \notin {"read_next", "help"}
  /\ pc[p] \in {"link", "swing"} => localMyTail[p] = mTail
  /\ pc[p] # "swing" => Next[mTail[1]] = Null
  /\ pc[p] = "swing" => Next[mTail[1]] = newTailHopeToChange(p) /\ Next[newNode[p]] = Null

\* What it appends to is in the list.
LEMMA AloneAppends ==
  ASSUME NEW p, Producers = {p}, QueueInv, AloneInv(p)
  PROVE  AppendsToList
<1>1. TailInList
  BY ListSays
<1>2. At(p, "link") => localMyTail[p] = mTail
  BY DEF AloneInv, At
<1> QED BY <1>1, <1>2 DEF AppendsToList, TailInList, getPurePointer

\* A step keeps it so.
LEMMA AloneStep ==
  ASSUME NEW p, Producers = {p}, QueueInv, AloneInv(p), NEW t \in Threads, ThreadStep(t)
  PROVE  AloneInv(p)'
<1>1. TypeOK /\ LocalsKnown /\ LocalTypes /\ AppendsToList
  BY LocalsTyped, AloneAppends DEF QueueInv
<1>2. PICK q : ListInv(q)
  BY DEF QueueInv
<1>3. p \in Producers /\ p \in Threads /\ (t \in Producers => t = p) /\ p \notin Consumers
  BY ConstantFacts
<1>4. PICK j \in 1 .. Len(q) : mTail = q[j]
  BY <1>2, ListFacts
<1>5. mTail[1] = q[j][1] /\ mTail[1] \in Nodes /\ Next \in [Nodes -> Pointers]
  BY <1>1, <1>2, <1>4, ListFacts DEF TypeOK
<1>6. p \in Carrying => newNode[p] \in Nodes /\ newNode[p] # mTail[1]
  BY <1>2, <1>5, HandFacts
<1> USE DEF LocalTypes, At, Goto, AloneInv
<1>7. CASE t \in Consumers
  <2>1. UNCHANGED <<mTail, Next>>
    <3>1. t \notin Producers
      BY <1>7, ConstantFacts
    <3> QED BY <1>7, <3>1 DEF ThreadStep, ConsumerStep, DequeueStep, TryDequeue, ReadHead, ReadHeadTail, ReadHeadNext,
                SeemsEmpty, CopyData, MoveHead, Free, CountDown, shared
  <2>2. t # p
    BY <1>3, <1>7
  <2>3. pc'[p] = pc[p] /\ localMyTail'[p] = localMyTail[p] /\ newNode'[p] = newNode[p]
        /\ localMyIdFlag'[p] = localMyIdFlag[p]
    BY <1>1, <1>3, <2>2, OthersStay
  <2> QED BY <2>1, <2>3 DEF newTailHopeToChange
<1>8. CASE t = p /\ (EnqueueId(p) \/ Alloc(p) \/ NewNode(p))
  BY <1>1, <1>3, <1>8 DEF EnqueueId, Alloc, NewNode
<1>9. CASE t = p /\ Fill(p)
  <2>1. p \in Carrying
    BY <1>3, <1>9 DEF Fill, Carrying
  <2> QED BY <1>1, <1>3, <1>5, <1>6, <1>9, <2>1 DEF Fill, locals
<1>10. CASE t = p /\ ReadTail(p)
  BY <1>1, <1>3, <1>10 DEF ReadTail, shared
<1>11. CASE t = p /\ Link(p)
  <2>1. localMyTail[p] = mTail /\ Next[mTail[1]] = Null /\ p \in Carrying
    BY <1>3, <1>11 DEF Link, Carrying
  <2>2. Next[newNode[p]] = Null
    BY <1>1, <1>3, <1>11 DEF Link, LocalsKnown
  <2>3. Next' = [Next EXCEPT ![mTail[1]] = newTailHopeToChange(p)] /\ pc'[p] = "swing" /\ mTail' = mTail
        /\ UNCHANGED locals
    BY <1>1, <1>3, <1>11, <2>1 DEF Link, getPurePointer
  <2> QED BY <1>5, <1>6, <2>1, <2>2, <2>3 DEF newTailHopeToChange, locals
<1>12. CASE t = p /\ Swing(p)
  <2>1. localMyTail[p] = mTail /\ Next[newNode[p]] = Null /\ mTail' = newTailHopeToChange(p)
    BY <1>12 DEF Swing, SwingTail
  <2>2. pc'[p] = "count" /\ Next' = Next
    BY <1>1, <1>3, <1>12 DEF Swing
  <2> QED BY <2>1, <2>2 DEF newTailHopeToChange
<1>13. CASE t = p /\ CountUp(p)
  BY <1>1, <1>3, <1>13 DEF CountUp
<1>14. ~ReadNext(p) /\ ~Help(p)
  BY DEF ReadNext, Help
<1> QED BY <1>3, <1>7, <1>8, <1>9, <1>10, <1>11, <1>12, <1>13, <1>14
        DEF ThreadStep, ProducerStep, EnqueueStep, Threads

\* The hypotheses hold of a queue with one producer, and any number of consumers.
THEOREM OneProducerUndisturbed ==
  ASSUME NEW p, Producers = {p}, Cardinality(Values) < TagCount
  PROVE  Spec => []Undisturbed
<1>1. Init => QueueInv /\ AloneInv(p)
  <2> SUFFICES ASSUME Init PROVE QueueInv /\ AloneInv(p)
    OBVIOUS
  <2>1. AloneInv(p)
    BY ConstantFacts DEF Init, AloneInv
  <2> QED BY <2>1, InitInv
<1>2. Init => IdsFresh
  BY InitFresh
<1>3. QueueInv /\ AloneInv(p) /\ IdsFresh /\ [NextStep]_vars => (QueueInv /\ AloneInv(p) /\ IdsFresh)'
  <2> SUFFICES ASSUME QueueInv, AloneInv(p), IdsFresh, [NextStep]_vars
               PROVE  (QueueInv /\ AloneInv(p) /\ IdsFresh)'
    OBVIOUS
  <2>1. AppendsToList /\ Undisturbed
    BY AloneAppends, FreshApart DEF Undisturbed
  <2>2. QueueInv'
    BY <2>1, InvariantStep
  <2>3. IdsFresh'
    BY <2>1, FreshStep, FreshStays, StepsAreThreads
  <2>4. AloneInv(p)'
    <3>1. CASE UNCHANGED vars
      BY <3>1 DEF AloneInv, vars, shared, locals, newTailHopeToChange
    <3> QED BY <3>1, AloneStep, StepsAreThreads
  <2> QED BY <2>2, <2>3, <2>4
<1>4. QueueInv /\ AloneInv(p) /\ IdsFresh => Undisturbed
  BY AloneAppends, FreshApart DEF Undisturbed
<1> QED BY <1>1, <1>2, <1>3, <1>4, PTL DEF Spec

\* Such a queue implements FifoQueue.
THEOREM OneProducerImplementsFifo ==
  ASSUME NEW p, Producers = {p}, Cardinality(Values) < TagCount
  PROVE  Spec => Fifo!Spec
BY OneProducerUndisturbed, QueueRefined, PTL

\* Its calls leave in the order in which they came, its counter and its nodes are right.
THEOREM OneProducerHolds ==
  ASSUME NEW p, Producers = {p}, Cardinality(Values) < TagCount
  PROVE  Spec => [](TypeOK /\ TailInList /\ CountIsLength /\ NodesConserved /\ InOrder)
BY OneProducerUndisturbed, QueueHolds, QueueInOrder, PTL
=============================================================================
