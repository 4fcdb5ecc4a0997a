-------------------------- MODULE QueueProperties --------------------------
(***************************************************************************)
(* What LockFreeQueue has to guarantee.                                    *)
(***************************************************************************)
EXTENDS LockFreeQueue

\* The values the variables range over.
TypeOK ==
  /\ mHead \in Pointers /\ mTail \in Pointers /\ mID \in Nat /\ mCount \in Int
  /\ Next \in [Nodes -> Pointers]
  /\ Data \in [Nodes -> Values \cup {NoValue}]
  /\ pool \in Seq(Nodes) /\ mCapacity \in Nodes
  /\ value \in [Threads -> Values \cup {NoValue}]
  /\ newNode \in [Threads -> 0 .. MaxNodes]
  /\ localMyIdFlag \in [Threads -> 0 .. TagCount - 1]
  /\ localMyHead \in [Threads -> Pointers] /\ localMyTail \in [Threads -> Pointers]
  /\ localMyNext \in [Threads -> Pointers]
  /\ outData \in [Threads -> Values \cup {NoValue}]
  /\ \A p \in Producers : \E q \in Quotas : serial[p] <= q[p]

\* The i-th node of the list, the dummy at mHead being the first; 0 past the end.
NodeAt[i \in 1 .. MaxNodes + 1] ==
  IF i = 1 THEN getPurePointer(mHead)
  ELSE LET above == NodeAt[i - 1]
       IN  IF above = 0 THEN 0 ELSE getPurePointer(Next[above])

Length == Cardinality({ i \in 2 .. MaxNodes + 1 : NodeAt[i] # 0 })

\* The values in the list, first to last.
Contents == [i \in 1 .. Length |-> Data[NodeAt[i + 1]]]

\* The queue the list stands for.
Fifo == INSTANCE FifoQueue WITH contents <- Contents

\* mTail never falls behind mHead: the node a producer appends to is in the list.
TailInList == \E i \in 1 .. MaxNodes + 1 : NodeAt[i] # 0 /\ NodeAt[i] = getPurePointer(mTail)

\* mCount is the length of the list but for the calls that have not counted
\* yet: PostSend may take as many packets as GetCount has told it.
CountIsLength ==
  mCount = Length - Cardinality({ t \in Producers : pc[t] \in {"swing", "count"} })
                  + Cardinality({ t \in Consumers : pc[t] \in {"d_free", "d_count"} })

\* Where a node is: in the pool, in the list, or in the hands of a call.
Places(n) ==
  { <<"pool", i>> : i \in { j \in DOMAIN pool : pool[j] = n } }
  \cup { <<"list", i>> : i \in { j \in 1 .. MaxNodes + 1 : NodeAt[j] = n } }
  \cup { <<"new", t>> : t \in { u \in Producers : /\ newNode[u] = n
                                                  /\ pc[u] \notin {"swing", "count"} } }
  \cup { <<"old", t>> : t \in { u \in Consumers : /\ getPurePointer(localMyHead[u]) = n
                                                  /\ At(u, "d_free") } }

\* No node is lost and none is in two places: what the pool hands out again is
\* in the list no more.
NodesConserved == \A n \in 1 .. mCapacity : Cardinality(Places(n)) = 1

----------------------------------------------------------------------------
\* README.md:23, SendQueue is "a lock-free queue": what one thread enqueues is
\* dequeued in that order.  The code does not keep it when a producer appends to
\* a node that was recycled.
InOrder ==
  \A i, j \in DOMAIN taken :
    (i < j /\ taken[i][1] = taken[j][1]) => taken[i][2] < taken[j][2]
=============================================================================
