----------------------------- MODULE PoolProofs -----------------------------
(***************************************************************************)
(* LockFreeObjectPool implements ObjectPool.                                *)
(*                                                                          *)
(* Under mTop is a list of pointers, q.  The proof carries q along: the      *)
(* step that changes it is a successful compare-and-swap, and what a thread  *)
(* has read before it is still true then, because mTop holds the pointer it  *)
(* held at the read, ID included.  That is where the ID is needed: a pointer *)
(* on its way back to the pool must not look like one that a stalled Alloc   *)
(* has read.  PoolInvariant and PoolRefined take this as a hypothesis; the   *)
(* last theorems prove it for pools whose ID has not come round.            *)
(***************************************************************************)
EXTENDS LockFreeObjectPool, ProofLemmas

----------------------------------------------------------------------------
(* The invariant *)

Labels == {"idle", "alloc", "new", "next", "pop", "size_down", "free", "set_next", "push",
           "size_up"}

\* Pointers to an object.
ObjectPointers == Objects \X (0 .. TagCount - 1)

\* What a call knows of its locals.
LocalsKnown ==
  /\ pc \in [Threads -> Labels]
  /\ \A t \in Threads :
       /\ At(t, "idle") => /\ localMyTop[t] = Null /\ localMyNext[t] = Null
                           /\ newTopHopeToChange[t] = Null
       /\ pc[t] \in {"next", "pop"} => localMyTop[t] \in ObjectPointers
       /\ At(t, "push") => Next[newTopHopeToChange[t][1]] = localMyTop[t]

\* The object a call of Free brings back.
Brought(t) == newTopHopeToChange[t][1]

\* An object the program has or a call of Free brings back was made; they are all different.
ObjectsApart ==
  /\ \A o \in inUse : o <= mCapacity
  /\ \A t \in Freeing :
       newTopHopeToChange[t] \in ObjectPointers /\ Brought(t) <= mCapacity /\ Brought(t) \notin inUse
  /\ \A t, u \in Freeing : Brought(t) = Brought(u) => t = u

\* A free object was made, and nobody has it.
FreeApart(q) ==
  \A i \in 1 .. Len(q) :
    /\ q[i][1] <= mCapacity /\ q[i][1] \notin inUse
    /\ \A t \in Freeing : Brought(t) # q[i][1]

\* A pointer that is in the list still has the Next that was read through it.
NextStillTrue(q) ==
  \A i \in 1 .. Len(q) : \A t \in Threads :
    At(t, "pop") /\ localMyTop[t] = q[i] => localMyNext[t] = Next[q[i][1]]

GoingDown == { t \in Threads : At(t, "size_down") }
GoingUp   == { t \in Threads : At(t, "size_up") }

\* The two counters.
Counted(q) ==
  /\ mCapacity = Len(q) + Cardinality(inUse) + Cardinality(Freeing)
  /\ mSize = Len(q) + Cardinality(GoingDown) - Cardinality(GoingUp)

ListInv(q) ==
  IsList(mTop, Next, q, ObjectPointers) /\ FreeApart(q) /\ NextStillTrue(q) /\ Counted(q)

PoolInv == TypeOK /\ LocalsKnown /\ ObjectsApart /\ \E q : ListInv(q)

\* A pointer about to be pushed is not the one a stalled Alloc compares mTop with.
TagsTellApart ==
  \A t, u \in Threads : At(t, "pop") /\ At(u, "push") => newTopHopeToChange[u] # localMyTop[t]

----------------------------------------------------------------------------
(* Steps *)

\* A pointer to an object is a pointer, and not Null.
LEMMA PointerFacts ==
  ASSUME PoolConstants
  PROVE  /\ ObjectPointers \subseteq Pointers /\ Null \in Pointers /\ Null \notin ObjectPointers
         /\ ObjectPointers \subseteq (Nat \ {0}) \X Nat
         /\ \A p \in Pointers : p # Null /\ p[1] # 0 => p \in ObjectPointers
         /\ \A p \in ObjectPointers : p[1] \in Objects
BY DEF PoolConstants, ObjectPointers, Pointers, Null, Objects

\* The constants of the pool.
LEMMA ConstantFacts ==
  ASSUME PoolConstants
  PROVE  IsFiniteSet(Threads) /\ TagCount \in Nat \ {0} /\ MaxObjects \in Nat /\ MaxFrees \in Nat
BY DEF PoolConstants

\* The ID of a pointer fits.
LEMMA FlagFits ==
  ASSUME PoolConstants, NEW id \in Nat
  PROVE  IdFlag(id) \in 0 .. TagCount - 1
BY DEF PoolConstants, IdFlag

\* Where the threads are after a step of one of them.
LEMMA GotoMoves ==
  ASSUME pc \in [Threads -> Labels], NEW t \in Threads, NEW l \in Labels, Goto(t, l)
  PROVE  /\ pc' \in [Threads -> Labels]
         /\ pc'[t] = l /\ \A u \in Threads : u # t => pc'[u] = pc[u]
BY DEF Goto

\* Every step keeps the types.
LEMMA TypesStep ==
  ASSUME PoolConstants, TypeOK, LocalsKnown, NextStep
  PROVE  TypeOK'
<1>1. Null \in Pointers /\ ObjectPointers \subseteq Pointers
      /\ \A p \in ObjectPointers : p[1] \in Objects
  BY PointerFacts
<1> USE ConstantFacts DEF TypeOK
<1>2. CASE Clear \/ Finished
  BY <1>1, <1>2 DEF Clear, Finished, vars, shared, locals
<1>3. ASSUME NEW t \in Threads, ThreadStep(t)
      PROVE  TypeOK'
  <2>0. At(t, "next") \/ At(t, "pop") => getPurePointer(localMyTop[t]) \in Objects
    BY <1>1 DEF LocalsKnown, At, getPurePointer
  <2>1. CASE ReadTop(t) \/ ReadTopToPush(t)
    BY <2>1 DEF ReadTop, ReadTopToPush, shared
  <2>2. CASE NewNode(t)
    BY <1>1, <2>2 DEF NewNode, Forget, Objects
  <2>3. CASE ReadNext(t)
    BY <2>0, <2>3 DEF ReadNext, shared
  <2>4. CASE PopTop(t)
    BY <2>0, <2>4 DEF PopTop, locals
  <2>5. CASE SizeDown(t) \/ SizeUp(t)
    BY <1>1, <2>5 DEF SizeDown, SizeUp, Forget
  <2>6. ASSUME NEW o \in inUse, FreeId(t, o)
        PROVE  TypeOK'
    <3>1. <<o, IdFlag(mID + 1)>> \in Pointers /\ mID + 1 \in 0 .. MaxFrees
      <4>1. mID + 1 \in 0 .. MaxFrees
        BY <2>6 DEF FreeId
      <4>2. IdFlag(mID + 1) \in 0 .. TagCount - 1
        BY <4>1, FlagFits
      <4>3. o \in 0 .. MaxObjects
        BY DEF Objects
      <4> QED BY <4>1, <4>2, <4>3 DEF Pointers
    <3> QED BY <2>6, <3>1 DEF FreeId
  <2>7. CASE SetNext(t)
    BY <2>7 DEF SetNext, locals
  <2>8. CASE PushTop(t)
    BY <2>8 DEF PushTop, locals
  <2> QED BY <1>3, <2>1, <2>2, <2>3, <2>4, <2>5, <2>6, <2>7, <2>8 DEF ThreadStep
<1> QED BY <1>2, <1>3 DEF NextStep

\* Every step keeps what the calls know of their locals.
LEMMA LocalsStep ==
  ASSUME PoolConstants, TypeOK, LocalsKnown, ObjectsApart, NextStep,
         mTop = Null \/ mTop \in ObjectPointers
  PROVE  LocalsKnown'
<1>1. /\ \A p \in Pointers : p # Null /\ p[1] # 0 => p \in ObjectPointers
      /\ \A p \in ObjectPointers : p[1] \in Objects
  BY PointerFacts
<1>2. CASE Clear
  <2>1. UNCHANGED <<pc, locals>> /\ \A t \in Threads : pc[t] = "idle"
    BY <1>2 DEF Clear, At
  <2> QED BY <2>1 DEF LocalsKnown, locals, At
<1>3. CASE Finished
  BY <1>3 DEF Finished, vars, shared, locals, LocalsKnown, At
<1>4. ASSUME NEW t \in Threads, ThreadStep(t)
      PROVE  LocalsKnown'
  <2> DEFINE Kept(u) ==
        /\ At(u, "idle") => /\ localMyTop[u] = Null /\ localMyNext[u] = Null
                            /\ newTopHopeToChange[u] = Null
        /\ pc[u] \in {"next", "pop"} => localMyTop[u] \in ObjectPointers
        /\ At(u, "push") => Next[newTopHopeToChange[u][1]] = localMyTop[u]
  <2>1. /\ pc \in [Threads -> Labels] /\ \A u \in Threads : Kept(u)
        /\ localMyTop \in [Threads -> Pointers] /\ localMyNext \in [Threads -> Pointers]
        /\ newTopHopeToChange \in [Threads -> Pointers] /\ Next \in [Objects -> Pointers]
        /\ mTop \in Pointers
    BY DEF LocalsKnown, TypeOK
  <2> SUFFICES pc' \in [Threads -> Labels] /\ \A u \in Threads : Kept(u)'
    BY DEF LocalsKnown
  <2>2. CASE ReadTop(t)
    BY <2>1, <2>2 DEF ReadTop, Goto, At, Labels, shared
  <2>3. CASE NewNode(t) \/ SizeDown(t) \/ SizeUp(t)
    BY <2>1, <2>3 DEF NewNode, SizeDown, SizeUp, Forget, Goto, At, Labels
  <2>4. CASE ReadNext(t)
    BY <2>1, <2>4 DEF ReadNext, Goto, At, Labels, shared
  <2>5. CASE PopTop(t)
    BY <2>1, <2>5 DEF PopTop, Goto, At, Labels, locals
  <2>6. ASSUME NEW o \in inUse, FreeId(t, o)
        PROVE  pc' \in [Threads -> Labels] /\ \A u \in Threads : Kept(u)'
    BY <2>1, <2>6 DEF FreeId, Goto, At, Labels
  <2>7. CASE ReadTopToPush(t)
    BY <2>1, <2>7 DEF ReadTopToPush, Goto, At, Labels, shared
  <2>8. CASE SetNext(t)
    <3>1. \A u \in Threads : At(u, "push") => Brought(u) # Brought(t)
      BY <2>8 DEF ObjectsApart, Freeing, SetNext, At
    <3>2. Brought(t) \in Objects
      BY <1>1, <2>8 DEF ObjectsApart, Freeing, SetNext, At, Brought
    <3>3. /\ Next' = [Next EXCEPT ![Brought(t)] = localMyTop[t]]
          /\ Goto(t, "push") /\ UNCHANGED locals
      BY <2>8 DEF SetNext, Brought, getPurePointer
    <3>4. pc' \in [Threads -> Labels] /\ pc'[t] = "push"
          /\ \A u \in Threads : u # t => pc'[u] = pc[u]
      BY <2>1, <3>3, GotoMoves DEF Labels
    <3>5. ASSUME NEW u \in Threads
          PROVE  Kept(u)'
      <4>1. CASE u = t
        BY <2>1, <3>2, <3>3, <3>4, <4>1 DEF locals, At, Brought
      <4>2. CASE u # t
        <5>1. At(u, "push") => Next'[Brought(u)] = Next[Brought(u)]
          BY <3>1, <3>3
        <5> QED BY <2>1, <3>3, <3>4, <4>2, <5>1 DEF locals, At, Brought
      <4> QED BY <4>1, <4>2
    <3> QED BY <3>4, <3>5
  <2>9. CASE PushTop(t)
    BY <2>1, <2>9 DEF PushTop, Goto, At, Labels, locals
  <2> QED BY <1>4, <2>2, <2>3, <2>4, <2>5, <2>6, <2>7, <2>8, <2>9 DEF ThreadStep
<1> QED BY <1>2, <1>3, <1>4 DEF NextStep

\* A compare-and-swap of Alloc that succeeds finds the pointer it has read on top of the
\* list, and has read its Next.
LEMMA PopFinds ==
  ASSUME PoolConstants, LocalsKnown, NEW q, ListInv(q),
         NEW t \in Threads, At(t, "pop"), SameTop(t)
  PROVE  /\ q # <<>> /\ q \in Seq(ObjectPointers) /\ 1 \in 1 .. Len(q)
         /\ q[1] \in ObjectPointers /\ mTop = q[1]
         /\ localMyTop[t] = q[1] /\ localMyNext[t] = Next[q[1][1]]
<1>1. mTop \in ObjectPointers /\ mTop = localMyTop[t] /\ mTop # Null
  BY PointerFacts DEF LocalsKnown, At, SameTop
<1>2. q \in Seq(ObjectPointers) /\ mTop = IF q = <<>> THEN <<0, 0>> ELSE q[1]
  BY DEF ListInv, IsList
<1>3. q # <<>> /\ mTop = q[1]
  BY <1>1, <1>2 DEF Null
<1>4. 1 \in 1 .. Len(q)
  BY <1>2, <1>3, LengthZero
<1>5. localMyNext[t] = Next[q[1][1]]
  BY <1>1, <1>3, <1>4 DEF ListInv, NextStillTrue
<1> QED BY <1>1, <1>2, <1>3, <1>4, <1>5

\* Every step keeps the objects apart.
LEMMA ObjectsStep ==
  ASSUME PoolConstants, TypeOK, LocalsKnown, ObjectsApart, NEW q, ListInv(q), NextStep
  PROVE  ObjectsApart'
<1>1. /\ \A p \in Pointers : p # Null /\ p[1] # 0 => p \in ObjectPointers
      /\ \A p \in ObjectPointers : p[1] \in Objects
  BY PointerFacts
<1>2. CASE Clear
  BY <1>2 DEF Clear, At, ObjectsApart, Freeing
<1>3. CASE Finished
  BY <1>3 DEF Finished, vars, shared, locals, ObjectsApart, Freeing, Brought
<1>4. ASSUME NEW t \in Threads, ThreadStep(t)
      PROVE  ObjectsApart'
  <2>1. /\ pc \in [Threads -> Labels] /\ newTopHopeToChange \in [Threads -> Pointers]
        /\ inUse \subseteq Objects /\ mCapacity \in 0 .. MaxObjects
    BY DEF LocalsKnown, TypeOK
  <2>2. ASSUME UNCHANGED <<mCapacity, inUse, newTopHopeToChange>>, Freeing' \subseteq Freeing
        PROVE  ObjectsApart'
    BY <2>2 DEF ObjectsApart, Brought
  <2>3. CASE ReadTop(t) \/ ReadNext(t) \/ ReadTopToPush(t) \/ SetNext(t) \/ PushTop(t)
    <3>1. UNCHANGED <<mCapacity, inUse, newTopHopeToChange>>
      BY <2>3 DEF ReadTop, ReadNext, ReadTopToPush, SetNext, PushTop, shared, locals
    <3>2. Freeing' \subseteq Freeing
      BY <2>1, <2>3 DEF ReadTop, ReadNext, ReadTopToPush, SetNext, PushTop, Freeing, Goto, At
    <3> QED BY <2>2, <3>1, <3>2
  <2>4. CASE SizeDown(t) \/ SizeUp(t)
    <3>1. /\ UNCHANGED <<mCapacity, inUse>> /\ Freeing' = Freeing /\ t \notin Freeing
          /\ \A u \in Threads : u # t => newTopHopeToChange'[u] = newTopHopeToChange[u]
      BY <2>1, <2>4 DEF SizeDown, SizeUp, Forget, Freeing, Goto, At
    <3>2. \A u \in Freeing : newTopHopeToChange'[u] = newTopHopeToChange[u]
      BY <3>1 DEF Freeing
    <3> QED BY <3>1, <3>2 DEF ObjectsApart, Brought
  <2>5. CASE NewNode(t)
    <3>1. /\ Freeing' = Freeing /\ t \notin Freeing
          /\ \A u \in Threads : u # t => newTopHopeToChange'[u] = newTopHopeToChange[u]
      BY <2>1, <2>5 DEF NewNode, Forget, Freeing, Goto, At
    <3>2. \A u \in Freeing : newTopHopeToChange'[u] = newTopHopeToChange[u]
      BY <3>1 DEF Freeing
    <3>3. \A u \in Freeing : Brought(u) \in Nat
      BY <1>1 DEF ObjectsApart, Brought, Objects
    <3>4. \A o \in inUse : o \in Nat
      BY <2>1 DEF Objects
    <3>5. mCapacity' = mCapacity + 1 /\ inUse' = inUse \cup {mCapacity + 1}
      BY <2>5 DEF NewNode
    <3>6. \A o \in inUse' : o <= mCapacity'
      BY <2>1, <3>4, <3>5 DEF ObjectsApart
    <3>7. ASSUME NEW u \in Freeing
          PROVE  /\ newTopHopeToChange'[u] \in ObjectPointers /\ Brought(u)' = Brought(u)
                 /\ Brought(u)' <= mCapacity' /\ Brought(u)' \notin inUse'
      <4>1. newTopHopeToChange'[u] = newTopHopeToChange[u] /\ Brought(u)' = Brought(u)
        BY <3>2 DEF Brought
      <4>2. /\ newTopHopeToChange[u] \in ObjectPointers /\ Brought(u) <= mCapacity
            /\ Brought(u) \notin inUse /\ Brought(u) \in Nat
        BY <3>3 DEF ObjectsApart
      <4>3. Brought(u) <= mCapacity + 1 /\ Brought(u) # mCapacity + 1
        BY <2>1, <4>2
      <4> QED BY <3>5, <4>1, <4>2, <4>3
    <3> QED BY <3>1, <3>6, <3>7 DEF ObjectsApart
  <2>6. CASE PopTop(t)
    <3>1. CASE SameTop(t)
      <4>1. /\ inUse' = inUse \cup {q[1][1]} /\ q[1][1] <= mCapacity
            /\ \A u \in Freeing : Brought(u) # q[1][1]
        <5>1. localMyTop[t] = q[1] /\ 1 \in 1 .. Len(q)
          BY <2>6, <3>1, PopFinds DEF PopTop
        <5>2. inUse' = inUse \cup {q[1][1]}
          BY <2>6, <3>1, <5>1 DEF PopTop, getPurePointer
        <5> QED BY <5>1, <5>2 DEF ListInv, FreeApart
      <4>2. UNCHANGED <<mCapacity, newTopHopeToChange>> /\ Freeing' = Freeing
        BY <2>1, <2>6, <3>1 DEF PopTop, locals, Freeing, Goto, At
      <4> QED BY <4>1, <4>2 DEF ObjectsApart, Brought
    <3>2. CASE ~SameTop(t)
      <4>1. UNCHANGED <<mCapacity, inUse, newTopHopeToChange>> /\ Freeing' = Freeing
        BY <2>1, <2>6, <3>2 DEF PopTop, locals, Freeing, Goto, At
      <4> QED BY <2>2, <4>1
    <3> QED BY <3>1, <3>2
  <2>7. ASSUME NEW o \in inUse, FreeId(t, o)
        PROVE  ObjectsApart'
    <3>1. /\ UNCHANGED mCapacity /\ inUse' = inUse \ {o} /\ t \notin Freeing
          /\ Freeing' = Freeing \cup {t}
      BY <2>1, <2>7 DEF FreeId, Freeing, Goto, At
    <3>2. newTopHopeToChange'[t] = <<o, IdFlag(mID + 1)>>
      BY <2>1, <2>7 DEF FreeId
    <3>3. \A u \in Freeing : newTopHopeToChange'[u] = newTopHopeToChange[u]
      BY <2>1, <2>7, <3>1 DEF FreeId
    <3>4. newTopHopeToChange'[t] \in ObjectPointers
      <4>1. mID + 1 \in Nat
        BY ConstantFacts DEF TypeOK
      <4> QED BY <2>1, <3>2, <4>1, FlagFits DEF ObjectPointers
    <3>5. Brought(t)' = o
      BY <3>2 DEF Brought
    <3>6. \A u \in Freeing : Brought(u)' = Brought(u)
      BY <3>3 DEF Brought
    <3>7. ASSUME NEW u \in Freeing'
          PROVE  /\ newTopHopeToChange'[u] \in ObjectPointers /\ Brought(u)' <= mCapacity'
                 /\ Brought(u)' \notin inUse'
      BY <3>1, <3>3, <3>4, <3>5, <3>6 DEF ObjectsApart
    <3>8. ASSUME NEW u \in Freeing', NEW v \in Freeing', Brought(u)' = Brought(v)'
          PROVE  u = v
      BY <3>1, <3>5, <3>6, <3>8 DEF ObjectsApart
    <3> QED BY <3>1, <3>7, <3>8 DEF ObjectsApart
  <2> QED BY <1>4, <2>3, <2>4, <2>5, <2>6, <2>7 DEF ThreadStep
<1> QED BY <1>2, <1>3, <1>4 DEF NextStep

----------------------------------------------------------------------------
(* The list, step by step *)

\* The counters of the calls are finite.
LEMMA CountsFinite ==
  ASSUME PoolConstants, TypeOK
  PROVE  /\ IsFiniteSet(inUse) /\ IsFiniteSet(Freeing)
         /\ IsFiniteSet(GoingDown) /\ IsFiniteSet(GoingUp)
         /\ Cardinality(inUse) \in Nat /\ Cardinality(Freeing) \in Nat
         /\ Cardinality(GoingDown) \in Nat /\ Cardinality(GoingUp) \in Nat
<1>1. IsFiniteSet(Objects) /\ inUse \in SUBSET Objects
  BY ConstantFacts, FS_Interval DEF Objects, TypeOK
<1>2. IsFiniteSet(Threads)
  BY ConstantFacts
<1>3. Freeing \in SUBSET Threads /\ GoingDown \in SUBSET Threads /\ GoingUp \in SUBSET Threads
  BY DEF Freeing, GoingDown, GoingUp
<1>4. /\ IsFiniteSet(inUse) /\ IsFiniteSet(Freeing)
      /\ IsFiniteSet(GoingDown) /\ IsFiniteSet(GoingUp)
  BY <1>1, <1>2, <1>3, FS_Subset
<1> QED BY <1>4, FS_CardinalityType

\* What is in a list.
LEMMA ListFacts ==
  ASSUME NEW q, ListInv(q)
  PROVE  /\ q \in Seq(ObjectPointers) /\ Len(q) \in Nat
         /\ \A i \in 1 .. Len(q) : q[i] \in ObjectPointers
         /\ mTop = Null \/ mTop \in ObjectPointers
<1>1. q \in Seq(ObjectPointers) /\ mTop = IF q = <<>> THEN <<0, 0>> ELSE q[1]
  BY DEF ListInv, IsList
<1>2. Len(q) \in Nat /\ (q = <<>> <=> Len(q) = 0)
  BY <1>1, LengthZero
<1>3. \A i \in 1 .. Len(q) : q[i] \in ObjectPointers
  BY <1>1
<1> QED BY <1>1, <1>2, <1>3 DEF Null

\* A step that touches neither the list nor its nodes nor a counter keeps the list, if
\* what it reads is true.
LEMMA ListSeen ==
  ASSUME NEW q, ListInv(q), UNCHANGED <<mTop, Next, inUse, mCapacity, mSize, newTopHopeToChange>>,
         Freeing' = Freeing, GoingDown' = GoingDown, GoingUp' = GoingUp,
         \A t \in Threads : At(t, "pop")' =>
            \/ At(t, "pop") /\ localMyTop'[t] = localMyTop[t] /\ localMyNext'[t] = localMyNext[t]
            \/ localMyNext'[t] = Next[localMyTop'[t][1]]
  PROVE  ListInv(q)'
<1>1. IsList(mTop', Next', q, ObjectPointers)
  BY DEF ListInv
<1>2. FreeApart(q)'
  BY DEF ListInv, FreeApart, Brought
<1>3. NextStillTrue(q)'
  BY DEF ListInv, NextStillTrue
<1>4. Counted(q)'
  BY DEF ListInv, Counted
<1> QED BY <1>1, <1>2, <1>3, <1>4 DEF ListInv

LEMMA SetNextKeeps ==
  ASSUME LocalsKnown, NEW q, ListInv(q), NEW t \in Threads, SetNext(t)
  PROVE  ListInv(q)'
<1>1. pc \in [Threads -> Labels]
  BY DEF LocalsKnown
<1>2. /\ UNCHANGED <<mTop, mCapacity, mSize, inUse, localMyTop, localMyNext, newTopHopeToChange>>
      /\ Next' = [Next EXCEPT ![Brought(t)] = localMyTop[t]] /\ t \in Freeing
  BY DEF SetNext, locals, getPurePointer, Brought, Freeing, At
<1>3. \A i \in 1 .. Len(q) : q[i][1] # Brought(t)
  BY <1>2 DEF ListInv, FreeApart
<1>4. \A i \in 1 .. Len(q) : Next'[q[i][1]] = Next[q[i][1]]
  BY <1>2, <1>3
<1>5. Freeing' = Freeing /\ GoingDown' = GoingDown /\ GoingUp' = GoingUp
      /\ \A u \in Threads : At(u, "pop")' => At(u, "pop")
  BY <1>1 DEF SetNext, Freeing, GoingDown, GoingUp, Goto, At
<1>6. IsList(mTop', Next', q, ObjectPointers)
  BY <1>2, <1>3, ListUntouched DEF ListInv
<1>7. FreeApart(q)'
  BY <1>2, <1>5 DEF ListInv, FreeApart, Brought
<1>8. NextStillTrue(q)'
  BY <1>2, <1>4, <1>5 DEF ListInv, NextStillTrue
<1>9. Counted(q)'
  BY <1>2, <1>5 DEF ListInv, Counted
<1> QED BY <1>6, <1>7, <1>8, <1>9 DEF ListInv

\* SizeDown and SizeUp count the call that pays.
LEMMA SizeKeeps ==
  ASSUME PoolConstants, TypeOK, LocalsKnown, NEW q, ListInv(q), NEW t \in Threads,
         SizeDown(t) \/ SizeUp(t)
  PROVE  ListInv(q)'
<1>1. pc \in [Threads -> Labels] /\ localMyTop \in [Threads -> Pointers]
      /\ localMyNext \in [Threads -> Pointers] /\ newTopHopeToChange \in [Threads -> Pointers]
  BY DEF LocalsKnown, TypeOK
<1>2. UNCHANGED <<mTop, mCapacity, Next, inUse>> /\ Forget(t) /\ Goto(t, "idle")
  BY DEF SizeDown, SizeUp
<1>3. Freeing' = Freeing /\ t \notin Freeing
      /\ \A u \in Threads : At(u, "pop")' => At(u, "pop") /\ u # t
  BY <1>1, <1>2 DEF SizeDown, SizeUp, Freeing, Goto, At
<1>4. \A u \in Threads : u # t => /\ localMyTop'[u] = localMyTop[u]
                                  /\ localMyNext'[u] = localMyNext[u]
                                  /\ newTopHopeToChange'[u] = newTopHopeToChange[u]
  BY <1>1, <1>2 DEF Forget
<1>5. \A u \in Freeing : Brought(u)' = Brought(u)
  BY <1>3, <1>4 DEF Freeing, Brought
<1>6. FreeApart(q)'
  BY <1>2, <1>3, <1>5 DEF ListInv, FreeApart
<1>7. NextStillTrue(q)'
  BY <1>2, <1>3, <1>4 DEF ListInv, NextStillTrue
<1>8. Counted(q)'
  <2>1. CASE SizeDown(t)
    <3>1. GoingDown' = GoingDown \ {t} /\ t \in GoingDown /\ GoingUp' = GoingUp
      BY <1>1, <2>1 DEF SizeDown, GoingDown, GoingUp, Goto, At
    <3>2. Cardinality(GoingDown') = Cardinality(GoingDown) - 1
      BY <3>1, CountsFinite, FS_RemoveElement
    <3>3. mSize' = mSize - 1
      BY <2>1 DEF SizeDown
    <3> QED BY <1>2, <1>3, <3>1, <3>2, <3>3, CountsFinite, ListFacts DEF ListInv, Counted, TypeOK
  <2>2. CASE SizeUp(t)
    <3>1. GoingUp' = GoingUp \ {t} /\ t \in GoingUp /\ GoingDown' = GoingDown
      BY <1>1, <2>2 DEF SizeUp, GoingDown, GoingUp, Goto, At
    <3>2. Cardinality(GoingUp') = Cardinality(GoingUp) - 1
      BY <3>1, CountsFinite, FS_RemoveElement
    <3>3. mSize' = mSize + 1
      BY <2>2 DEF SizeUp
    <3> QED BY <1>2, <1>3, <3>1, <3>2, <3>3, CountsFinite, ListFacts DEF ListInv, Counted, TypeOK
  <2> QED BY <2>1, <2>2
<1> QED BY <1>2, <1>6, <1>7, <1>8 DEF ListInv

\* A node made with new is with the program.
LEMMA NewNodeKeeps ==
  ASSUME PoolConstants, TypeOK, LocalsKnown, ObjectsApart, NEW q, ListInv(q),
         NEW t \in Threads, NewNode(t)
  PROVE  ListInv(q)' /\ mCapacity + 1 \notin inUse
         /\ \A i \in 1 .. Len(q) : q[i][1] # mCapacity + 1
<1>1. pc \in [Threads -> Labels] /\ localMyTop \in [Threads -> Pointers]
      /\ localMyNext \in [Threads -> Pointers] /\ newTopHopeToChange \in [Threads -> Pointers]
      /\ mCapacity \in Nat /\ inUse \subseteq Nat
  BY ConstantFacts DEF LocalsKnown, TypeOK, Objects
<1>2. /\ UNCHANGED <<mTop, mSize, Next>> /\ mCapacity' = mCapacity + 1
      /\ inUse' = inUse \cup {mCapacity + 1} /\ Forget(t) /\ Goto(t, "idle") /\ At(t, "new")
  BY DEF NewNode
<1>3. Freeing' = Freeing /\ t \notin Freeing /\ GoingDown' = GoingDown /\ GoingUp' = GoingUp
      /\ \A u \in Threads : At(u, "pop")' => At(u, "pop") /\ u # t
  BY <1>1, <1>2 DEF Freeing, GoingDown, GoingUp, Goto, At
<1>4. \A u \in Threads : u # t => /\ localMyTop'[u] = localMyTop[u]
                                  /\ localMyNext'[u] = localMyNext[u]
                                  /\ newTopHopeToChange'[u] = newTopHopeToChange[u]
  BY <1>1, <1>2 DEF Forget
<1>5. \A u \in Freeing : Brought(u)' = Brought(u)
  BY <1>3, <1>4 DEF Freeing, Brought
<1>6. mCapacity + 1 \notin inUse
  BY <1>1 DEF ObjectsApart
<1>7. \A i \in 1 .. Len(q) : q[i][1] \in Nat /\ q[i][1] <= mCapacity
  BY ListFacts, PointerFacts DEF ListInv, FreeApart
<1>8. \A i \in 1 .. Len(q) : q[i][1] # mCapacity + 1 /\ q[i][1] <= mCapacity + 1
  BY <1>1, <1>7
<1>9. FreeApart(q)'
  BY <1>2, <1>3, <1>5, <1>8 DEF ListInv, FreeApart
<1>10. NextStillTrue(q)'
  BY <1>2, <1>3, <1>4 DEF ListInv, NextStillTrue
<1>11. Counted(q)'
  <2>1. Cardinality(inUse') = Cardinality(inUse) + 1
    BY <1>2, <1>6, CountsFinite, FS_AddElement
  <2> QED BY <1>1, <1>2, <1>3, <2>1, CountsFinite, ListFacts DEF ListInv, Counted, TypeOK
<1>12. ListInv(q)'
  BY <1>2, <1>9, <1>10, <1>11 DEF ListInv
<1> QED BY <1>6, <1>8, <1>12

\* An object on its way back is one the program had.
LEMMA FreeIdKeeps ==
  ASSUME PoolConstants, TypeOK, LocalsKnown, NEW q, ListInv(q),
         NEW t \in Threads, NEW o \in inUse, FreeId(t, o)
  PROVE  ListInv(q)'
<1>1. pc \in [Threads -> Labels] /\ newTopHopeToChange \in [Threads -> Pointers]
  BY DEF LocalsKnown, TypeOK
<1>2. /\ UNCHANGED <<mTop, mCapacity, mSize, Next, localMyTop, localMyNext>>
      /\ inUse' = inUse \ {o} /\ Goto(t, "free") /\ At(t, "idle")
      /\ newTopHopeToChange' = [newTopHopeToChange EXCEPT ![t] = <<o, IdFlag(mID + 1)>>]
  BY DEF FreeId
<1>3. /\ Freeing' = Freeing \cup {t} /\ t \notin Freeing
      /\ GoingDown' = GoingDown /\ GoingUp' = GoingUp
      /\ \A u \in Threads : At(u, "pop")' => At(u, "pop")
  BY <1>1, <1>2 DEF Freeing, GoingDown, GoingUp, Goto, At
<1>4. Brought(t)' = o /\ \A u \in Freeing : Brought(u)' = Brought(u)
  BY <1>1, <1>2, <1>3 DEF Freeing, Brought
<1>5. FreeApart(q)'
  BY <1>2, <1>3, <1>4 DEF ListInv, FreeApart
<1>6. NextStillTrue(q)'
  BY <1>2, <1>3 DEF ListInv, NextStillTrue
<1>7. Counted(q)'
  <2>1. Cardinality(inUse') = Cardinality(inUse) - 1
    BY <1>2, CountsFinite, FS_RemoveElement
  <2>2. Cardinality(Freeing') = Cardinality(Freeing) + 1
    BY <1>3, CountsFinite, FS_AddElement
  <2>3. /\ mCapacity = Len(q) + Cardinality(inUse) + Cardinality(Freeing)
        /\ mSize = Len(q) + Cardinality(GoingDown) - Cardinality(GoingUp)
    BY DEF ListInv, Counted
  <2>4. Len(q) \in Nat /\ Cardinality(inUse) \in Nat /\ Cardinality(Freeing) \in Nat
    BY CountsFinite, ListFacts
  <2>5. mCapacity = Len(q) + Cardinality(inUse') + Cardinality(Freeing')
    BY <2>1, <2>2, <2>3, <2>4
  <2> QED BY <1>2, <1>3, <2>3, <2>5 DEF Counted
<1> QED BY <1>2, <1>5, <1>6, <1>7 DEF ListInv

\* Alloc takes the first pointer of the list away.
LEMMA PopTakes ==
  ASSUME PoolConstants, TypeOK, LocalsKnown, NEW q, ListInv(q),
         NEW t \in Threads, PopTop(t), SameTop(t)
  PROVE  ListInv(Tail(q))' /\ q # <<>> /\ inUse' = inUse \cup {q[1][1]}
<1>1. pc \in [Threads -> Labels]
  BY DEF LocalsKnown
<1>2. /\ q # <<>> /\ q \in Seq(ObjectPointers) /\ 1 \in 1 .. Len(q) /\ q[1] \in ObjectPointers
      /\ mTop = q[1] /\ localMyTop[t] = q[1] /\ localMyNext[t] = Next[q[1][1]]
  BY PopFinds DEF PopTop
<1>3. /\ UNCHANGED <<mID, mCapacity, mSize, Next, locals>> /\ Goto(t, "size_down") /\ At(t, "pop")
      /\ mTop' = Next[mTop[1]] /\ inUse' = inUse \cup {q[1][1]}
  BY <1>2 DEF PopTop, getPurePointer
<1>4. /\ Freeing' = Freeing /\ GoingUp' = GoingUp
      /\ GoingDown' = GoingDown \cup {t} /\ t \notin GoingDown
      /\ \A u \in Threads : At(u, "pop")' => At(u, "pop")
  BY <1>1, <1>3 DEF Freeing, GoingDown, GoingUp, Goto, At
<1>5. IsList(mTop', Next', Tail(q), ObjectPointers)
  <2>1. IsList(Next[mTop[1]], Next, Tail(q), ObjectPointers)
    BY <1>2, ListPop DEF ListInv
  <2> QED BY <1>3, <2>1
<1>6. /\ Len(Tail(q)) = Len(q) - 1 /\ Len(q) \in Nat
      /\ \A i \in 1 .. Len(Tail(q)) : i + 1 \in 1 .. Len(q) /\ Tail(q)[i] = q[i + 1]
      /\ \A i \in 1 .. Len(Tail(q)) : i + 1 # 1
  BY <1>2, TailOf
<1> DEFINE r == Tail(q)
<1> HIDE DEF r
<1>7. FreeApart(r)'
  <2>1. ASSUME NEW i \in 1 .. Len(r)
        PROVE  /\ r[i][1] <= mCapacity /\ r[i][1] \notin inUse'
               /\ \A u \in Freeing : Brought(u) # r[i][1]
    <3>1. i + 1 \in 1 .. Len(q) /\ r[i] = q[i + 1] /\ i + 1 # 1
      BY <1>6 DEF r
    <3>2. q[i + 1][1] # q[1][1]
      BY <1>2, <3>1 DEF ListInv, IsList
    <3>3. /\ q[i + 1][1] <= mCapacity /\ q[i + 1][1] \notin inUse
          /\ \A u \in Freeing : Brought(u) # q[i + 1][1]
      BY <3>1 DEF ListInv, FreeApart
    <3> QED BY <1>3, <3>1, <3>2, <3>3
  <2> QED BY <1>3, <1>4, <2>1 DEF FreeApart, Brought, locals
<1>8. NextStillTrue(r)'
  <2>1. \A i \in 1 .. Len(r) : i + 1 \in 1 .. Len(q) /\ r[i] = q[i + 1]
    BY <1>6 DEF r
  <2>2. \A i \in 1 .. Len(r) : \A u \in Threads :
          At(u, "pop") /\ localMyTop[u] = r[i] => localMyNext[u] = Next[r[i][1]]
    BY <2>1 DEF ListInv, NextStillTrue
  <2> QED BY <1>3, <1>4, <2>2 DEF NextStillTrue, locals
<1>9. Counted(r)'
  <2>1. Cardinality(inUse') = Cardinality(inUse) + 1
    <3>1. q[1][1] \notin inUse
      BY <1>2 DEF ListInv, FreeApart
    <3> QED BY <1>3, <3>1, CountsFinite, FS_AddElement
  <2>2. Cardinality(GoingDown') = Cardinality(GoingDown) + 1
    BY <1>4, CountsFinite, FS_AddElement
  <2>3. Len(r) = Len(q) - 1 /\ Len(q) \in Nat
    BY <1>6 DEF r
  <2>4. UNCHANGED <<mCapacity, mSize>> /\ Freeing' = Freeing /\ GoingUp' = GoingUp
    BY <1>3, <1>4
  <2>5. Counted(q) /\ mSize \in Int
    BY DEF ListInv, TypeOK
  <2>6. /\ Cardinality(inUse) \in Nat /\ Cardinality(Freeing) \in Nat
        /\ Cardinality(GoingDown) \in Nat /\ Cardinality(GoingUp) \in Nat
    BY CountsFinite
  <2>7. mCapacity' = Len(r) + Cardinality(inUse') + Cardinality(Freeing')
    BY <2>1, <2>3, <2>4, <2>5, <2>6 DEF Counted
  <2>8. mSize' = Len(r) + Cardinality(GoingDown') - Cardinality(GoingUp')
    BY <2>2, <2>3, <2>4, <2>5, <2>6 DEF Counted
  <2> QED BY <2>7, <2>8 DEF Counted
<1>10. ListInv(r)'
  BY <1>5, <1>7, <1>8, <1>9 DEF ListInv, r
<1> QED BY <1>2, <1>3, <1>10 DEF r

\* Free puts its pointer in front of the list.
LEMMA PushPuts ==
  ASSUME PoolConstants, TypeOK, LocalsKnown, ObjectsApart, NEW q, ListInv(q), TagsTellApart,
         NEW t \in Threads, PushTop(t), SameTop(t), NEW p, p = newTopHopeToChange[t]
  PROVE  ListInv(<<p>> \o q)'
<1> DEFINE r == <<p>> \o q
<1>1. pc \in [Threads -> Labels] /\ newTopHopeToChange \in [Threads -> Pointers]
  BY DEF LocalsKnown, TypeOK
<1>2. /\ UNCHANGED <<mID, mCapacity, mSize, Next, inUse, locals>> /\ Goto(t, "size_up")
      /\ At(t, "push") /\ mTop' = p
  BY DEF PushTop
<1>3. /\ Freeing' = Freeing \ {t} /\ t \in Freeing /\ GoingDown' = GoingDown
      /\ GoingUp' = GoingUp \cup {t} /\ t \notin GoingUp
      /\ \A u \in Threads : At(u, "pop")' => At(u, "pop")
  BY <1>1, <1>2 DEF Freeing, GoingDown, GoingUp, Goto, At
<1>4. p \in ObjectPointers /\ p[1] <= mCapacity /\ p[1] \notin inUse /\ Brought(t) = p[1]
  BY <1>3 DEF ObjectsApart, Brought
<1>5. Next[p[1]] = mTop
  BY <1>2 DEF LocalsKnown, SameTop
<1>6. q \in Seq(ObjectPointers) /\ Len(q) \in Nat
  BY ListFacts
<1>7. /\ Len(r) = Len(q) + 1 /\ r[1] = p /\ \A i \in 1 .. Len(q) : r[i + 1] = q[i]
  BY <1>4, <1>6, Prepended
<1>8. IsList(p, Next, r, ObjectPointers)
  <2>1. \A i \in 1 .. Len(q) : q[i][1] # p[1]
    BY <1>3, <1>4 DEF ListInv, FreeApart
  <2> QED BY <1>4, <1>5, <2>1, ListPush DEF ListInv
<1>9. IsList(mTop', Next', r, ObjectPointers)
  BY <1>2, <1>8
<1>10. \A i \in 1 .. Len(r) : i = 1 \/ \E j \in 1 .. Len(q) : i = j + 1 /\ r[i] = q[j]
  <2> HIDE DEF r
  <2> TAKE i \in 1 .. Len(r)
  <2>1. CASE i # 1
    <3>1. i - 1 \in 1 .. Len(q) /\ i = (i - 1) + 1
      BY <1>6, <1>7, <2>1
    <3> QED BY <1>7, <3>1
  <2> QED BY <2>1
<1> HIDE DEF r
<1>11. FreeApart(r)'
  <2>1. ASSUME NEW i \in 1 .. Len(r)
        PROVE  /\ r[i][1] <= mCapacity /\ r[i][1] \notin inUse
               /\ \A u \in Freeing \ {t} : Brought(u) # r[i][1]
    <3>1. CASE i = 1
      <4>1. \A u \in Freeing \ {t} : Brought(u) # Brought(t)
        BY <1>3 DEF ObjectsApart
      <4> QED BY <1>4, <1>7, <3>1, <4>1
    <3>2. CASE i # 1
      <4>1. PICK j \in 1 .. Len(q) : r[i] = q[j]
        BY <1>10, <3>2
      <4> QED BY <4>1 DEF ListInv, FreeApart
    <3> QED BY <3>1, <3>2
  <2> QED BY <1>2, <1>3, <2>1 DEF FreeApart, Brought, locals
<1>12. NextStillTrue(r)'
  <2>1. ASSUME NEW i \in 1 .. Len(r), NEW u \in Threads, At(u, "pop"), localMyTop[u] = r[i]
        PROVE  localMyNext[u] = Next[r[i][1]]
    <3>1. i # 1
      BY <1>2, <1>7, <2>1 DEF TagsTellApart
    <3>2. PICK j \in 1 .. Len(q) : r[i] = q[j]
      BY <1>10, <3>1
    <3> QED BY <2>1, <3>2 DEF ListInv, NextStillTrue
  <2> QED BY <1>2, <1>3, <2>1 DEF NextStillTrue, locals
<1>13. Counted(r)'
  <2>1. Cardinality(Freeing') = Cardinality(Freeing) - 1
    BY <1>3, CountsFinite, FS_RemoveElement
  <2>2. Cardinality(GoingUp') = Cardinality(GoingUp) + 1
    BY <1>3, CountsFinite, FS_AddElement
  <2>3. Len(r) = Len(q) + 1 /\ Len(q) \in Nat
    BY <1>6, <1>7
  <2>4. UNCHANGED <<mCapacity, mSize, inUse>> /\ GoingDown' = GoingDown
    BY <1>2, <1>3
  <2>5. Counted(q) /\ mSize \in Int
    BY DEF ListInv, TypeOK
  <2>6. /\ Cardinality(inUse) \in Nat /\ Cardinality(Freeing) \in Nat
        /\ Cardinality(GoingDown) \in Nat /\ Cardinality(GoingUp) \in Nat
    BY CountsFinite
  <2>7. mCapacity' = Len(r) + Cardinality(inUse') + Cardinality(Freeing')
    BY <2>1, <2>3, <2>4, <2>5, <2>6 DEF Counted
  <2>8. mSize' = Len(r) + Cardinality(GoingDown') - Cardinality(GoingUp')
    <3>1. mSize = Len(q) + Cardinality(GoingDown) - Cardinality(GoingUp)
      BY <2>5 DEF Counted
    <3>2. mSize' = mSize /\ Cardinality(GoingDown') = Cardinality(GoingDown)
      BY <2>4
    <3>3. \A m \in Int : \A n, d, u \in Nat : m = n + d - u => m = (n + 1) + d - (u + 1)
      OBVIOUS
    <3>4. mSize = (Len(q) + 1) + Cardinality(GoingDown) - (Cardinality(GoingUp) + 1)
      BY <2>3, <2>5, <2>6, <3>1, <3>3
    <3> QED BY <2>2, <2>3, <3>2, <3>4
  <2> QED BY <2>7, <2>8 DEF Counted
<1>14. ListInv(r)'
  BY <1>9, <1>11, <1>12, <1>13 DEF ListInv
<1> QED BY <1>14 DEF r

\* A new pool has no list.
LEMMA InitEmpty ==
  ASSUME PoolConstants, Init
  PROVE  ListInv(<<>>)
<1>1. Freeing = {} /\ GoingDown = {} /\ GoingUp = {}
  BY DEF Init, Freeing, GoingDown, GoingUp, At
<1>2. Len(<<>>) = 0 /\ <<>> \in Seq(ObjectPointers)
  OBVIOUS
<1>3. Cardinality({}) = 0
  BY FS_EmptySet
<1>4. IsList(mTop, Next, <<>>, ObjectPointers)
  BY <1>2 DEF Init, IsList, Null
<1>5. Counted(<<>>)
  BY <1>1, <1>2, <1>3 DEF Init, Counted
<1> QED BY <1>2, <1>4, <1>5 DEF ListInv, FreeApart, NextStillTrue

\* Nor has one that has been cleared.
LEMMA ClearEmpties ==
  ASSUME PoolConstants, Clear
  PROVE  ListInv(<<>>)'
<1>1. /\ mTop' = Null /\ mSize' = 0 /\ mCapacity' = 0 /\ inUse' = {}
      /\ \A t \in Threads : pc'[t] = "idle"
  BY DEF Clear, At
<1>2. Freeing' = {} /\ GoingDown' = {} /\ GoingUp' = {}
  BY <1>1 DEF Freeing, GoingDown, GoingUp, At
<1>3. Len(<<>>) = 0 /\ <<>> \in Seq(ObjectPointers)
  OBVIOUS
<1>4. Cardinality({}) = 0
  BY FS_EmptySet
<1>5. IsList(mTop', Next', <<>>, ObjectPointers)
  BY <1>1, <1>3 DEF IsList, Null
<1>6. Counted(<<>>)'
  BY <1>1, <1>2, <1>3, <1>4 DEF Counted
<1> QED BY <1>3, <1>5, <1>6 DEF ListInv, FreeApart, NextStillTrue

\* Nothing happens.
LEMMA StutterKeeps ==
  ASSUME NEW q, ListInv(q), UNCHANGED vars
  PROVE  ListInv(q)'
<1>1. /\ UNCHANGED <<mTop, mCapacity, mSize, Next, inUse, pc>>
      /\ UNCHANGED <<localMyTop, localMyNext, newTopHopeToChange>>
  BY DEF vars, shared, locals
<1>2. Freeing' = Freeing /\ GoingDown' = GoingDown /\ GoingUp' = GoingUp
  BY <1>1 DEF Freeing, GoingDown, GoingUp, At
<1>3. \A t \in Threads : At(t, "pop")' => /\ At(t, "pop") /\ localMyTop'[t] = localMyTop[t]
                                          /\ localMyNext'[t] = localMyNext[t]
  BY <1>1 DEF At
<1> QED BY <1>1, <1>2, <1>3, ListSeen

\* The other steps leave the list alone.
LEMMA QuietKeeps ==
  ASSUME TypeOK, LocalsKnown, NEW q, ListInv(q), NEW t \in Threads,
         \/ ReadTop(t) \/ ReadNext(t) \/ ReadTopToPush(t)
         \/ (PopTop(t) \/ PushTop(t)) /\ ~SameTop(t)
  PROVE  ListInv(q)'
<1>1. /\ pc \in [Threads -> Labels] /\ localMyTop \in [Threads -> Pointers]
      /\ localMyNext \in [Threads -> Pointers]
  BY DEF LocalsKnown, TypeOK
<1>2. UNCHANGED <<mTop, Next, inUse, mCapacity, mSize, newTopHopeToChange>>
  BY DEF ReadTop, ReadNext, ReadTopToPush, PopTop, PushTop, shared, locals
<1>3. Freeing' = Freeing /\ GoingDown' = GoingDown /\ GoingUp' = GoingUp
  BY <1>1 DEF ReadTop, ReadNext, ReadTopToPush, PopTop, PushTop, Freeing, GoingDown, GoingUp, Goto, At
<1>4. ASSUME NEW u \in Threads, At(u, "pop")'
      PROVE  \/ /\ At(u, "pop") /\ localMyTop'[u] = localMyTop[u]
                /\ localMyNext'[u] = localMyNext[u]
             \/ localMyNext'[u] = Next[localMyTop'[u][1]]
  <2>1. CASE ReadTop(t) \/ ReadTopToPush(t)
    <3>1. u # t
      BY <1>1, <1>4, <2>1 DEF ReadTop, ReadTopToPush, Goto, At
    <3> QED BY <1>1, <1>4, <2>1, <3>1 DEF ReadTop, ReadTopToPush, Goto, At, shared
  <2>2. CASE ReadNext(t)
    <3>1. CASE u = t
      BY <1>1, <2>2, <3>1 DEF ReadNext, getPurePointer, shared
    <3>2. CASE u # t
      BY <1>1, <1>4, <2>2, <3>2 DEF ReadNext, Goto, At, shared
    <3> QED BY <3>1, <3>2
  <2>3. CASE (PopTop(t) \/ PushTop(t)) /\ ~SameTop(t)
    BY <1>1, <1>4, <2>3 DEF PopTop, PushTop, locals, Goto, At
  <2> QED BY <2>1, <2>2, <2>3
<1> QED BY <1>2, <1>3, <1>4, ListSeen

----------------------------------------------------------------------------
(* Theorems *)

\* Every step keeps the invariant, as long as tags tell pointers apart.
LEMMA InvariantStep ==
  ASSUME PoolConstants, PoolInv, TagsTellApart, [NextStep]_vars
  PROVE  PoolInv'
<1>1. CASE NextStep
  <2>1. PICK q : ListInv(q)
    BY DEF PoolInv
  <2>2. TypeOK /\ LocalsKnown /\ ObjectsApart
    BY DEF PoolInv
  <2>3. TypeOK'
    BY <1>1, <2>2, TypesStep
  <2>4. LocalsKnown'
    BY <1>1, <2>1, <2>2, ListFacts, LocalsStep
  <2>5. ObjectsApart'
    BY <1>1, <2>1, <2>2, ObjectsStep
  <2>6. \E r : ListInv(r)'
    <3>1. CASE Clear
      <4>1. ListInv(<<>>)'
        BY <3>1, ClearEmpties
      <4> QED BY <4>1
    <3>2. CASE Finished
      BY <2>1, <3>2, StutterKeeps DEF Finished
    <3>3. ASSUME NEW t \in Threads, ThreadStep(t)
          PROVE  \E r : ListInv(r)'
      <4>1. CASE NewNode(t)
        BY <2>1, <2>2, <4>1, NewNodeKeeps
      <4>2. CASE SetNext(t)
        BY <2>1, <2>2, <4>2, SetNextKeeps
      <4>3. CASE SizeDown(t) \/ SizeUp(t)
        BY <2>1, <2>2, <4>3, SizeKeeps
      <4>4. ASSUME NEW o \in inUse, FreeId(t, o)
            PROVE  \E r : ListInv(r)'
        BY <2>1, <2>2, <4>4, FreeIdKeeps
      <4>5. CASE PopTop(t) /\ SameTop(t)
        BY <2>1, <2>2, <4>5, PopTakes
      <4>6. CASE PushTop(t) /\ SameTop(t)
        BY <2>1, <2>2, <4>6, PushPuts
      <4>7. CASE \/ ReadTop(t) \/ ReadNext(t) \/ ReadTopToPush(t)
                 \/ (PopTop(t) \/ PushTop(t)) /\ ~SameTop(t)
        BY <2>1, <2>2, <4>7, QuietKeeps
      <4> QED BY <3>3, <4>1, <4>2, <4>3, <4>4, <4>5, <4>6, <4>7 DEF ThreadStep
    <3> QED BY <1>1, <3>1, <3>2, <3>3 DEF NextStep
  <2> QED BY <2>3, <2>4, <2>5, <2>6 DEF PoolInv
<1>2. CASE UNCHANGED vars
  <2>1. PICK q : ListInv(q)
    BY DEF PoolInv
  <2>2. ListInv(q)'
    BY <1>2, <2>1, StutterKeeps
  <2>3. TypeOK' /\ LocalsKnown' /\ ObjectsApart'
    BY <1>2 DEF PoolInv, vars, shared, locals, TypeOK, LocalsKnown, At, ObjectsApart, Freeing, Brought
  <2> QED BY <2>2, <2>3 DEF PoolInv
<1> QED BY <1>1, <1>2

\* A new pool satisfies the invariant.
LEMMA InitInvariant ==
  ASSUME PoolConstants, Init
  PROVE  PoolInv
<1>1. \E q : ListInv(q)
  BY InitEmpty
<1>2. TypeOK
  BY ConstantFacts DEF Init, TypeOK, Pointers, Null, Objects
<1>3. LocalsKnown
  BY DEF Init, LocalsKnown, At, Labels
<1>4. ObjectsApart
  BY DEF Init, ObjectsApart, Freeing
<1> QED BY <1>1, <1>2, <1>3, <1>4 DEF PoolInv

\* As long as no call of Free is about to push the very pointer that a stalled Alloc has
\* read, ID included, the free objects are one list under mTop, apart from the objects the
\* program has, and what a call has read before its compare-and-swap is still true when the
\* compare-and-swap succeeds.
THEOREM PoolInvariant ==
  ASSUME PoolConstants
  PROVE  Spec /\ []TagsTellApart => []PoolInv
<1>1. Init => PoolInv
  BY InitInvariant
<1>2. PoolInv /\ TagsTellApart /\ [NextStep]_vars => PoolInv'
  BY InvariantStep
<1> QED BY <1>1, <1>2, PTL DEF Spec

----------------------------------------------------------------------------
(* What users see *)

\* The list of ObjectPool: the objects under the pointers.
NodesOf(q) == [i \in 1 .. Len(q) |-> q[i][1]]

\* Walking down from mTop finds the list.
LEMMA ListIsWalked ==
  ASSUME PoolConstants, TypeOK, NEW q, ListInv(q)
  PROVE  Size = Len(q) /\ [i \in 1 .. Size |-> NodeAt[i]] = NodesOf(q)
<1>1. q \in Seq(ObjectPointers) /\ Len(q) \in Nat
  BY ListFacts
<1>2. Len(q) < MaxObjects + 1 /\ MaxObjects + 1 \in Nat
  <2>1. mCapacity = Len(q) + Cardinality(inUse) + Cardinality(Freeing)
    BY DEF ListInv, Counted
  <2>2. mCapacity <= MaxObjects /\ mCapacity \in Nat /\ MaxObjects \in Nat
    BY ConstantFacts DEF TypeOK
  <2>3. Cardinality(inUse) \in Nat /\ Cardinality(Freeing) \in Nat
    BY CountsFinite
  <2> QED BY <1>1, <2>1, <2>2, <2>3
<1>3. ObjectPointers \subseteq (Nat \ {0}) \X Nat
  BY PointerFacts
<1>4. NodeAt = [i \in 1 .. MaxObjects + 1 |-> IF i <= Len(q) THEN q[i][1] ELSE 0]
  <2>1. IsList(mTop, Next, q, ObjectPointers)
    BY DEF ListInv
  <2>2. NodeAt = Walked(mTop, Next, MaxObjects + 1)
    BY Zenon DEF NodeAt, getPurePointer, Walked
  <2> QED BY <1>2, <1>3, <2>1, <2>2, ListWalk
<1>5. \A i \in 1 .. Len(q) : q[i][1] # 0
  BY <1>1, <1>3, ListFacts
<1>6. { i \in 1 .. MaxObjects + 1 : NodeAt[i] # 0 } = 1 .. Len(q)
  <2>1. \A i \in 1 .. MaxObjects + 1 : NodeAt[i] # 0 <=> i <= Len(q)
    BY <1>1, <1>4, <1>5
  <2> QED BY <1>1, <1>2, <2>1
<1>7. Size = Len(q)
  <2>1. \A n \in Nat : Cardinality(1 .. n) = n
    BY FS_Interval
  <2>2. Cardinality(1 .. Len(q)) = Len(q)
    BY <1>1, <2>1
  <2> QED BY <1>6, <2>2 DEF Size
<1>8. \A i \in 1 .. Len(q) : NodeAt[i] = q[i][1]
  BY <1>1, <1>2, <1>4
<1> QED BY <1>7, <1>8 DEF NodesOf

\* The same after a step.
LEMMA ListIsWalkedThen ==
  ASSUME PoolConstants, NEW q
  PROVE  (TypeOK /\ ListInv(q))'
           => (Size = Len(q) /\ [i \in 1 .. Size |-> NodeAt[i]] = NodesOf(q))'
<1>1. TypeOK /\ ListInv(q) => Size = Len(q) /\ [i \in 1 .. Size |-> NodeAt[i]] = NodesOf(q)
  BY ListIsWalked
<1> QED BY <1>1, PTL

\* The nodes of a list that grew or shrank at the top.
LEMMA NodesOfTail ==
  ASSUME PoolConstants, NEW q \in Seq(ObjectPointers), q # <<>>
  PROVE  /\ NodesOf(q) # <<>> /\ Head(NodesOf(q)) = q[1][1]
         /\ NodesOf(Tail(q)) = Tail(NodesOf(q))
<1>1. Len(q) \in Nat \ {0} /\ Len(Tail(q)) = Len(q) - 1
      /\ \A i \in 1 .. Len(q) - 1 : Tail(q)[i] = q[i + 1]
  BY TailOf
<1>2. \A i \in 1 .. Len(q) : q[i][1] \in Objects
  BY PointerFacts
<1> DEFINE n == NodesOf(q)
<1>3. n \in Seq(Objects) /\ Len(n) = Len(q) /\ \A i \in 1 .. Len(q) : n[i] = q[i][1]
  <2>1. n \in [1 .. Len(q) -> Objects] /\ \A i \in 1 .. Len(q) : n[i] = q[i][1]
    BY <1>2 DEF NodesOf
  <2> HIDE DEF n
  <2>2. n \in Seq(Objects) /\ Len(n) = Len(q)
    BY <1>1, <2>1, FunctionIsSeq
  <2> QED BY <2>1, <2>2
<1> HIDE DEF n
<1>4. n # <<>>
  BY <1>1, <1>3, LengthZero
<1>5. /\ Tail(n) \in Seq(Objects) /\ Len(Tail(n)) = Len(q) - 1 /\ Head(n) = n[1]
      /\ \A i \in 1 .. Len(q) - 1 : Tail(n)[i] = n[i + 1]
  BY <1>3, <1>4, TailOf
<1>6. Tail(n) = [i \in 1 .. Len(q) - 1 |-> Tail(n)[i]]
  BY <1>5, SeqIsFunction
<1>7. \A i \in 1 .. Len(q) - 1 : Tail(n)[i] = Tail(q)[i][1]
  <2> TAKE i \in 1 .. Len(q) - 1
  <2>1. i + 1 \in 1 .. Len(q)
    BY <1>1
  <2> QED BY <1>1, <1>3, <1>5, <2>1
<1>8. NodesOf(Tail(q)) = Tail(n)
  BY <1>1, <1>6, <1>7 DEF NodesOf
<1> QED BY <1>1, <1>3, <1>4, <1>5, <1>8 DEF n

LEMMA NodesOfPushed ==
  ASSUME PoolConstants, NEW q \in Seq(ObjectPointers), NEW p \in ObjectPointers
  PROVE  NodesOf(<<p>> \o q) = <<p[1]>> \o NodesOf(q)
<1> DEFINE r == <<p>> \o q
           n == NodesOf(r)
<1>1. r \in Seq(ObjectPointers) /\ Len(r) = Len(q) + 1 /\ r[1] = p /\ Len(q) \in Nat
      /\ \A i \in 1 .. Len(q) : r[i + 1] = q[i]
  BY Prepended, LengthZero
<1> HIDE DEF r
<1>2. r # <<>>
  BY <1>1, LengthZero
<1>3. n # <<>> /\ Head(n) = p[1] /\ NodesOf(Tail(r)) = Tail(n)
  BY <1>1, <1>2, NodesOfTail
<1>4. Tail(r) = q
  BY DEF r
<1>5. n \in Seq(Objects)
  <2>1. \A i \in 1 .. Len(r) : r[i][1] \in Objects
    BY <1>1, PointerFacts
  <2>2. n \in [1 .. Len(r) -> Objects]
    BY <2>1 DEF NodesOf
  <2>3. Len(r) \in Nat
    BY <1>1
  <2> HIDE DEF n
  <2> QED BY <2>2, <2>3, FunctionIsSeq
<1> HIDE DEF n
<1>6. n = <<Head(n)>> \o Tail(n)
  BY <1>3, <1>5
<1> QED BY <1>3, <1>4, <1>6 DEF n, r

\* What ObjectPool calls in use.
InUse == inUse \cup { getPurePointer(newTopHopeToChange[t]) : t \in Freeing }

\* A step that changes neither side of ObjectPool is a stutter of it.
LEMMA Stutters ==
  ASSUME PoolConstants, TypeOK, TypeOK', NEW q, ListInv(q), ListInv(q)', InUse' = InUse
  PROVE  UNCHANGED Pool!vars
<1>1. [i \in 1 .. Size |-> NodeAt[i]] = NodesOf(q)
  BY ListIsWalked
<1>2. ([i \in 1 .. Size |-> NodeAt[i]])' = NodesOf(q)
  BY ListIsWalkedThen
<1> QED BY <1>1, <1>2 DEF Pool!vars, InUse

\* Each successful compare-and-swap is a step of ObjectPool.
LEMMA PopIsAlloc ==
  ASSUME PoolConstants, TypeOK, TypeOK', LocalsKnown, NEW q, ListInv(q),
         NEW t \in Threads, PopTop(t), SameTop(t)
  PROVE  Pool!Alloc
<1>1. ListInv(Tail(q))' /\ q # <<>> /\ inUse' = inUse \cup {q[1][1]}
  BY PopTakes
<1>2. [i \in 1 .. Size |-> NodeAt[i]] = NodesOf(q)
  BY ListIsWalked
<1>3. ([i \in 1 .. Size |-> NodeAt[i]])' = NodesOf(Tail(q))
  BY <1>1, ListIsWalkedThen
<1>4. UNCHANGED newTopHopeToChange /\ Freeing' = Freeing
  BY DEF PopTop, locals, LocalsKnown, Freeing, Goto, At
<1>5. InUse' = InUse \cup {q[1][1]}
  BY <1>1, <1>4 DEF InUse
<1>6. /\ NodesOf(q) # <<>> /\ Head(NodesOf(q)) = q[1][1]
      /\ NodesOf(Tail(q)) = Tail(NodesOf(q))
  BY <1>1, ListFacts, NodesOfTail
<1> QED BY <1>2, <1>3, <1>5, <1>6 DEF Pool!Alloc, InUse

LEMMA PushIsFree ==
  ASSUME PoolConstants, TypeOK, TypeOK', LocalsKnown, ObjectsApart, NEW q, ListInv(q),
         TagsTellApart, NEW t \in Threads, PushTop(t), SameTop(t)
  PROVE  \E o \in Objects : Pool!Free(o)
<1>1. PICK p : p = newTopHopeToChange[t]
  OBVIOUS
<1>2. ListInv(<<p>> \o q)'
  BY <1>1, PushPuts
<1>3. [i \in 1 .. Size |-> NodeAt[i]] = NodesOf(q)
  BY ListIsWalked
<1>4. ([i \in 1 .. Size |-> NodeAt[i]])' = NodesOf(<<p>> \o q)
  BY <1>2, ListIsWalkedThen
<1>5. UNCHANGED <<inUse, newTopHopeToChange>> /\ Freeing' = Freeing \ {t} /\ t \in Freeing
  BY DEF PushTop, locals, LocalsKnown, Freeing, Goto, At
<1>6. p \in ObjectPointers /\ p[1] \in Objects /\ p[1] \notin inUse
      /\ \A u \in Freeing \ {t} : getPurePointer(newTopHopeToChange[u]) # p[1]
  BY <1>1, <1>5, PointerFacts DEF ObjectsApart, Brought, getPurePointer
<1>7. InUse' = InUse \ {p[1]} /\ p[1] \in InUse
  BY <1>1, <1>5, <1>6 DEF InUse, getPurePointer
<1>8. NodesOf(<<p>> \o q) = <<p[1]>> \o NodesOf(q)
  BY <1>6, ListFacts, NodesOfPushed
<1>9. Pool!Free(p[1])
  BY <1>3, <1>4, <1>7, <1>8 DEF Pool!Free, InUse
<1> QED BY <1>6, <1>9

LEMMA NewIsMake ==
  ASSUME PoolConstants, TypeOK, TypeOK', LocalsKnown, ObjectsApart, NEW q, ListInv(q),
         NEW t \in Threads, NewNode(t)
  PROVE  \E o \in Objects : Pool!Make(o)
<1>1. PICK o : o = mCapacity + 1
  OBVIOUS
<1>2. ListInv(q)' /\ o \notin inUse /\ \A i \in 1 .. Len(q) : q[i][1] # o
  BY <1>1, NewNodeKeeps
<1>3. [i \in 1 .. Size |-> NodeAt[i]] = NodesOf(q)
  BY ListIsWalked
<1>4. ([i \in 1 .. Size |-> NodeAt[i]])' = NodesOf(q)
  BY <1>2, ListIsWalkedThen
<1>5. /\ pc \in [Threads -> Labels] /\ newTopHopeToChange \in [Threads -> Pointers]
      /\ mCapacity \in Nat /\ MaxObjects \in Nat
  BY ConstantFacts DEF LocalsKnown, TypeOK
<1>6. o \in Objects /\ inUse' = inUse \cup {o}
  BY <1>1, <1>5 DEF NewNode, Objects
<1>7. Freeing' = Freeing /\ \A u \in Freeing : newTopHopeToChange'[u] = newTopHopeToChange[u]
  BY <1>5 DEF NewNode, Forget, Freeing, Goto, At
<1>8. \A u \in Freeing : getPurePointer(newTopHopeToChange[u]) # o
  BY <1>1, <1>5, PointerFacts DEF ObjectsApart, Brought, getPurePointer, Objects
<1>9. InUse' = InUse \cup {o} /\ o \notin InUse
  BY <1>2, <1>6, <1>7, <1>8 DEF InUse, getPurePointer
<1>10. \A i \in DOMAIN NodesOf(q) : NodesOf(q)[i] # o
  BY <1>2 DEF NodesOf
<1>11. Pool!Make(o)
  BY <1>3, <1>4, <1>9, <1>10 DEF Pool!Make, InUse
<1> QED BY <1>6, <1>11

LEMMA ClearIsClear ==
  ASSUME PoolConstants, TypeOK, TypeOK', Clear
  PROVE  Pool!Clear
<1>1. ListInv(<<>>)'
  BY ClearEmpties
<1>2. ([i \in 1 .. Size |-> NodeAt[i]])' = NodesOf(<<>>)
  BY <1>1, ListIsWalkedThen
<1>3. NodesOf(<<>>) = <<>>
  BY DEF NodesOf
<1>4. Freeing = {} /\ Freeing' = {} /\ inUse = {} /\ inUse' = {}
  BY DEF Clear, Freeing, At
<1>5. InUse = {} /\ InUse' = {}
  BY <1>4 DEF InUse
<1> QED BY <1>2, <1>3, <1>5 DEF Pool!Clear, InUse

\* The steps that change neither side.
LEMMA OtherStutters ==
  ASSUME PoolConstants, TypeOK, TypeOK', LocalsKnown, NEW q, ListInv(q), NEW t \in Threads,
         \/ ReadTop(t) \/ ReadNext(t) \/ ReadTopToPush(t) \/ SetNext(t)
         \/ (PopTop(t) \/ PushTop(t)) /\ ~SameTop(t)
         \/ SizeDown(t) \/ SizeUp(t) \/ \E o \in inUse : FreeId(t, o)
  PROVE  UNCHANGED Pool!vars
<1>1. /\ pc \in [Threads -> Labels] /\ newTopHopeToChange \in [Threads -> Pointers]
  BY DEF LocalsKnown, TypeOK
<1>2. CASE \/ ReadTop(t) \/ ReadNext(t) \/ ReadTopToPush(t) \/ SetNext(t)
           \/ (PopTop(t) \/ PushTop(t)) /\ ~SameTop(t)
  <2>1. UNCHANGED <<inUse, newTopHopeToChange>>
    BY <1>2 DEF ReadTop, ReadNext, ReadTopToPush, SetNext, PopTop, PushTop, shared, locals
  <2>2. Freeing' = Freeing
    BY <1>1, <1>2
       DEF ReadTop, ReadNext, ReadTopToPush, SetNext, PopTop, PushTop, Freeing, Goto, At
  <2>3. InUse' = InUse
    BY <2>1, <2>2 DEF InUse
  <2>4. ListInv(q)'
    BY <1>2, QuietKeeps, SetNextKeeps
  <2> QED BY <2>3, <2>4, Stutters
<1>3. CASE SizeDown(t) \/ SizeUp(t)
  <2>1. /\ UNCHANGED inUse /\ Freeing' = Freeing
        /\ \A u \in Freeing : newTopHopeToChange'[u] = newTopHopeToChange[u]
    BY <1>1, <1>3 DEF SizeDown, SizeUp, Forget, Freeing, Goto, At
  <2>2. InUse' = InUse
    BY <2>1 DEF InUse, getPurePointer
  <2>3. ListInv(q)'
    BY <1>3, SizeKeeps
  <2> QED BY <2>2, <2>3, Stutters
<1>4. ASSUME NEW o \in inUse, FreeId(t, o)
      PROVE  UNCHANGED Pool!vars
  <2>1. /\ inUse' = inUse \ {o} /\ Freeing' = Freeing \cup {t} /\ t \notin Freeing
        /\ \A u \in Freeing : newTopHopeToChange'[u] = newTopHopeToChange[u]
        /\ newTopHopeToChange'[t][1] = o
    BY <1>1, <1>4 DEF FreeId, Freeing, Goto, At
  <2>2. InUse' = InUse
    BY <1>4, <2>1 DEF InUse, getPurePointer
  <2>3. ListInv(q)'
    BY <1>4, FreeIdKeeps
  <2> QED BY <2>2, <2>3, Stutters
<1> QED BY <1>2, <1>3, <1>4

\* Every step is a step of ObjectPool, or none.
LEMMA StepIsPoolStep ==
  ASSUME PoolConstants, PoolInv, PoolInv', TagsTellApart, [NextStep]_vars
  PROVE  [Pool!Next]_(Pool!vars)
<1>1. PICK q : ListInv(q)
  BY DEF PoolInv
<1>2. TypeOK /\ LocalsKnown /\ ObjectsApart /\ TypeOK'
  BY DEF PoolInv
<1>3. CASE UNCHANGED vars \/ Finished
  <2>1. UNCHANGED vars
    BY <1>3 DEF Finished
  <2>2. ListInv(q)'
    BY <1>1, <2>1, StutterKeeps
  <2>3. InUse' = InUse
    BY <2>1 DEF InUse, Freeing, vars, shared, locals
  <2> QED BY <1>1, <1>2, <2>2, <2>3, Stutters
<1>4. CASE Clear
  BY <1>2, <1>4, ClearIsClear DEF Pool!Next
<1>5. ASSUME NEW t \in Threads, ThreadStep(t)
      PROVE  [Pool!Next]_(Pool!vars)
  <2>1. CASE NewNode(t)
    BY <1>1, <1>2, <2>1, NewIsMake DEF Pool!Next
  <2>2. CASE PopTop(t) /\ SameTop(t)
    BY <1>1, <1>2, <2>2, PopIsAlloc DEF Pool!Next
  <2>3. CASE PushTop(t) /\ SameTop(t)
    BY <1>1, <1>2, <2>3, PushIsFree DEF Pool!Next
  <2>4. CASE \/ ReadTop(t) \/ ReadNext(t) \/ ReadTopToPush(t) \/ SetNext(t)
             \/ (PopTop(t) \/ PushTop(t)) /\ ~SameTop(t)
             \/ SizeDown(t) \/ SizeUp(t) \/ \E o \in inUse : FreeId(t, o)
    BY <1>1, <1>2, <2>4, OtherStutters
  <2> QED BY <1>5, <2>1, <2>2, <2>3, <2>4 DEF ThreadStep
<1> QED BY <1>3, <1>4, <1>5 DEF NextStep

\* A new pool is a new ObjectPool.
LEMMA InitIsPoolInit ==
  ASSUME PoolConstants, Init
  PROVE  Pool!Init
<1>1. ListInv(<<>>) /\ TypeOK
  BY InitEmpty, InitInvariant DEF PoolInv
<1>2. [i \in 1 .. Size |-> NodeAt[i]] = NodesOf(<<>>)
  BY <1>1, ListIsWalked
<1>3. NodesOf(<<>>) = <<>>
  BY DEF NodesOf
<1>4. Freeing = {} /\ inUse = {}
  BY DEF Init, Freeing, At
<1> QED BY <1>2, <1>3, <1>4 DEF Pool!Init

\* As long as tags tell pointers apart, the pool implements ObjectPool: Alloc hands an object
\* out and Free takes one back in one step, the successful compare-and-swap, whatever the
\* other threads do in the meantime; no object is lost or handed out twice.
THEOREM PoolRefined ==
  ASSUME PoolConstants
  PROVE  Spec /\ []TagsTellApart => Pool!Spec
<1>1. Init => Pool!Init
  BY InitIsPoolInit
<1>2. PoolInv /\ PoolInv' /\ TagsTellApart /\ [NextStep]_vars => [Pool!Next]_(Pool!vars)
  BY StepIsPoolStep
<1> QED BY <1>1, <1>2, PoolInvariant, PTL DEF Spec, Pool!Spec

\* The counters agree with the list, for a call that has not yet counted in its favour.
LEMMA CountersAgree ==
  ASSUME PoolConstants, PoolInv
  PROVE  CountsItself
<1>1. PICK q : ListInv(q)
  BY DEF PoolInv
<1>2. Size = Len(q)
  BY <1>1, ListIsWalked DEF PoolInv
<1> QED BY <1>1, <1>2 DEF ListInv, Counted, CountsItself, GoingDown, GoingUp

----------------------------------------------------------------------------
(* An ID that has not come round *)

\* Nobody but the call of Free that brings it has a pointer with this ID.
IdsFresh ==
  /\ mTop[2] <= mID
  /\ \A o \in Objects : Next[o][2] <= mID
  /\ \A t \in Threads : /\ localMyTop[t][2] <= mID /\ localMyNext[t][2] <= mID
                        /\ newTopHopeToChange[t][2] <= mID
  /\ \A u \in Freeing :
       /\ mTop # newTopHopeToChange[u]
       /\ \A o \in Objects : Next[o] # newTopHopeToChange[u]
       /\ \A t \in Threads : /\ localMyTop[t] # newTopHopeToChange[u]
                             /\ localMyNext[t] # newTopHopeToChange[u]
       /\ \A t \in Freeing : newTopHopeToChange[u] = newTopHopeToChange[t] => t = u

\* Such a pointer is not one that anybody has read.
LEMMA FreshApart ==
  ASSUME IdsFresh
  PROVE  TagsTellApart
BY DEF IdsFresh, TagsTellApart, Freeing, At

\* The Spec of the pool with a fresh ID for each call of Free.
LEMMA FreshStep ==
  ASSUME PoolConstants, MaxFrees < TagCount, PoolInv, IdsFresh, [NextStep]_vars
  PROVE  IdsFresh'
<1>1. /\ pc \in [Threads -> Labels] /\ newTopHopeToChange \in [Threads -> Pointers]
      /\ localMyTop \in [Threads -> Pointers] /\ localMyNext \in [Threads -> Pointers]
      /\ Next \in [Objects -> Pointers] /\ mTop \in Pointers /\ mID \in Nat
      /\ \A p \in Pointers : p[2] \in Nat
      /\ Null \in Pointers /\ Null[2] = 0
  BY ConstantFacts, PointerFacts DEF PoolInv, LocalsKnown, TypeOK, Pointers, Null
<1>2. CASE UNCHANGED vars \/ Finished
  BY <1>2 DEF Finished, vars, shared, locals, IdsFresh, Freeing
<1>3. CASE Clear
  <2>1. /\ mTop' = Null /\ mID' = 0 /\ Next' = [o \in Objects |-> Null]
        /\ Freeing' = {} /\ UNCHANGED locals
    BY <1>3 DEF Clear, Freeing, At
  <2>2. \A t \in Threads : /\ localMyTop[t] = Null /\ localMyNext[t] = Null
                           /\ newTopHopeToChange[t] = Null
    BY <1>3 DEF Clear, PoolInv, LocalsKnown
  <2> QED BY <1>1, <2>1, <2>2 DEF IdsFresh, locals
<1>4. ASSUME NEW t \in Threads, ThreadStep(t)
      PROVE  IdsFresh'
  <2>1. CASE ReadTop(t) \/ ReadTopToPush(t)
    <3>1. /\ UNCHANGED <<mTop, mID, Next, localMyNext, newTopHopeToChange>> /\ Freeing' = Freeing
          /\ localMyTop' = [localMyTop EXCEPT ![t] = mTop]
      BY <1>1, <2>1 DEF ReadTop, ReadTopToPush, shared, Freeing, Goto, At
    <3> QED BY <1>1, <3>1 DEF IdsFresh
  <2>2. CASE NewNode(t) \/ SizeDown(t) \/ SizeUp(t)
    <3>1. /\ UNCHANGED <<mTop, mID, Next>> /\ Freeing' = Freeing /\ t \notin Freeing
          /\ localMyTop' = [localMyTop EXCEPT ![t] = Null]
          /\ localMyNext' = [localMyNext EXCEPT ![t] = Null]
          /\ newTopHopeToChange' = [newTopHopeToChange EXCEPT ![t] = Null]
      BY <1>1, <2>2 DEF NewNode, SizeDown, SizeUp, Forget, Freeing, Goto, At
    <3>2. \A u \in Freeing : /\ u # t /\ u \in Threads
                              /\ newTopHopeToChange'[u] = newTopHopeToChange[u]
                              /\ newTopHopeToChange[u] # Null
      BY <1>1, <3>1, PointerFacts DEF PoolInv, ObjectsApart, Freeing
    <3> QED BY <1>1, <3>1, <3>2 DEF IdsFresh
  <2>3. CASE ReadNext(t)
    <3>1. PICK o \in Objects : o = getPurePointer(localMyTop[t])
      BY <2>3, PointerFacts DEF ReadNext, PoolInv, LocalsKnown, At, getPurePointer
    <3>2. /\ UNCHANGED <<mTop, mID, Next, localMyTop, newTopHopeToChange>> /\ Freeing' = Freeing
          /\ localMyNext' = [localMyNext EXCEPT ![t] = Next[o]]
      BY <1>1, <2>3, <3>1 DEF ReadNext, shared, Freeing, Goto, At
    <3> QED BY <1>1, <3>1, <3>2 DEF IdsFresh
  <2>4. CASE PopTop(t)
    <3>1. /\ UNCHANGED <<mID, Next, localMyTop, localMyNext, newTopHopeToChange>>
          /\ Freeing' = Freeing /\ mTop' \in {mTop, localMyNext[t]}
      BY <1>1, <2>4 DEF PopTop, locals, Freeing, Goto, At
    <3> QED BY <1>1, <3>1 DEF IdsFresh
  <2>5. ASSUME NEW o \in inUse, FreeId(t, o)
        PROVE  IdsFresh'
    <3>1. PICK p : p = <<o, mID + 1>>
      OBVIOUS
    <3>2. IdFlag(mID + 1) = mID + 1
      <4>1. mID + 1 \in 0 .. TagCount - 1
        BY <1>1, <2>5, ConstantFacts DEF FreeId
      <4> QED BY <4>1, ConstantFacts DEF IdFlag
    <3>3. /\ UNCHANGED <<mTop, Next, localMyTop, localMyNext>> /\ mID' = mID + 1
          /\ newTopHopeToChange' = [newTopHopeToChange EXCEPT ![t] = p]
          /\ Freeing' = Freeing \cup {t} /\ t \notin Freeing
      BY <1>1, <2>5, <3>1, <3>2 DEF FreeId, Freeing, Goto, At
    <3>4. \A r \in Pointers : r[2] <= mID => r[2] <= mID + 1 /\ r # p
      BY <1>1, <3>1
    <3>5. p[2] <= mID + 1
      BY <1>1, <3>1
    <3>6. /\ mTop'[2] <= mID' /\ \A n \in Objects : Next'[n][2] <= mID'
          /\ \A u \in Threads : /\ localMyTop'[u][2] <= mID' /\ localMyNext'[u][2] <= mID'
                                /\ newTopHopeToChange'[u][2] <= mID'
      BY <1>1, <3>3, <3>4, <3>5 DEF IdsFresh
    <3>7. /\ mTop' # p /\ \A n \in Objects : Next'[n] # p
          /\ \A u \in Threads : localMyTop'[u] # p /\ localMyNext'[u] # p
          /\ \A u \in Freeing : newTopHopeToChange'[u] # p
      BY <1>1, <3>3, <3>4 DEF IdsFresh, Freeing
    <3>8. newTopHopeToChange'[t] = p
          /\ \A u \in Freeing : newTopHopeToChange'[u] = newTopHopeToChange[u]
      BY <1>1, <3>3
    <3> QED BY <3>3, <3>6, <3>7, <3>8 DEF IdsFresh
  <2>6. CASE SetNext(t)
    <3>1. /\ UNCHANGED <<mTop, mID, localMyTop, localMyNext, newTopHopeToChange>>
          /\ Freeing' = Freeing
          /\ Next' = [Next EXCEPT ![getPurePointer(newTopHopeToChange[t])] = localMyTop[t]]
      BY <1>1, <2>6 DEF SetNext, locals, Freeing, Goto, At
    <3>2. \A o \in Objects : Next'[o] \in {Next[o], localMyTop[t]}
      BY <1>1, <3>1
    <3> QED BY <1>1, <3>1, <3>2 DEF IdsFresh
  <2>7. CASE PushTop(t)
    <3>1. /\ UNCHANGED <<mID, Next, localMyTop, localMyNext, newTopHopeToChange>> /\ t \in Freeing
      BY <2>7 DEF PushTop, locals, Freeing, At
    <3>2. CASE SameTop(t)
      <4>1. Freeing' = Freeing \ {t} /\ mTop' = newTopHopeToChange[t]
        BY <1>1, <2>7, <3>2 DEF PushTop, Freeing, Goto, At
      <4>2. \A u \in Freeing \ {t} : newTopHopeToChange[t] # newTopHopeToChange[u]
        BY <3>1 DEF IdsFresh
      <4>3. t \in Threads
        OBVIOUS
      <4> QED BY <3>1, <4>1, <4>2, <4>3 DEF IdsFresh
    <3>3. CASE ~SameTop(t)
      <4>1. Freeing' = Freeing /\ UNCHANGED mTop
        BY <1>1, <2>7, <3>3 DEF PushTop, Freeing, Goto, At
      <4> QED BY <3>1, <4>1 DEF IdsFresh
    <3> QED BY <3>2, <3>3
  <2> QED BY <1>4, <2>1, <2>2, <2>3, <2>4, <2>5, <2>6, <2>7 DEF ThreadStep
<1> QED BY <1>2, <1>3, <1>4 DEF NextStep

\* While fewer objects are freed than there are IDs, no pointer is ever brought back that
\* somebody still has from before: the hypothesis of the theorems above holds.
THEOREM TagsTellPointersApart ==
  ASSUME PoolConstants, MaxFrees < TagCount
  PROVE  Spec => [](PoolInv /\ TagsTellApart)
<1>1. Init => PoolInv /\ IdsFresh
  <2> SUFFICES ASSUME Init PROVE PoolInv /\ IdsFresh
    OBVIOUS
  <2>1. Freeing = {} /\ Null[2] = 0 /\ mID = 0
    BY DEF Init, Freeing, Null
  <2> QED BY <2>1, InitInvariant DEF Init, IdsFresh
<1>2. PoolInv /\ IdsFresh /\ [NextStep]_vars => (PoolInv /\ IdsFresh)'
  BY FreshApart, InvariantStep, FreshStep
<1>3. IdsFresh => TagsTellApart
  BY FreshApart
<1> QED BY <1>1, <1>2, <1>3, PTL DEF Spec

\* Such a pool implements ObjectPool.
THEOREM PoolImplementsObjectPool ==
  ASSUME PoolConstants, MaxFrees < TagCount
  PROVE  Spec => Pool!Spec
BY TagsTellPointersApart, PoolRefined, PTL

\* Its counters are right whenever nobody is inside a call: mSize is the length of the list
\* and mCapacity the number of objects, free or not, which is what Clear asserts.
THEOREM PoolCountsItself ==
  ASSUME PoolConstants, MaxFrees < TagCount
  PROVE  Spec => []CountsItself
<1>1. PoolInv => CountsItself
  BY CountersAgree
<1> QED BY <1>1, TagsTellPointersApart, PTL

\* Its variables have the values they should.
THEOREM PoolTyped ==
  ASSUME PoolConstants, MaxFrees < TagCount
  PROVE  Spec => []TypeOK
<1>1. PoolInv => TypeOK
  BY DEF PoolInv
<1> QED BY <1>1, TagsTellPointersApart, PTL

----------------------------------------------------------------------------
(***************************************************************************)
(* TlsObjectPool, for any number of threads, any size of the chunks and any *)
(* number of them.  It is proved about apart from the pool above: the two   *)
(* have no step in common, and where their variables have the same names    *)
(* (mTop, mSize, Next, inUse, pc) they are here those of TlsObjectPool.     *)
(*                                                                          *)
(* TlsInv says where each object is: place and pos give it one place and,   *)
(* in a list, its position counted from the end, so that an object keeps    *)
(* its position while others come and go above it.  mHalfTop is then the    *)
(* object at position ChunkSize, and cutting the list below it leaves one   *)
(* chunk on either side, whichever threads the objects came from.           *)
(***************************************************************************)

\* The constants and the variables TlsObjectPool does not share with LockFreeObjectPool.
CONSTANTS ChunkSize, MaxChunks, MaxEnds

VARIABLES
  mHalfTop, mChunks, mChunkTotalCount, made, lost, ends, newChunk

Tls == INSTANCE TlsObjectPool

\* The cardinality in the instance is the one of FiniteSetTheorems.
LEMMA SameCardinality == \A S : Tls!Cardinality(S) = Cardinality(S)
<1>1. \A S : Tls!IsFiniteSet(S) <=> IsFiniteSet(S)
  BY DEF Tls!IsFiniteSet, IsFiniteSet
<1> QED BY <1>1 DEF Tls!Cardinality, Cardinality

----------------------------------------------------------------------------
(* Lists of objects *)

\* Each object has a place, and, if that is a list, a position in it, counted from the end.
\* These are the list k of size objects under top.
Chain(place, pos, next, k, top, size) ==
  /\ size \in Nat
  /\ \A n \in DOMAIN place : place[n] = k =>
       /\ pos[n] \in 0 .. size - 1
       /\ IF pos[n] = 0 THEN next[n] = 0
          ELSE next[n] \in DOMAIN place /\ place[next[n]] = k /\ pos[next[n]] = pos[n] - 1
  /\ \A m, n \in DOMAIN place : place[m] = k /\ place[n] = k /\ pos[m] = pos[n] => m = n
  /\ IF size = 0 THEN top = 0
     ELSE top \in DOMAIN place /\ place[top] = k /\ pos[top] = size - 1

\* Nothing of the list k has changed.
Untouched(place, pos, next, place2, pos2, next2, k) ==
  /\ \A n \in DOMAIN place : place[n] = k =>
       n \in DOMAIN place2 /\ place2[n] = k /\ pos2[n] = pos[n] /\ next2[n] = next[n]
  /\ \A n \in DOMAIN place2 : place2[n] = k => n \in DOMAIN place /\ place[n] = k

\* So it is a list as before.
LEMMA ChainStays ==
  ASSUME NEW place, NEW pos, NEW next, NEW place2, NEW pos2, NEW next2, NEW k, NEW top, NEW size,
         Chain(place, pos, next, k, top, size),
         Untouched(place, pos, next, place2, pos2, next2, k)
  PROVE  Chain(place2, pos2, next2, k, top, size)
BY DEF Chain, Untouched

\* The object on top moves to another place.
LEMMA ChainPop ==
  ASSUME NEW place, NEW pos, NEW next, NEW k, NEW top, NEW size,
         Chain(place, pos, next, k, top, size), top # 0, NEW k2, k2 # k
  PROVE  /\ top \in DOMAIN place /\ place[top] = k /\ size \in Nat \ {0}
         /\ Chain([place EXCEPT ![top] = k2], pos, next, k, next[top], size - 1)
<1> DEFINE p2 == [place EXCEPT ![top] = k2]
<1>1. size \in Nat \ {0} /\ top \in DOMAIN place /\ place[top] = k /\ pos[top] = size - 1
  BY DEF Chain
<1>2. /\ DOMAIN p2 = DOMAIN place /\ p2[top] = k2
      /\ \A n \in DOMAIN place : n # top => p2[n] = place[n]
  BY <1>1
<1> HIDE DEF p2
<1>3. ASSUME NEW n \in DOMAIN p2, p2[n] = k
      PROVE  /\ pos[n] \in 0 .. (size - 1) - 1
             /\ IF pos[n] = 0 THEN next[n] = 0
                ELSE next[n] \in DOMAIN p2 /\ p2[next[n]] = k /\ pos[next[n]] = pos[n] - 1
  <2>1. n # top /\ n \in DOMAIN place /\ place[n] = k
    BY <1>2, <1>3
  <2>2. pos[n] \in 0 .. size - 1 /\ pos[n] # size - 1
    BY <1>1, <2>1 DEF Chain
  <2>3. pos[n] \in 0 .. (size - 1) - 1
    BY <1>1, <2>2
  <2>4. pos[n] # 0 => next[n] # top
    BY <1>1, <2>1, <2>3 DEF Chain
  <2> QED BY <1>2, <2>1, <2>3, <2>4 DEF Chain
<1>4. \A m, n \in DOMAIN p2 : p2[m] = k /\ p2[n] = k /\ pos[m] = pos[n] => m = n
  BY <1>2 DEF Chain
<1>5. IF size - 1 = 0 THEN next[top] = 0
      ELSE next[top] \in DOMAIN p2 /\ p2[next[top]] = k /\ pos[next[top]] = (size - 1) - 1
  <2>1. CASE size - 1 = 0
    BY <1>1, <2>1 DEF Chain
  <2>2. CASE size - 1 # 0
    <3>1. next[top] \in DOMAIN place /\ place[next[top]] = k /\ pos[next[top]] = pos[top] - 1
      BY <1>1, <2>2 DEF Chain
    <3>2. next[top] # top
      BY <1>1, <3>1
    <3> QED BY <1>1, <1>2, <2>2, <3>1, <3>2
  <2> QED BY <2>1, <2>2
<1>6. size - 1 \in Nat
  BY <1>1
<1>7. Chain(p2, pos, next, k, next[top], size - 1)
  BY <1>3, <1>4, <1>5, <1>6 DEF Chain
<1> QED BY <1>1, <1>7 DEF p2

\* An object from elsewhere is put on top.
LEMMA ChainPush ==
  ASSUME NEW place, NEW pos, NEW next, NEW k, NEW top, NEW size,
         Chain(place, pos, next, k, top, size), DOMAIN pos = DOMAIN place,
         NEW n \in DOMAIN place, n \in DOMAIN next, place[n] # k
  PROVE  Chain([place EXCEPT ![n] = k], [pos EXCEPT ![n] = size], [next EXCEPT ![n] = top],
               k, n, size + 1)
<1> DEFINE p2 == [place EXCEPT ![n] = k]
           q2 == [pos EXCEPT ![n] = size]
           x2 == [next EXCEPT ![n] = top]
<1>1. /\ DOMAIN p2 = DOMAIN place /\ p2[n] = k /\ q2[n] = size /\ x2[n] = top
      /\ \A m \in DOMAIN place : m # n => p2[m] = place[m] /\ q2[m] = pos[m] /\ x2[m] = next[m]
  OBVIOUS
<1> HIDE DEF p2, q2, x2
<1>2. size \in Nat
  BY DEF Chain
<1>3. ASSUME NEW m \in DOMAIN p2, p2[m] = k
      PROVE  /\ q2[m] \in 0 .. (size + 1) - 1
             /\ IF q2[m] = 0 THEN x2[m] = 0
                ELSE x2[m] \in DOMAIN p2 /\ p2[x2[m]] = k /\ q2[x2[m]] = q2[m] - 1
  <2>1. CASE m = n
    <3>1. CASE size = 0
      BY <1>1, <1>2, <2>1, <3>1 DEF Chain
    <3>2. CASE size # 0
      <4>1. top \in DOMAIN place /\ place[top] = k /\ pos[top] = size - 1 /\ top # n
        BY <3>2 DEF Chain
      <4>2. x2[m] = top /\ q2[m] = size /\ p2[top] = k /\ q2[top] = size - 1
        BY <1>1, <2>1, <4>1
      <4> QED BY <1>1, <1>2, <3>2, <4>1, <4>2
    <3> QED BY <3>1, <3>2
  <2>2. CASE m # n
    <3>1. m \in DOMAIN place /\ place[m] = k /\ q2[m] = pos[m] /\ x2[m] = next[m]
      BY <1>1, <1>3, <2>2
    <3>2. pos[m] \in 0 .. size - 1
      BY <3>1 DEF Chain
    <3>3. pos[m] # 0 => next[m] \in DOMAIN place /\ place[next[m]] = k /\ pos[next[m]] = pos[m] - 1
                        /\ next[m] # n
      BY <3>1 DEF Chain
    <3>4. pos[m] = 0 => next[m] = 0
      BY <3>1 DEF Chain
    <3> QED BY <1>1, <1>2, <3>1, <3>2, <3>3, <3>4
  <2> QED BY <2>1, <2>2
<1>4. ASSUME NEW l \in DOMAIN p2, NEW m \in DOMAIN p2, p2[l] = k, p2[m] = k, q2[l] = q2[m]
      PROVE  l = m
  <2>1. \A j \in DOMAIN place : place[j] = k => pos[j] # size
    BY <1>2 DEF Chain
  <2> QED BY <1>1, <1>4, <2>1 DEF Chain
<1>5. size + 1 \in Nat /\ size + 1 # 0 /\ q2[n] = (size + 1) - 1
  BY <1>1, <1>2
<1>6. Chain(p2, q2, x2, k, n, size + 1)
  BY <1>1, <1>3, <1>4, <1>5 DEF Chain
<1> QED BY <1>6 DEF p2, q2, x2

\* A list as a whole goes to another place.
Renamed(place, k, k2) == [n \in DOMAIN place |-> IF place[n] = k THEN k2 ELSE place[n]]

\* The list has moved.
LEMMA ChainRename ==
  ASSUME NEW place, NEW pos, NEW next, NEW k, NEW top, NEW size,
         Chain(place, pos, next, k, top, size), NEW k2, \A n \in DOMAIN place : place[n] # k2
  PROVE  Chain(Renamed(place, k, k2), pos, next, k2, top, size)
<1> DEFINE p2 == Renamed(place, k, k2)
<1>1. DOMAIN p2 = DOMAIN place /\ \A n \in DOMAIN place : p2[n] = k2 <=> place[n] = k
  BY DEF Renamed
<1> HIDE DEF p2
<1>2. Chain(p2, pos, next, k2, top, size)
  BY <1>1 DEF Chain
<1> QED BY <1>2 DEF p2

\* The objects of a list from position c upwards, which half ends, become a list of their own.
UpperPlace(place, pos, k, k2, c) ==
  [n \in DOMAIN place |-> IF place[n] = k /\ pos[n] >= c THEN k2 ELSE place[n]]
UpperPos(place, pos, k, c) ==
  [n \in DOMAIN place |-> IF place[n] = k /\ pos[n] >= c THEN pos[n] - c ELSE pos[n]]

\* Both parts are lists.
LEMMA ChainCut ==
  ASSUME NEW place, NEW pos, NEW next, NEW k, NEW top, NEW size,
         Chain(place, pos, next, k, top, size), NEW k2, k2 # k,
         \A n \in DOMAIN place : place[n] # k2,
         NEW half \in DOMAIN place, half \in DOMAIN next, place[half] = k,
         pos[half] \in 1 .. size - 1
  PROVE  LET p2 == UpperPlace(place, pos, k, k2, pos[half])
             q2 == UpperPos(place, pos, k, pos[half])
             x2 == [next EXCEPT ![half] = 0]
         IN  /\ Chain(p2, q2, x2, k2, top, size - pos[half])
             /\ Chain(p2, q2, x2, k, next[half], pos[half])
<1> DEFINE c == pos[half]
           p2 == UpperPlace(place, pos, k, k2, c)
           q2 == UpperPos(place, pos, k, c)
           x2 == [next EXCEPT ![half] = 0]
<1>1. /\ DOMAIN p2 = DOMAIN place
      /\ \A n \in DOMAIN place : p2[n] = k2 <=> place[n] = k /\ pos[n] >= c
      /\ \A n \in DOMAIN place : p2[n] = k <=> place[n] = k /\ ~(pos[n] >= c)
      /\ \A n \in DOMAIN place : place[n] = k /\ pos[n] >= c => q2[n] = pos[n] - c
      /\ \A n \in DOMAIN place : place[n] = k /\ ~(pos[n] >= c) => q2[n] = pos[n]
      /\ x2[half] = 0 /\ \A n \in DOMAIN place : n # half => x2[n] = next[n]
  BY DEF UpperPlace, UpperPos
<1> HIDE DEF p2, q2, x2
<1>2. /\ size \in Nat /\ c \in Nat /\ c >= 1 /\ c < size
      /\ \A n \in DOMAIN place : place[n] = k => pos[n] \in Nat /\ pos[n] < size
  BY DEF Chain
<1>3. \A n \in DOMAIN place : place[n] = k /\ pos[n] # 0 =>
        next[n] \in DOMAIN place /\ place[next[n]] = k /\ pos[next[n]] = pos[n] - 1
  BY DEF Chain
<1>4. \A n \in DOMAIN place : place[n] = k /\ n # half => pos[n] # c
  BY DEF Chain
<1>5. ASSUME NEW n \in DOMAIN p2, p2[n] = k2
      PROVE  /\ q2[n] \in 0 .. (size - c) - 1
             /\ IF q2[n] = 0 THEN x2[n] = 0
                ELSE x2[n] \in DOMAIN p2 /\ p2[x2[n]] = k2 /\ q2[x2[n]] = q2[n] - 1
  <2>1. n \in DOMAIN place /\ place[n] = k /\ pos[n] >= c /\ q2[n] = pos[n] - c
    BY <1>1, <1>5
  <2>2. pos[n] \in Nat /\ pos[n] < size
    BY <1>2, <2>1
  <2>3. q2[n] \in 0 .. (size - c) - 1
    BY <1>2, <2>1, <2>2
  <2>4. CASE n = half
    BY <1>1, <1>2, <2>1, <2>3, <2>4
  <2>5. CASE n # half
    <3>1. pos[n] - 1 >= c /\ pos[n] # 0 /\ q2[n] # 0
      BY <1>2, <1>4, <2>1, <2>2, <2>5
    <3>2. /\ next[n] \in DOMAIN place /\ place[next[n]] = k /\ pos[next[n]] = pos[n] - 1
          /\ x2[n] = next[n]
      BY <1>1, <1>3, <2>1, <2>5, <3>1
    <3>3. p2[next[n]] = k2 /\ q2[next[n]] = (pos[n] - 1) - c
      BY <1>1, <3>1, <3>2
    <3> QED BY <1>1, <1>2, <2>1, <2>2, <2>3, <3>1, <3>2, <3>3
  <2> QED BY <2>4, <2>5
<1>6. ASSUME NEW n \in DOMAIN p2, p2[n] = k
      PROVE  /\ q2[n] \in 0 .. c - 1
             /\ IF q2[n] = 0 THEN x2[n] = 0
                ELSE x2[n] \in DOMAIN p2 /\ p2[x2[n]] = k /\ q2[x2[n]] = q2[n] - 1
  <2>1. n \in DOMAIN place /\ place[n] = k /\ ~(pos[n] >= c) /\ q2[n] = pos[n]
    BY <1>1, <1>6
  <2>2. pos[n] \in Nat /\ n # half
    BY <1>2, <2>1
  <2>3. q2[n] \in 0 .. c - 1 /\ x2[n] = next[n]
    BY <1>1, <1>2, <2>1, <2>2
  <2>4. CASE pos[n] = 0
    BY <2>1, <2>3, <2>4 DEF Chain
  <2>5. CASE pos[n] # 0
    <3>1. next[n] \in DOMAIN place /\ place[next[n]] = k /\ pos[next[n]] = pos[n] - 1
      BY <1>3, <2>1, <2>5
    <3>2. ~(pos[n] - 1 >= c)
      BY <1>2, <2>1, <2>2
    <3> QED BY <1>1, <2>1, <2>3, <2>5, <3>1, <3>2
  <2> QED BY <2>4, <2>5
<1>7. ASSUME NEW m \in DOMAIN p2, NEW n \in DOMAIN p2, p2[m] = k2, p2[n] = k2, q2[m] = q2[n]
      PROVE  m = n
  <2>1. /\ m \in DOMAIN place /\ n \in DOMAIN place /\ place[m] = k /\ place[n] = k
        /\ pos[m] - c = pos[n] - c
    BY <1>1, <1>7
  <2>2. pos[m] = pos[n]
    BY <1>2, <2>1
  <2> QED BY <2>1, <2>2 DEF Chain
<1>8. \A m, n \in DOMAIN p2 : p2[m] = k /\ p2[n] = k /\ q2[m] = q2[n] => m = n
  BY <1>1 DEF Chain
<1>9. size - c \in Nat \ {0} /\ top \in DOMAIN p2 /\ p2[top] = k2 /\ q2[top] = (size - c) - 1
  <2>1. top \in DOMAIN place /\ place[top] = k /\ pos[top] = size - 1
    BY <1>2 DEF Chain
  <2>2. pos[top] >= c
    BY <1>2, <2>1
  <2> QED BY <1>1, <1>2, <2>1, <2>2
<1>10. c \in Nat \ {0} /\ next[half] \in DOMAIN p2 /\ p2[next[half]] = k /\ q2[next[half]] = c - 1
  <2>1. next[half] \in DOMAIN place /\ place[next[half]] = k /\ pos[next[half]] = c - 1
    BY <1>2, <1>3
  <2>2. ~(c - 1 >= c)
    BY <1>2
  <2> QED BY <1>1, <1>2, <2>1, <2>2
<1>11. Chain(p2, q2, x2, k2, top, size - c)
  BY <1>5, <1>7, <1>9 DEF Chain
<1>12. Chain(p2, q2, x2, k, next[half], c)
  BY <1>6, <1>8, <1>10 DEF Chain
<1> QED BY <1>11, <1>12 DEF p2, q2, x2, c

\* Every position of a list is taken.
LEMMA ChainFull ==
  ASSUME NEW place, NEW pos, NEW next, NEW k, NEW top, NEW size,
         Chain(place, pos, next, k, top, size), NEW i \in 0 .. size - 1
  PROVE  \E n \in DOMAIN place : place[n] = k /\ pos[n] = i
<1>1. size \in Nat /\ i \in Nat /\ i < size
  BY DEF Chain
<1> DEFINE Reached(j) == \E n \in DOMAIN place : place[n] = k /\ pos[n] = (size - 1) - j
           T == { j \in 0 .. size - 1 : ~ Reached(j) }
<1>2. ASSUME T # {}
      PROVE  FALSE
  <2>1. PICK j \in T : \A m \in T : j <= m
    <3>1. T \subseteq Nat
      OBVIOUS
    <3> HIDE DEF T
    <3> QED BY <1>2, <3>1, LeastNumber
  <2>2. j \in 0 .. size - 1 /\ ~ Reached(j)
    BY <2>1
  <2>3. j # 0
    <3>1. Reached(0)
      BY <1>1 DEF Chain
    <3> QED BY <2>2, <3>1
  <2>4. j - 1 \in 0 .. size - 1 /\ ~(j <= j - 1)
    BY <1>1, <2>2, <2>3
  <2>5. Reached(j - 1)
    <3>1. j - 1 \notin T
      BY <2>1, <2>4
    <3> QED BY <2>4, <3>1
  <2>6. PICK n \in DOMAIN place : place[n] = k /\ pos[n] = (size - 1) - (j - 1)
    BY <2>5
  <2>7. pos[n] # 0 /\ pos[n] - 1 = (size - 1) - j
    BY <1>1, <2>2, <2>3, <2>6
  <2>8. next[n] \in DOMAIN place /\ place[next[n]] = k /\ pos[next[n]] = pos[n] - 1
    BY <2>6, <2>7 DEF Chain
  <2> QED BY <2>2, <2>7, <2>8
<1>3. (size - 1) - i \in 0 .. size - 1
  BY <1>1
<1>4. (size - 1) - i \notin T
  <2> HIDE DEF T
  <2> QED BY <1>2
<1>5. Reached((size - 1) - i)
  BY <1>3, <1>4
<1>6. (size - 1) - ((size - 1) - i) = i
  BY <1>1
<1> QED BY <1>5, <1>6

\* A list is no longer than there are objects.
LEMMA ChainFits ==
  ASSUME NEW place, NEW pos, NEW next, NEW k, NEW top, NEW size,
         Chain(place, pos, next, k, top, size), NEW m \in Nat, DOMAIN place = 1 .. m
  PROVE  size <= m
<1> DEFINE f == [i \in 0 .. size - 1 |-> CHOOSE n \in DOMAIN place : place[n] = k /\ pos[n] = i]
<1>1. \A i \in 0 .. size - 1 : f[i] \in 1 .. m /\ pos[f[i]] = i
  BY ChainFull
<1> HIDE DEF f
<1>2. f \in Injection(0 .. size - 1, 1 .. m)
  <2>1. f = [i \in 0 .. size - 1 |-> f[i]]
    BY DEF f
  <2> QED BY <1>1, <2>1 DEF Injection, IsInjective
<1>3. size \in Nat
  BY DEF Chain
<1>4. IsFiniteSet(0 .. size - 1) /\ Cardinality(0 .. size - 1) = size
  BY <1>3, FS_Interval
<1>5. IsFiniteSet(1 .. m) /\ Cardinality(1 .. m) = m
  BY FS_Interval
<1>6. Cardinality(0 .. size - 1) <= Cardinality(1 .. m)
  BY <1>2, <1>4, <1>5, FS_Injection
<1> QED BY <1>4, <1>5, <1>6

\* The i-th object behind top is at the i-th position from above.
LEMMA ChainWalk ==
  ASSUME NEW place, NEW pos, NEW k, NEW top, NEW size,
         Chain(place, pos, Next, k, top, size), DOMAIN place \subseteq Tls!Nodes,
         Next \in [Tls!Nodes -> Tls!Nodes \cup {Tls!Null}], Tls!MaxNodes \in Nat
  PROVE  /\ DOMAIN Tls!Behind(top) = 0 .. Tls!MaxNodes
         /\ \A i \in 0 .. Tls!MaxNodes :
              IF i < size THEN /\ Tls!Behind(top)[i] \in DOMAIN place /\ place[Tls!Behind(top)[i]] = k
                               /\ pos[Tls!Behind(top)[i]] = (size - 1) - i
              ELSE Tls!Behind(top)[i] = Tls!Null
<1> DEFINE F(f) == [i \in 0 .. Tls!MaxNodes |-> IF i = 0 THEN top
                      ELSE IF f[i - 1] = Tls!Null THEN Tls!Null ELSE Next[f[i - 1]]]
           step == [x \in (Tls!Nodes \cup {Tls!Null}) \X (1 .. Tls!MaxNodes) |->
                      IF x[1] = Tls!Null THEN Tls!Null ELSE Next[x[1]]]
           b == Tls!Behind(top)
<1>1. b = CHOOSE f : f = F(f)
  BY DEF Tls!Behind
<1>2. top \in Tls!Nodes \cup {Tls!Null}
  BY DEF Chain, Tls!Null
<1>3. step \in [(Tls!Nodes \cup {Tls!Null}) \X (1 .. Tls!MaxNodes) -> Tls!Nodes \cup {Tls!Null}]
  OBVIOUS
<1>4. PICK f : Recursion(f, Tls!Nodes \cup {Tls!Null}, Tls!MaxNodes, top, step)
  <2> HIDE DEF step
  <2> QED BY <1>2, <1>3, RecursionExists
<1>5. f = F(f)
  <2>1. /\ f \in [0 .. Tls!MaxNodes -> Tls!Nodes \cup {Tls!Null}] /\ f[0] = top
        /\ \A i \in 1 .. Tls!MaxNodes : f[i] = step[<<f[i - 1], i>>]
    BY <1>4 DEF Recursion
  <2>2. \A i \in 1 .. Tls!MaxNodes : i - 1 \in 0 .. Tls!MaxNodes /\ f[i - 1] \in Tls!Nodes \cup {Tls!Null}
    BY <2>1
  <2>3. \A i \in 1 .. Tls!MaxNodes : f[i] = IF f[i - 1] = Tls!Null THEN Tls!Null ELSE Next[f[i - 1]]
    BY <2>1, <2>2
  <2>4. \A i \in 0 .. Tls!MaxNodes : i # 0 => i \in 1 .. Tls!MaxNodes
    OBVIOUS
  <2>5. \A i \in 0 .. Tls!MaxNodes : f[i] = IF i = 0 THEN top
                      ELSE IF f[i - 1] = Tls!Null THEN Tls!Null ELSE Next[f[i - 1]]
    BY <2>1, <2>3, <2>4
  <2>6. f = [i \in 0 .. Tls!MaxNodes |-> f[i]]
    BY <2>1
  <2> QED BY <2>5, <2>6
<1> HIDE DEF b, step
<1>6. b = F(b)
  <2> HIDE DEF F
  <2> QED BY <1>1, <1>5
<1>7. /\ DOMAIN b = 0 .. Tls!MaxNodes
      /\ \A i \in 0 .. Tls!MaxNodes : b[i] = IF i = 0 THEN top
                                         ELSE IF b[i - 1] = Tls!Null THEN Tls!Null ELSE Next[b[i - 1]]
  <2> DEFINE g == F(b)
  <2>1. /\ DOMAIN g = 0 .. Tls!MaxNodes
        /\ \A i \in 0 .. Tls!MaxNodes : g[i] = IF i = 0 THEN top
                                         ELSE IF b[i - 1] = Tls!Null THEN Tls!Null ELSE Next[b[i - 1]]
    OBVIOUS
  <2> HIDE DEF g
  <2>2. b = g
    BY <1>6 DEF g
  <2> QED BY <2>1, <2>2
<1> HIDE DEF F
<1> DEFINE Good(i) == IF i < size THEN b[i] \in DOMAIN place /\ place[b[i]] = k
                                       /\ pos[b[i]] = (size - 1) - i
                      ELSE b[i] = Tls!Null
           T == { i \in 0 .. Tls!MaxNodes : ~ Good(i) }
<1>8. ASSUME T # {}
      PROVE  FALSE
  <2>1. PICK i \in T : \A j \in T : i <= j
    <3>1. T \subseteq Nat
      OBVIOUS
    <3> HIDE DEF T
    <3> QED BY <1>8, <3>1, LeastNumber
  <2>2. i \in 0 .. Tls!MaxNodes /\ ~ Good(i) /\ size \in Nat
    BY <2>1 DEF Chain
  <2>3. i # 0
    <3>1. Good(0)
      BY <1>7, <2>2 DEF Chain, Tls!Null
    <3> QED BY <2>2, <3>1
  <2>4. i - 1 \in 0 .. Tls!MaxNodes /\ ~(i <= i - 1) /\ i - 1 \in Nat
    BY <2>2, <2>3
  <2>5. Good(i - 1)
    <3>1. i - 1 \notin T
      BY <2>1, <2>4
    <3> QED BY <2>4, <3>1
  <2>6. b[i] = IF b[i - 1] = Tls!Null THEN Tls!Null ELSE Next[b[i - 1]]
    BY <1>7, <2>2, <2>3
  <2>7. CASE i - 1 >= size
    <3>1. b[i] = Tls!Null /\ ~(i < size)
      BY <2>2, <2>4, <2>5, <2>6, <2>7
    <3> QED BY <2>2, <3>1
  <2>8. CASE ~(i - 1 >= size)
    <3>1. i - 1 < size
      BY <2>2, <2>4, <2>8
    <3>2. b[i - 1] \in DOMAIN place /\ place[b[i - 1]] = k /\ pos[b[i - 1]] = (size - 1) - (i - 1)
      BY <2>5, <3>1
    <3>3. b[i] = Next[b[i - 1]]
      BY <2>6, <3>2 DEF Tls!Null, Tls!Nodes
    <3>4. CASE i < size
      <4>1. pos[b[i - 1]] # 0 /\ pos[b[i - 1]] - 1 = (size - 1) - i
        BY <2>2, <2>4, <3>2, <3>4
      <4>2. b[i] \in DOMAIN place /\ place[b[i]] = k /\ pos[b[i]] = (size - 1) - i
        BY <3>2, <3>3, <4>1 DEF Chain
      <4> QED BY <2>2, <3>4, <4>2
    <3>5. CASE ~(i < size)
      <4>1. pos[b[i - 1]] = 0
        BY <2>2, <2>4, <3>1, <3>2, <3>5
      <4>2. b[i] = Tls!Null
        BY <3>2, <3>3, <4>1 DEF Chain, Tls!Null
      <4> QED BY <2>2, <3>5, <4>2
    <3> QED BY <3>4, <3>5
  <2> QED BY <2>7, <2>8
<1>9. \A i \in 0 .. Tls!MaxNodes : Good(i)
  <2>1. T = {}
    <3> HIDE DEF T
    <3> QED BY <1>8
  <2> QED BY <2>1
<1> QED BY <1>7, <1>9 DEF b

----------------------------------------------------------------------------
(* The invariant *)

\* The places: with a caller, lost with a thread, the list of a thread, the chunk it makes,
\* a chunk of the manager.
WithCaller    == <<"in use", 0>>
Lost     == <<"lost", 0>>
Own(t)   == <<"own", t>>
Fresh(t) == <<"fresh", t>>
Chunk(i) == <<"chunk", i>>

Homes == {WithCaller, Lost} \cup { Own(t) : t \in Threads } \cup { Fresh(t) : t \in Threads }
         \cup { Chunk(i) : i \in 1 .. Len(mChunks) }

\* Each object that was made has one place, and each list has the objects whose place it is.
Located(place, pos) ==
  /\ DOMAIN place = 1 .. made /\ DOMAIN pos = 1 .. made
  /\ \A n \in 1 .. made : /\ place[n] \in Homes
                          /\ n \in inUse <=> place[n] = WithCaller
                          /\ n \in lost  <=> place[n] = Lost
  /\ \A t \in Threads :
       /\ Chain(place, pos, Next, Own(t), mTop[t], mSize[t])
       /\ Chain(place, pos, Next, Fresh(t), newChunk[t], IF pc[t] = "create" THEN ChunkSize ELSE 0)
  /\ \A i \in 1 .. Len(mChunks) : Chain(place, pos, Next, Chunk(i), mChunks[i], ChunkSize)

\* Above one chunk, mHalfTop is the object on top of the lower one.
HalfTop(place, pos) ==
  \A t \in Threads : mSize[t] > ChunkSize =>
    /\ mHalfTop[t] \in 1 .. made /\ place[mHalfTop[t]] = Own(t) /\ pos[mHalfTop[t]] = ChunkSize

TlsVariables ==
  /\ mTop \in [Threads -> Tls!Nodes \cup {Tls!Null}]
  /\ mHalfTop \in [Threads -> Tls!Nodes \cup {Tls!Null}]
  /\ mSize \in [Threads -> 0 .. Tls!MaxPerThread - 1]
  /\ Next \in [Tls!Nodes -> Tls!Nodes \cup {Tls!Null}]
  /\ mChunks \in Seq(Tls!Nodes) /\ mChunkTotalCount \in 0 .. MaxChunks
  /\ made \in 0 .. Tls!MaxNodes /\ inUse \subseteq 1 .. made /\ lost \subseteq 1 .. made
  /\ ends \in 0 .. MaxEnds
  /\ pc \in [Threads -> {"idle", "alloc", "create"}]
  /\ newChunk \in [Threads -> Tls!Nodes \cup {Tls!Null}]
  /\ made = mChunkTotalCount * ChunkSize
  /\ \A t \in Threads : pc[t] = "alloc" => mTop[t] = Tls!Null

TlsInv == TlsVariables /\ \E place, pos : Located(place, pos) /\ HalfTop(place, pos)

----------------------------------------------------------------------------
(* Constants and places *)

\* What the constants are.
LEMMA TlsConstants ==
  ASSUME Tls!PoolConstants
  PROVE  /\ ChunkSize \in Nat \ {0, 1} /\ MaxChunks \in Nat \ {0} /\ MaxEnds \in Nat
         /\ Tls!MaxNodes \in Nat /\ ChunkSize <= Tls!MaxNodes /\ Tls!MaxPerThread = 2 * ChunkSize
<1>1. /\ ChunkSize \in Nat \ {0, 1} /\ MaxChunks \in Nat \ {0} /\ MaxEnds \in Nat
      /\ Tls!MaxPerThread = 2 * ChunkSize
  BY DEF Tls!PoolConstants, Tls!MaxPerThread
<1>2. \A c \in Nat, m \in Nat \ {0} : m * c \in Nat /\ c <= m * c
  OBVIOUS
<1> QED BY <1>1, <1>2 DEF Tls!MaxNodes

\* No two places are the same.
LEMMA HomesDiffer ==
  /\ WithCaller # Lost
  /\ \A t : Own(t) # WithCaller /\ Own(t) # Lost /\ Fresh(t) # WithCaller /\ Fresh(t) # Lost
            /\ Chunk(t) # WithCaller /\ Chunk(t) # Lost
  /\ \A t, u : Own(t) # Fresh(u) /\ Own(t) # Chunk(u) /\ Fresh(t) # Chunk(u)
  /\ \A t, u : (Own(t) = Own(u) => t = u) /\ (Fresh(t) = Fresh(u) => t = u)
               /\ (Chunk(t) = Chunk(u) => t = u)
BY DEF WithCaller, Lost, Own, Fresh, Chunk

\* There is room for one chunk more.
LEMMA RoomForChunk ==
  ASSUME Tls!PoolConstants, TlsVariables, mChunkTotalCount < MaxChunks
  PROVE  made + ChunkSize <= Tls!MaxNodes /\ made + ChunkSize = (mChunkTotalCount + 1) * ChunkSize
<1>1. \A c, m, s \in Nat : c < m => (c + 1) * s <= m * s /\ (c + 1) * s = c * s + s
  <2> TAKE c, m, s \in Nat
  <2> HAVE c < m
  <2> DEFINE d == m - (c + 1)
  <2>1. d \in Nat /\ m = (c + 1) + d
    OBVIOUS
  <2> HIDE DEF d
  <2>2. m * s = (c + 1) * s + d * s /\ d * s \in Nat /\ (c + 1) * s \in Nat
    BY <2>1
  <2> QED BY <2>2
<1> QED BY <1>1, TlsConstants DEF TlsVariables, Tls!MaxNodes

\* The chunks of the manager have no more objects than there are.
LEMMA ChunksFit ==
  ASSUME Tls!PoolConstants, NEW m \in Nat, NEW chunks, Len(chunks) \in Nat, NEW place, NEW pos,
     NEW next,
         DOMAIN place = 1 .. m,
         \A i \in 1 .. Len(chunks) : Chain(place, pos, next, Chunk(i), chunks[i], ChunkSize)
  PROVE  Len(chunks) * ChunkSize <= m
<1> DEFINE L == Len(chunks)
           A == (1 .. L) \X (0 .. ChunkSize - 1)
           f == [x \in A |-> CHOOSE n \in DOMAIN place : place[n] = Chunk(x[1]) /\ pos[n] = x[2]]
<1>1. ChunkSize \in Nat /\ L \in Nat
  BY TlsConstants
<1>2. \A x \in A : f[x] \in 1 .. m /\ place[f[x]] = Chunk(x[1]) /\ pos[f[x]] = x[2]
  <2> TAKE x \in A
  <2>1. x[1] \in 1 .. L /\ x[2] \in 0 .. ChunkSize - 1
    OBVIOUS
  <2>2. Chain(place, pos, next, Chunk(x[1]), chunks[x[1]], ChunkSize)
    BY <2>1
  <2>3. \E n \in DOMAIN place : place[n] = Chunk(x[1]) /\ pos[n] = x[2]
    BY <2>1, <2>2, ChainFull
  <2> QED BY <2>3
<1>3. f = [x \in A |-> f[x]]
  OBVIOUS
<1>4. \A x, y \in A : x[1] = y[1] /\ x[2] = y[2] => x = y
  OBVIOUS
<1> HIDE DEF f
<1>5. f \in Injection(A, 1 .. m)
  <2>1. f \in [A -> 1 .. m]
    BY <1>2, <1>3
  <2>2. \A x, y \in A : f[x] = f[y] => x = y
    BY <1>2, <1>4, HomesDiffer
  <2> QED BY <2>1, <2>2 DEF Injection, IsInjective
<1>6. /\ IsFiniteSet(1 .. L) /\ Cardinality(1 .. L) = L
      /\ IsFiniteSet(0 .. ChunkSize - 1) /\ Cardinality(0 .. ChunkSize - 1) = ChunkSize
      /\ IsFiniteSet(1 .. m) /\ Cardinality(1 .. m) = m
  <2>1. ASSUME NEW c \in Nat
        PROVE  /\ IsFiniteSet(1 .. c) /\ Cardinality(1 .. c) = c
               /\ IsFiniteSet(0 .. c - 1) /\ Cardinality(0 .. c - 1) = c
    <3>1. IsFiniteSet(1 .. c) /\ Cardinality(1 .. c) = IF 1 > c THEN 0 ELSE c - 1 + 1
      <4>1. 1 \in Int /\ c \in Int
        OBVIOUS
      <4> QED BY <4>1, FS_Interval
    <3>2. /\ IsFiniteSet(0 .. c - 1)
          /\ Cardinality(0 .. c - 1) = IF 0 > c - 1 THEN 0 ELSE (c - 1) - 0 + 1
      <4>1. 0 \in Int /\ c - 1 \in Int
        OBVIOUS
      <4> QED BY <4>1, FS_Interval
    <3> QED BY <3>1, <3>2
  <2> QED BY <1>1, <2>1
<1>7. IsFiniteSet(A) /\ Cardinality(A) = L * ChunkSize
  <2> DEFINE S == 1 .. L
             T == 0 .. ChunkSize - 1
  <2> HIDE DEF S, T
  <2>1. IsFiniteSet(S \X T) /\ Cardinality(S \X T) = Cardinality(S) * Cardinality(T)
    BY <1>6, FS_Product DEF S, T
  <2> QED BY <1>6, <2>1 DEF S, T
<1>8. Cardinality(A) <= Cardinality(1 .. m)
  BY <1>5, <1>6, <1>7, FS_Injection
<1> QED BY <1>6, <1>7, <1>8

\* So there are no more of them than were made.
LEMMA ChunkCount ==
  ASSUME Tls!PoolConstants, NEW c \in Nat, NEW l \in Nat, l * ChunkSize <= c * ChunkSize
  PROVE  l <= c
<1>1. ChunkSize \in Nat \ {0}
  BY TlsConstants
<1>2. \A x, y, s \in Nat : s # 0 /\ ~(x <= y) => ~(x * s <= y * s)
  <2> TAKE x, y, s \in Nat
  <2> HAVE s # 0 /\ ~(x <= y)
  <2> DEFINE d == x - y
  <2>1. d \in Nat \ {0} /\ x = y + d
    OBVIOUS
  <2> HIDE DEF d
  <2>2. x * s = y * s + d * s /\ d * s \in Nat \ {0} /\ y * s \in Nat
    BY <2>1
  <2> QED BY <2>2
<1> QED BY <1>1, <1>2

\* The types of the model.
LEMMA TypesAreTyped ==
  ASSUME Tls!PoolConstants, TlsInv
  PROVE  Tls!TypeOK
<1>1. PICK place, pos : Located(place, pos)
  BY DEF TlsInv
<1>2. Len(mChunks) \in Nat /\ made \in Nat /\ mChunkTotalCount \in Nat
  BY TlsConstants DEF TlsInv, TlsVariables
<1>3. Len(mChunks) * ChunkSize <= made
  BY <1>1, <1>2, ChunksFit DEF Located
<1>4. Len(mChunks) <= mChunkTotalCount
  BY <1>2, <1>3, ChunkCount DEF TlsInv, TlsVariables
<1> QED BY <1>4 DEF TlsInv, TlsVariables, Tls!TypeOK

\* New objects in the place k.
MadePlace(place, m, k) == [n \in 1 .. m + ChunkSize |-> IF n \in 1 .. m THEN place[n] ELSE k]
MadePos(pos, m) == [n \in 1 .. m + ChunkSize |-> IF n \in 1 .. m THEN pos[n] ELSE (n - m) - 1]

\* They are a list.
LEMMA ChainMake ==
  ASSUME Tls!PoolConstants, TlsVariables, made + ChunkSize <= Tls!MaxNodes, NEW place, NEW pos,
     NEW k,
         DOMAIN place = 1 .. made, \A n \in 1 .. made : place[n] # k
  PROVE  Chain(MadePlace(place, made, k), MadePos(pos, made), Tls!ChunkLinks(made + 1), k,
               made + ChunkSize, ChunkSize)
<1> DEFINE p2 == MadePlace(place, made, k)
           q2 == MadePos(pos, made)
           x2 == Tls!ChunkLinks(made + 1)
<1>1. /\ made \in Nat /\ ChunkSize \in Nat \ {0} /\ Tls!MaxNodes \in Nat
      /\ \A n \in 1 .. made + ChunkSize : n \notin 1 .. made <=> n \in made + 1 .. made + ChunkSize
  BY TlsConstants DEF TlsVariables
<1>2. /\ DOMAIN p2 = 1 .. made + ChunkSize
      /\ \A n \in 1 .. made : p2[n] # k
      /\ \A n \in made + 1 .. made + ChunkSize : p2[n] = k /\ q2[n] = (n - made) - 1
  BY <1>1 DEF MadePlace, MadePos
<1>3. /\ x2[made + 1] = 0
      /\ \A n \in made + 2 .. made + ChunkSize : x2[n] = n - 1
  BY <1>1 DEF Tls!ChunkLinks, Tls!Nodes, Tls!Null
<1> HIDE DEF p2, q2, x2
<1>4. \A n \in DOMAIN p2 : p2[n] = k <=> n \in made + 1 .. made + ChunkSize
  BY <1>1, <1>2
<1>5. ASSUME NEW n \in DOMAIN p2, p2[n] = k
      PROVE  /\ q2[n] \in 0 .. ChunkSize - 1
             /\ IF q2[n] = 0 THEN x2[n] = 0
                ELSE x2[n] \in DOMAIN p2 /\ p2[x2[n]] = k /\ q2[x2[n]] = q2[n] - 1
  <2>1. n \in made + 1 .. made + ChunkSize /\ q2[n] = (n - made) - 1
    BY <1>2, <1>4, <1>5
  <2>2. CASE n = made + 1
    BY <1>1, <1>3, <2>1, <2>2
  <2>3. CASE n # made + 1
    <3>1. n \in made + 2 .. made + ChunkSize /\ n - 1 \in made + 1 .. made + ChunkSize
      BY <1>1, <2>1, <2>3
    <3>2. x2[n] = n - 1 /\ n - 1 \in DOMAIN p2 /\ p2[n - 1] = k /\ q2[n - 1] = ((n - 1) - made) - 1
      BY <1>1, <1>2, <1>3, <3>1
    <3> QED BY <1>1, <2>1, <2>3, <3>2
  <2> QED BY <2>2, <2>3
<1>6. ASSUME NEW m \in DOMAIN p2, NEW n \in DOMAIN p2, p2[m] = k, p2[n] = k, q2[m] = q2[n]
      PROVE  m = n
  <2>1. /\ m \in made + 1 .. made + ChunkSize /\ n \in made + 1 .. made + ChunkSize
        /\ (m - made) - 1 = (n - made) - 1
    BY <1>2, <1>4, <1>6
  <2> QED BY <1>1, <2>1
<1>7. /\ made + ChunkSize \in DOMAIN p2 /\ p2[made + ChunkSize] = k
      /\ q2[made + ChunkSize] = ChunkSize - 1
  <2>1. made + ChunkSize \in made + 1 .. made + ChunkSize /\ made + ChunkSize \in 1 .. made + ChunkSize
    BY <1>1
  <2> QED BY <1>1, <1>2, <2>1
<1>8. Chain(p2, q2, x2, k, made + ChunkSize, ChunkSize)
  BY <1>1, <1>5, <1>6, <1>7 DEF Chain
<1> QED BY <1>8 DEF p2, q2, x2

\* The other lists are not touched by it.
LEMMA MakeElsewhere ==
  ASSUME Tls!PoolConstants, TlsVariables, made + ChunkSize <= Tls!MaxNodes, NEW place, NEW pos,
     NEW k, NEW h, h # k,
         DOMAIN place = 1 .. made
  PROVE  Untouched(place, pos, Next, MadePlace(place, made, k), MadePos(pos, made),
                   Tls!ChunkLinks(made + 1), h)
<1>1. /\ made \in Nat /\ ChunkSize \in Nat \ {0} /\ Tls!MaxNodes \in Nat
      /\ 1 .. made \subseteq 1 .. made + ChunkSize /\ 1 .. made \subseteq Tls!Nodes
  BY TlsConstants DEF TlsVariables, Tls!Nodes
<1>2. \A n \in 1 .. made : n # made + 1 /\ n \notin (made + 1) + 1 .. (made + 1) + ChunkSize - 1
  BY <1>1
<1> QED BY <1>1, <1>2 DEF Untouched, MadePlace, MadePos, Tls!ChunkLinks

\* An empty list.
LEMMA ChainEmpty ==
  ASSUME NEW place, NEW pos, NEW next, NEW k, \A n \in DOMAIN place : place[n] # k
  PROVE  Chain(place, pos, next, k, Tls!Null, 0)
BY DEF Chain, Tls!Null

\* No object is in it.
LEMMA EmptyChain ==
  ASSUME NEW place, NEW pos, NEW next, NEW k, NEW top, NEW size,
         Chain(place, pos, next, k, top, size), top = Tls!Null \/ size = 0, DOMAIN place \subseteq Nat \ {0}
  PROVE  size = 0 /\ top = Tls!Null /\ \A n \in DOMAIN place : place[n] # k
BY DEF Chain, Tls!Null

----------------------------------------------------------------------------
(* The steps *)

\* The invariant holds when nothing has been made.
LEMMA TlsInitially ==
  ASSUME Tls!PoolConstants, Tls!Init
  PROVE  TlsInv
<1> DEFINE place == [n \in 1 .. 0 |-> WithCaller]
           pos   == [n \in 1 .. 0 |-> 0]
<1>1. TlsVariables
  BY TlsConstants DEF Tls!Init, TlsVariables, Tls!Null
<1>2. 1 .. 0 = {}
  OBVIOUS
<1>3. DOMAIN place = {} /\ DOMAIN pos = {} /\ Len(mChunks) = 0 /\ made = 0
  BY <1>2 DEF Tls!Init
<1> HIDE DEF place, pos
<1>4. \A k : Chain(place, pos, Next, k, Tls!Null, 0)
  BY <1>3, ChainEmpty
<1>5. Located(place, pos)
  BY <1>2, <1>3, <1>4 DEF Located, Tls!Init
<1>6. HalfTop(place, pos)
  BY TlsConstants DEF HalfTop, Tls!Init
<1> QED BY <1>1, <1>5, <1>6 DEF TlsInv

\* Facts of the invariant that each step needs.
LEMMA TlsKnown ==
  ASSUME Tls!PoolConstants, TlsVariables, NEW place, NEW pos, Located(place, pos)
  PROVE  /\ made \in Nat /\ DOMAIN place = 1 .. made /\ DOMAIN pos = 1 .. made
         /\ 1 .. made \subseteq Tls!Nodes /\ DOMAIN Next = Tls!Nodes /\ Len(mChunks) \in Nat
         /\ 1 .. made \subseteq Nat \ {0}
         /\ \A n \in 1 .. made : place[n] # Chunk(Len(mChunks) + 1)
         /\ \A t \in Threads : mSize[t] \in Nat
<1>1. /\ Tls!MaxNodes \in Nat /\ made \in 0 .. Tls!MaxNodes /\ Len(mChunks) \in Nat
      /\ DOMAIN Next = 1 .. Tls!MaxNodes /\ mSize \in [Threads -> 0 .. Tls!MaxPerThread - 1]
      /\ DOMAIN place = 1 .. made /\ DOMAIN pos = 1 .. made
  BY TlsConstants DEF TlsVariables, Located, Tls!Nodes
<1>2. \A i \in 1 .. Len(mChunks) : i # Len(mChunks) + 1
  BY <1>1
<1>3. Chunk(Len(mChunks) + 1) \notin Homes
  BY <1>2, HomesDiffer DEF Homes
<1>4. \A n \in 1 .. made : place[n] # Chunk(Len(mChunks) + 1)
  BY <1>3 DEF Located
<1> QED BY <1>1, <1>4 DEF Tls!Nodes

\* The variables other than the places of objects.
LEMMA TlsTypesStep ==
  ASSUME Tls!PoolConstants, TlsVariables, NEW place, NEW pos, Located(place, pos), HalfTop(place,
     pos),
         NEW t \in Threads,
         \/ Tls!AllocOwn(t) \/ Tls!AllocFromManager(t) \/ Tls!ManagerIsEmpty(t) \/ Tls!AllocNewChunk(t)
         \/ Tls!CreateChunk(t) \/ Tls!PutChunk(t) \/ Tls!EndThread(t)
         \/ \E n \in Tls!Nodes : Tls!FreeOwn(t, n) \/ Tls!FreeToManager(t, n)
  PROVE  TlsVariables'
<1>1. /\ mTop \in [Threads -> Tls!Nodes \cup {Tls!Null}]
      /\ mHalfTop \in [Threads -> Tls!Nodes \cup {Tls!Null}]
      /\ mSize \in [Threads -> 0 .. Tls!MaxPerThread - 1]
      /\ Next \in [Tls!Nodes -> Tls!Nodes \cup {Tls!Null}]
      /\ mChunks \in Seq(Tls!Nodes) /\ mChunkTotalCount \in 0 .. MaxChunks
      /\ made \in 0 .. Tls!MaxNodes /\ inUse \subseteq 1 .. made /\ lost \subseteq 1 .. made
      /\ ends \in 0 .. MaxEnds
      /\ pc \in [Threads -> {"idle", "alloc", "create"}]
      /\ newChunk \in [Threads -> Tls!Nodes \cup {Tls!Null}]
      /\ \A u \in Threads : pc[u] = "alloc" => mTop[u] = Tls!Null
  BY DEF TlsVariables
<1>0. UNCHANGED <<made, mChunkTotalCount>> => made' = mChunkTotalCount' * ChunkSize
  BY DEF TlsVariables
<1>2. /\ ChunkSize \in Nat \ {0, 1} /\ MaxChunks \in Nat \ {0} /\ MaxEnds \in Nat
      /\ Tls!MaxNodes \in Nat /\ ChunkSize <= Tls!MaxNodes /\ Tls!MaxPerThread = 2 * ChunkSize
      /\ Tls!Null \notin Tls!Nodes /\ Tls!Nodes = 1 .. Tls!MaxNodes
  BY TlsConstants DEF Tls!Null, Tls!Nodes
<1>3. /\ mTop[t] # Tls!Null => mTop[t] \in 1 .. made /\ mSize[t] \in 1 .. Tls!MaxPerThread - 1
      /\ \A i \in 1 .. Len(mChunks) : mChunks[i] \in 1 .. made
  <2>1. /\ Chain(place, pos, Next, Own(t), mTop[t], mSize[t]) /\ DOMAIN place = 1 .. made
        /\ \A i \in 1 .. Len(mChunks) : Chain(place, pos, Next, Chunk(i), mChunks[i], ChunkSize)
    BY DEF Located
  <2> QED BY <1>1, <1>2, <2>1 DEF Chain, Tls!Null
<1>4. CASE Tls!AllocOwn(t)
  <2>1. /\ mTop[t] # Tls!Null /\ mTop' = [mTop EXCEPT ![t] = Next[mTop[t]]]
        /\ mSize' = [mSize EXCEPT ![t] = mSize[t] - 1] /\ inUse' = inUse \cup {mTop[t]}
        /\ pc[t] = "idle"
        /\ UNCHANGED <<mHalfTop, Next, mChunks, mChunkTotalCount, made, lost, ends, pc, newChunk>>
    BY <1>4 DEF Tls!AllocOwn, Tls!HandOut
  <2>2. mSize[t] - 1 \in 0 .. Tls!MaxPerThread - 1 /\ mTop[t] \in Tls!Nodes
    BY <1>1, <1>2, <1>3, <2>1
  <2>3. /\ mTop' \in [Threads -> Tls!Nodes \cup {Tls!Null}]
        /\ mSize' \in [Threads -> 0 .. Tls!MaxPerThread - 1]
        /\ inUse' \subseteq 1 .. made
    BY <1>1, <1>3, <2>1, <2>2
  <2>4. \A u \in Threads : pc[u] = "alloc" => mTop'[u] = Tls!Null
    BY <1>1, <2>1
  <2> QED BY <1>0, <1>1, <2>1, <2>3, <2>4 DEF TlsVariables
<1>5. CASE Tls!AllocFromManager(t)
  <2> DEFINE L == Len(mChunks)
             top == mChunks[L]
  <2>1. /\ mTop' = [mTop EXCEPT ![t] = Next[top]] /\ mChunks # <<>> /\ pc[t] = "idle"
        /\ mSize' = [mSize EXCEPT ![t] = ChunkSize - 1] /\ inUse' = inUse \cup {top}
        /\ mChunks' = SubSeq(mChunks, 1, L - 1)
        /\ UNCHANGED <<mHalfTop, Next, mChunkTotalCount, made, lost, ends, pc, newChunk>>
    BY <1>5 DEF Tls!AllocFromManager, Tls!HandOut
  <2>2. L \in 1 .. L /\ top \in 1 .. made /\ top \in Tls!Nodes
    BY <1>1, <1>3, <2>1
  <2>3. mChunks' \in Seq(Tls!Nodes)
    BY <1>1, <2>1
  <2> HIDE DEF top, L
  <2>4. Next[top] \in Tls!Nodes \cup {Tls!Null} /\ ChunkSize - 1 \in 0 .. Tls!MaxPerThread - 1
    BY <1>1, <1>2, <2>2
  <2> QED BY <1>0, <1>1, <1>2, <2>1, <2>2, <2>3, <2>4 DEF TlsVariables
<1>6. CASE Tls!ManagerIsEmpty(t)
  BY <1>0, <1>1, <1>6 DEF Tls!ManagerIsEmpty, TlsVariables
<1>7. ASSUME Tls!MakeChunk
      PROVE  /\ made + ChunkSize <= Tls!MaxNodes /\ made' = made + ChunkSize
             /\ made' = mChunkTotalCount' * ChunkSize /\ made' \in 0 .. Tls!MaxNodes
             /\ mChunkTotalCount' \in 0 .. MaxChunks
             /\ Next' = Tls!ChunkLinks(made + 1) /\ Next' \in [Tls!Nodes -> Tls!Nodes \cup {Tls!Null}]
             /\ 1 .. made \subseteq 1 .. made' /\ made' \in 1 .. made' /\ made' \in Tls!Nodes
  <2>1. /\ mChunkTotalCount < MaxChunks /\ Next' = Tls!ChunkLinks(made + 1)
        /\ made' = made + ChunkSize /\ mChunkTotalCount' = mChunkTotalCount + 1
    BY <1>7 DEF Tls!MakeChunk, Tls!TotalAfterNewChunk
  <2>2. made + ChunkSize <= Tls!MaxNodes /\ made + ChunkSize = (mChunkTotalCount + 1) * ChunkSize
    BY <2>1, RoomForChunk
  <2>3. /\ made' \in 1 .. Tls!MaxNodes /\ made' \in 1 .. made' /\ 1 .. made \subseteq 1 .. made'
        /\ mChunkTotalCount' \in 0 .. MaxChunks
    BY <1>1, <1>2, <2>1, <2>2
  <2>4. \A n \in Tls!Nodes : n \in made + 2 .. made + ChunkSize => n - 1 \in Tls!Nodes
    BY <1>1, <1>2, <2>2
  <2>5. (made + 1) + 1 = made + 2 /\ (made + 1) + ChunkSize - 1 = made + ChunkSize
    BY <1>1, <1>2
  <2>6. Tls!ChunkLinks(made + 1) \in [Tls!Nodes -> Tls!Nodes \cup {Tls!Null}]
    BY <1>1, <2>4, <2>5 DEF Tls!ChunkLinks
  <2> QED BY <1>2, <2>1, <2>2, <2>3, <2>6
<1>8. CASE Tls!AllocNewChunk(t)
  <2>1. /\ Tls!MakeChunk
        /\ mTop' = [mTop EXCEPT ![t] = Next'[made + ChunkSize]]
        /\ mSize' = [mSize EXCEPT ![t] = ChunkSize - 1] /\ inUse' = inUse \cup {made + ChunkSize}
        /\ pc' = [pc EXCEPT ![t] = "idle"]
        /\ UNCHANGED <<mHalfTop, mChunks, lost, ends, newChunk>>
    BY <1>8 DEF Tls!AllocNewChunk, Tls!HandOut
  <2>2. ChunkSize - 1 \in 0 .. Tls!MaxPerThread - 1
    BY <1>2
  <2>3. Next'[made'] \in Tls!Nodes \cup {Tls!Null}
    BY <1>7, <2>1
  <2> QED BY <1>1, <1>7, <2>1, <2>2, <2>3 DEF TlsVariables
<1>9. CASE Tls!CreateChunk(t)
  <2>1. /\ Tls!MakeChunk /\ newChunk' = [newChunk EXCEPT ![t] = made + ChunkSize]
        /\ pc' = [pc EXCEPT ![t] = "create"]
        /\ UNCHANGED <<mTop, mHalfTop, mSize, mChunks, inUse, lost, ends>>
    BY <1>9 DEF Tls!CreateChunk
  <2> QED BY <1>1, <1>7, <2>1 DEF TlsVariables
<1>10. CASE Tls!PutChunk(t)
  <2>1. /\ mChunks' = Append(mChunks, newChunk[t]) /\ pc[t] = "create"
        /\ newChunk' = [newChunk EXCEPT ![t] = Tls!Null] /\ pc' = [pc EXCEPT ![t] = "idle"]
        /\ UNCHANGED <<mTop, mHalfTop, mSize, Next, mChunkTotalCount, made, inUse, lost, ends>>
    BY <1>10 DEF Tls!PutChunk
  <2>2. newChunk[t] \in Tls!Nodes
    <3>1. Chain(place, pos, Next, Fresh(t), newChunk[t], ChunkSize) /\ DOMAIN place = 1 .. made
      BY <2>1 DEF Located
    <3> QED BY <1>1, <1>2, <3>1 DEF Chain, Tls!Null
  <2>3. mChunks' \in Seq(Tls!Nodes)
    BY <1>1, <2>1, <2>2
  <2> QED BY <1>0, <1>1, <2>1, <2>3 DEF TlsVariables
<1>11. CASE Tls!EndThread(t)
  <2>1. Tls!ListOf(t) \subseteq 1 .. made
    <3>1. \A i \in 0 .. Tls!MaxNodes : Tls!Behind(mTop[t])[i] \in 1 .. made \/ Tls!Behind(mTop[t])[i] = Tls!Null
      <4>1. Chain(place, pos, Next, Own(t), mTop[t], mSize[t]) /\ DOMAIN place = 1 .. made
            /\ DOMAIN place \subseteq Tls!Nodes
        BY TlsKnown DEF Located
      <4> QED BY <1>1, <1>2, <4>1, ChainWalk
    <3> QED BY <3>1 DEF Tls!ListOf
  <2>2. 0 \in 0 .. Tls!MaxPerThread - 1
    BY <1>2
  <2>3. /\ mTop' = [mTop EXCEPT ![t] = Tls!Null] /\ mHalfTop' = [mHalfTop EXCEPT ![t] = Tls!Null]
        /\ mSize' = [mSize EXCEPT ![t] = 0] /\ lost' = lost \cup Tls!ListOf(t)
        /\ ends' = ends + 1 /\ ends < MaxEnds
        /\ UNCHANGED <<Next, mChunks, mChunkTotalCount, made, inUse, pc, newChunk>>
    BY <1>11 DEF Tls!EndThread
  <2>4. ends' \in 0 .. MaxEnds
    BY <1>1, <1>2, <2>3
  <2> QED BY <1>0, <1>1, <2>1, <2>2, <2>3, <2>4 DEF TlsVariables
<1>12. CASE \E n \in Tls!Nodes : Tls!FreeOwn(t, n)
  <2>1. PICK n \in Tls!Nodes : Tls!FreeOwn(t, n)
    BY <1>12
  <2>2. /\ pc[t] = "idle" /\ n \in inUse /\ mSize[t] + 1 # Tls!MaxPerThread /\ inUse' = inUse \ {n}
        /\ Next' = [Next EXCEPT ![n] = mTop[t]] /\ mTop' = [mTop EXCEPT ![t] = n]
        /\ mSize' = [mSize EXCEPT ![t] = mSize[t] + 1]
        /\ mHalfTop' = [mHalfTop EXCEPT ![t] = IF Tls!IsHalf(mSize[t] + 1) THEN n ELSE mHalfTop[t]]
        /\ UNCHANGED <<mChunks, mChunkTotalCount, made, lost, ends, pc, newChunk>>
    BY <1>1, <2>1 DEF Tls!FreeOwn
  <2>3. mSize[t] + 1 \in 0 .. Tls!MaxPerThread - 1
    <3>1. mSize[t] \in 0 .. Tls!MaxPerThread - 1
      BY <1>1
    <3> QED BY <1>2, <2>2, <3>1
  <2>4. mHalfTop' \in [Threads -> Tls!Nodes \cup {Tls!Null}]
    BY <1>1, <2>2
  <2>5. \A u \in Threads : pc[u] = "alloc" => mTop'[u] = Tls!Null
    BY <1>1, <2>2
  <2> QED BY <1>0, <1>1, <2>2, <2>3, <2>4, <2>5 DEF TlsVariables
<1>13. CASE \E n \in Tls!Nodes : Tls!FreeToManager(t, n)
  <2>1. PICK n \in Tls!Nodes : Tls!FreeToManager(t, n)
    BY <1>13
  <2> DEFINE linked == [Next EXCEPT ![n] = mTop[t]]
  <2>2. /\ mSize[t] + 1 = Tls!MaxPerThread /\ pc[t] = "idle"
        /\ inUse' = inUse \ {n}
        /\ mTop' = [mTop EXCEPT ![t] = linked[mHalfTop[t]]]
        /\ Next' = [linked EXCEPT ![mHalfTop[t]] = Tls!Null]
        /\ mSize' = [mSize EXCEPT ![t] = (mSize[t] + 1) - ChunkSize]
        /\ mChunks' = Append(mChunks, n)
        /\ UNCHANGED <<mHalfTop, mChunkTotalCount, made, lost, ends, pc, newChunk>>
    BY <2>1 DEF Tls!FreeToManager, Tls!Cut, Tls!SizeAfterGiving
  <2>3. mHalfTop[t] \in Tls!Nodes
    <3>1. mSize[t] > ChunkSize
      <4>1. mSize[t] \in Nat
        BY <1>1, <1>2
      <4>2. ChunkSize \in Nat /\ ChunkSize > 1 /\ mSize[t] + 1 = 2 * ChunkSize
        BY <1>2, <2>2
      <4> QED BY <4>1, <4>2
    <3>2. mHalfTop[t] \in 1 .. made
      BY <3>1 DEF HalfTop
    <3> QED BY <1>1, <1>2, <3>2
  <2>4. linked \in [Tls!Nodes -> Tls!Nodes \cup {Tls!Null}]
    BY <1>1
  <2>5. mChunks' \in Seq(Tls!Nodes)
    BY <1>1, <2>2
  <2>6. (mSize[t] + 1) - ChunkSize \in 0 .. Tls!MaxPerThread - 1
    BY <1>2, <2>2
  <2> HIDE DEF linked
  <2> QED BY <1>0, <1>1, <2>2, <2>3, <2>4, <2>5, <2>6 DEF TlsVariables
<1> QED BY <1>4, <1>5, <1>6, <1>8, <1>9, <1>10, <1>11, <1>12, <1>13


\* A list whose place no object comes to or leaves.
LEMMA OtherListsStay ==
  ASSUME NEW place, NEW pos, NEW next, NEW place2, NEW pos2, NEW next2, NEW S,
         \A k : k \notin S => Untouched(place, pos, next, place2, pos2, next2, k)
  PROVE  \A k, top, size : k \notin S /\ Chain(place, pos, next, k, top, size) =>
                             Chain(place2, pos2, next2, k, top, size)
BY ChainStays

\* What a step needs of the lists.
LEMMA TlsLists ==
  ASSUME Tls!PoolConstants, TlsVariables, NEW place, NEW pos, Located(place, pos)
  PROVE  /\ \A u \in Threads : Chain(place, pos, Next, Own(u), mTop[u], mSize[u])
         /\ \A u \in Threads : Chain(place, pos, Next, Fresh(u), newChunk[u],
                                     IF pc[u] = "create" THEN ChunkSize ELSE 0)
         /\ \A i \in 1 .. Len(mChunks) : Chain(place, pos, Next, Chunk(i), mChunks[i], ChunkSize)
         /\ \A n \in 1 .. made : /\ place[n] \in Homes
                                 /\ n \in inUse <=> place[n] = WithCaller
                                 /\ n \in lost  <=> place[n] = Lost
         /\ mTop \in [Threads -> Tls!Nodes \cup {Tls!Null}]
         /\ mHalfTop \in [Threads -> Tls!Nodes \cup {Tls!Null}]
         /\ mSize \in [Threads -> 0 .. Tls!MaxPerThread - 1]
         /\ pc \in [Threads -> {"idle", "alloc", "create"}]
         /\ newChunk \in [Threads -> Tls!Nodes \cup {Tls!Null}]
BY DEF Located, TlsVariables

\* Alloc takes the top of the thread's list.
LEMMA AllocOwnPlaces ==
  ASSUME Tls!PoolConstants, TlsVariables, NEW place, NEW pos, Located(place, pos), HalfTop(place,
     pos),
         NEW t \in Threads, Tls!AllocOwn(t)
  PROVE  \E p2, q2 : Located(p2, q2)' /\ HalfTop(p2, q2)'
<1>1. /\ mTop[t] # Tls!Null /\ mTop' = [mTop EXCEPT ![t] = Next[mTop[t]]]
      /\ mSize' = [mSize EXCEPT ![t] = mSize[t] - 1] /\ inUse' = inUse \cup {mTop[t]}
      /\ UNCHANGED <<mHalfTop, Next, mChunks, mChunkTotalCount, made, lost, ends, pc, newChunk>>
  BY DEF Tls!AllocOwn, Tls!HandOut
<1>2. PICK p2 : p2 = [place EXCEPT ![mTop[t]] = WithCaller]
  OBVIOUS
<1>3. /\ mTop[t] \in 1 .. made /\ place[mTop[t]] = Own(t) /\ pos[mTop[t]] = mSize[t] - 1
      /\ Chain(p2, pos, Next, Own(t), Next[mTop[t]], mSize[t] - 1)
  <2>1. Chain(place, pos, Next, Own(t), mTop[t], mSize[t]) /\ DOMAIN place = 1 .. made
    BY TlsKnown, TlsLists
  <2>2. mTop[t] # 0 /\ WithCaller # Own(t)
    BY <1>1, HomesDiffer DEF Tls!Null
  <2>3. mTop[t] \in DOMAIN place /\ place[mTop[t]] = Own(t) /\ pos[mTop[t]] = mSize[t] - 1
    BY <2>1, <2>2 DEF Chain
  <2> QED BY <1>2, <2>1, <2>2, <2>3, ChainPop
<1>4. /\ DOMAIN p2 = 1 .. made /\ DOMAIN pos = 1 .. made /\ p2[mTop[t]] = WithCaller
      /\ \A n \in 1 .. made : n # mTop[t] => p2[n] = place[n]
  BY <1>2, <1>3, TlsKnown
<1>5. \A k, top, size : k \notin {Own(t), WithCaller} /\ Chain(place, pos, Next, k, top, size) =>
                          Chain(p2, pos, Next, k, top, size)
  <2>1. \A k : k \notin {Own(t), WithCaller} => Untouched(place, pos, Next, p2, pos, Next, k)
    BY <1>3, <1>4, TlsKnown DEF Untouched
  <2> QED BY <2>1, OtherListsStay
<1>6. Located(p2, pos)'
  <2>1. \A u \in Threads : Chain(p2, pos, Next', Own(u), mTop'[u], mSize'[u])
    BY <1>1, <1>3, <1>5, TlsLists, HomesDiffer
  <2>2. \A u \in Threads : Chain(p2, pos, Next', Fresh(u), newChunk'[u],
                                 IF pc'[u] = "create" THEN ChunkSize ELSE 0)
    BY <1>1, <1>5, TlsLists, HomesDiffer
  <2>3. \A i \in 1 .. Len(mChunks') : Chain(p2, pos, Next', Chunk(i), mChunks'[i], ChunkSize)
    BY <1>1, <1>5, TlsLists, HomesDiffer
  <2>4. Homes' = Homes /\ WithCaller \in Homes
    BY <1>1 DEF Homes
  <2>5. \A n \in 1 .. made' : /\ p2[n] \in Homes'
                              /\ n \in inUse' <=> p2[n] = WithCaller
                              /\ n \in lost'  <=> p2[n] = Lost
    <3>1. ASSUME NEW n \in 1 .. made
          PROVE  /\ place[n] \in Homes
                 /\ n \in inUse <=> place[n] = WithCaller
                 /\ n \in lost  <=> place[n] = Lost
      BY TlsLists
    <3>2. inUse' = inUse \cup {mTop[t]} /\ lost' = lost /\ made' = made
      BY <1>1
    <3> QED BY <1>3, <1>4, <2>4, <3>1, <3>2, HomesDiffer
  <2> QED BY <1>1, <1>4, <2>1, <2>2, <2>3, <2>5 DEF Located
<1>7. HalfTop(p2, pos)'
  <2>1. ASSUME NEW u \in Threads, mSize'[u] > ChunkSize
        PROVE  mHalfTop[u] \in 1 .. made /\ p2[mHalfTop[u]] = Own(u) /\ pos[mHalfTop[u]] = ChunkSize
    <3>1. mSize[u] > ChunkSize /\ (u = t => mSize[t] - 1 > ChunkSize)
      BY <1>1, <2>1, TlsKnown, TlsLists, TlsConstants
    <3>2. /\ mHalfTop[u] \in 1 .. made /\ place[mHalfTop[u]] = Own(u)
          /\ pos[mHalfTop[u]] = ChunkSize
      BY <3>1 DEF HalfTop
    <3>3. mHalfTop[u] # mTop[t]
      <4>1. CASE u = t
        BY <1>3, <3>1, <3>2, <4>1, TlsKnown, TlsConstants
      <4>2. CASE u # t
        BY <1>3, <3>2, <4>2, HomesDiffer
      <4> QED BY <4>1, <4>2
    <3> QED BY <1>4, <3>2, <3>3
  <2> QED BY <1>1, <2>1 DEF HalfTop
<1> QED BY <1>6, <1>7

\* A chunk of the manager becomes the thread's list, and its top is taken.
LEMMA AllocFromManagerPlaces ==
  ASSUME Tls!PoolConstants, TlsVariables, NEW place, NEW pos, Located(place, pos), HalfTop(place,
     pos),
         NEW t \in Threads, Tls!AllocFromManager(t)
  PROVE  \E p2, q2 : Located(p2, q2)' /\ HalfTop(p2, q2)'
<1> DEFINE L == Len(mChunks)
           top == mChunks[L]
<1>1. /\ mTop' = [mTop EXCEPT ![t] = Next[top]] /\ mChunks # <<>> /\ mTop[t] = Tls!Null
      /\ mSize' = [mSize EXCEPT ![t] = ChunkSize - 1] /\ inUse' = inUse \cup {top}
      /\ mChunks' = SubSeq(mChunks, 1, L - 1)
      /\ UNCHANGED <<mHalfTop, Next, mChunkTotalCount, made, lost, ends, pc, newChunk>>
  BY DEF Tls!AllocFromManager, Tls!HandOut
<1>2. /\ L \in 1 .. L /\ Len(mChunks') = L - 1
      /\ \A i \in 1 .. Len(mChunks') : i \in 1 .. L /\ i # L /\ mChunks'[i] = mChunks[i]
  <2>1. mChunks \in Seq(Tls!Nodes)
    BY DEF TlsVariables
  <2>2. L \in Nat \ {0} /\ 1 \in 1 .. L + 1 /\ L - 1 \in 1 - 1 .. L
    BY <1>1, <2>1, LengthZero
  <2>3. Len(mChunks') = (L - 1) + 1 - 1
    BY <1>1, <2>1, <2>2, PartOf
  <2>4. \A i \in 1 .. (L - 1) + 1 - 1 : mChunks'[i] = mChunks[1 - 1 + i]
    BY <1>1, <2>1, <2>2, PartOf
  <2> QED BY <2>2, <2>3, <2>4
<1>3. Chain(place, pos, Next, Chunk(L), top, ChunkSize) /\ DOMAIN place = 1 .. made
  BY <1>2, TlsKnown, TlsLists
<1>4. \A n \in 1 .. made : place[n] # Own(t)
  <2>1. Chain(place, pos, Next, Own(t), mTop[t], mSize[t]) /\ DOMAIN place \subseteq Nat \ {0}
    BY TlsKnown, TlsLists
  <2>2. mTop[t] = Tls!Null
    BY <1>1
  <2>3. \A n \in DOMAIN place : place[n] # Own(t)
    BY <2>1, <2>2, EmptyChain
  <2> QED BY <1>3, <2>3
<1> HIDE DEF top, L
<1>5. PICK p1 : p1 = Renamed(place, Chunk(L), Own(t))
  OBVIOUS
<1>6. PICK p2 : p2 = [p1 EXCEPT ![top] = WithCaller]
  OBVIOUS
<1>7. /\ top \in 1 .. made /\ place[top] = Chunk(L)
      /\ Chain(p2, pos, Next, Own(t), Next[top], ChunkSize - 1)
  <2>1. Chain(p1, pos, Next, Own(t), top, ChunkSize)
    BY <1>3, <1>4, <1>5, ChainRename
  <2>2. top # 0 /\ top \in 1 .. made /\ place[top] = Chunk(L)
    BY <1>3, TlsConstants DEF Chain
  <2>3. WithCaller # Own(t)
    BY HomesDiffer
  <2>4. Chain([p1 EXCEPT ![top] = WithCaller], pos, Next, Own(t), Next[top], ChunkSize - 1)
    BY <2>1, <2>2, <2>3, ChainPop
  <2> QED BY <1>6, <2>2, <2>4
<1>8. /\ DOMAIN p2 = 1 .. made /\ DOMAIN pos = 1 .. made /\ p2[top] = WithCaller
      /\ \A n \in 1 .. made : n # top => p2[n] = IF place[n] = Chunk(L) THEN Own(t) ELSE place[n]
  <2>1. /\ DOMAIN p1 = 1 .. made
        /\ \A n \in 1 .. made : p1[n] = IF place[n] = Chunk(L) THEN Own(t) ELSE place[n]
    BY <1>3, <1>5 DEF Renamed
  <2> QED BY <1>6, <1>7, <2>1, TlsKnown
<1>9. \A k, c, size : k \notin {Own(t), Chunk(L), WithCaller} /\ Chain(place, pos, Next, k, c, size) =>
                        Chain(p2, pos, Next, k, c, size)
  <2>1. \A k : k \notin {Own(t), Chunk(L), WithCaller} => Untouched(place, pos, Next, p2, pos, Next, k)
    BY <1>3, <1>7, <1>8, HomesDiffer DEF Untouched
  <2> QED BY <2>1, OtherListsStay
<1>10. Located(p2, pos)'
  <2>1. \A u \in Threads : Chain(p2, pos, Next', Own(u), mTop'[u], mSize'[u])
    BY <1>1, <1>7, <1>9, TlsLists, HomesDiffer
  <2>2. \A u \in Threads : Chain(p2, pos, Next', Fresh(u), newChunk'[u],
                                 IF pc'[u] = "create" THEN ChunkSize ELSE 0)
    BY <1>1, <1>9, TlsLists, HomesDiffer
  <2>3. \A i \in 1 .. Len(mChunks') : Chain(p2, pos, Next', Chunk(i), mChunks'[i], ChunkSize)
    BY <1>1, <1>2, <1>9, TlsLists, HomesDiffer DEF L
  <2>4. /\ WithCaller \in Homes' /\ Own(t) \in Homes'
        /\ \A k \in Homes : k # Chunk(L) => k \in Homes'
    <3>1. \A i \in 1 .. L : i # L => i \in 1 .. Len(mChunks')
      BY <1>2
    <3> QED BY <3>1 DEF Homes, L
  <2>5. \A n \in 1 .. made' : /\ p2[n] \in Homes'
                              /\ n \in inUse' <=> p2[n] = WithCaller
                              /\ n \in lost'  <=> p2[n] = Lost
    <3>1. ASSUME NEW n \in 1 .. made
          PROVE  /\ place[n] \in Homes
                 /\ n \in inUse <=> place[n] = WithCaller
                 /\ n \in lost  <=> place[n] = Lost
      BY TlsLists
    <3>2. inUse' = inUse \cup {top} /\ lost' = lost /\ made' = made
      BY <1>1
    <3> QED BY <1>7, <1>8, <2>4, <3>1, <3>2, HomesDiffer
  <2> QED BY <1>1, <1>8, <2>1, <2>2, <2>3, <2>5 DEF Located
<1>11. HalfTop(p2, pos)'
  <2>1. ASSUME NEW u \in Threads, mSize'[u] > ChunkSize
        PROVE  mHalfTop[u] \in 1 .. made /\ p2[mHalfTop[u]] = Own(u) /\ pos[mHalfTop[u]] = ChunkSize
    <3>1. mSize[u] > ChunkSize /\ u # t
      BY <1>1, <2>1, TlsKnown, TlsLists, TlsConstants
    <3>2. /\ mHalfTop[u] \in 1 .. made /\ place[mHalfTop[u]] = Own(u)
          /\ pos[mHalfTop[u]] = ChunkSize
      BY <3>1 DEF HalfTop
    <3> QED BY <1>7, <1>8, <3>1, <3>2, HomesDiffer
  <2> QED BY <1>1, <2>1 DEF HalfTop
<1> QED BY <1>10, <1>11

\* Nothing moves.
LEMMA ManagerIsEmptyPlaces ==
  ASSUME Tls!PoolConstants, TlsVariables, NEW place, NEW pos, Located(place, pos), HalfTop(place,
     pos),
         NEW t \in Threads, Tls!ManagerIsEmpty(t)
  PROVE  Located(place, pos)' /\ HalfTop(place, pos)'
<1>1. /\ UNCHANGED <<mTop, mHalfTop, mSize, Next, mChunks, mChunkTotalCount, made, inUse, lost, ends,
                     newChunk>>
      /\ pc' = [pc EXCEPT ![t] = "alloc"] /\ pc[t] = "idle"
  BY DEF Tls!ManagerIsEmpty
<1>2. \A u \in Threads : pc'[u] = "create" <=> pc[u] = "create"
  BY <1>1, TlsLists
<1> QED BY <1>1, <1>2 DEF Located, HalfTop, Homes

\* A chunk is made in the place k, which is empty.
LEMMA MakePlaces ==
  ASSUME Tls!PoolConstants, TlsVariables, NEW place, NEW pos, Located(place, pos), Tls!MakeChunk,
     NEW k,
         \A n \in 1 .. made : place[n] # k, NEW p2, NEW q2,
         p2 = MadePlace(place, made, k), q2 = MadePos(pos, made)
  PROVE  /\ made' = made + ChunkSize /\ DOMAIN p2 = 1 .. made' /\ DOMAIN q2 = 1 .. made'
         /\ 1 .. made \subseteq 1 .. made'
         /\ Chain(p2, q2, Next', k, made + ChunkSize, ChunkSize)
         /\ \A n \in 1 .. made : p2[n] = place[n] /\ q2[n] = pos[n]
         /\ \A n \in 1 .. made' : n \notin 1 .. made => p2[n] = k /\ n \notin inUse /\ n \notin lost
         /\ \A h, c, size : h # k /\ Chain(place, pos, Next, h, c, size) =>
                              Chain(p2, q2, Next', h, c, size)
<1>1. /\ mChunkTotalCount < MaxChunks /\ Next' = Tls!ChunkLinks(made + 1)
      /\ made' = made + ChunkSize
  BY DEF Tls!MakeChunk
<1>2. made + ChunkSize <= Tls!MaxNodes /\ DOMAIN place = 1 .. made
  BY <1>1, RoomForChunk, TlsKnown
<1>3. Chain(p2, q2, Next', k, made + ChunkSize, ChunkSize)
  BY <1>1, <1>2, ChainMake
<1>4. \A h, c, size : h # k /\ Chain(place, pos, Next, h, c, size) => Chain(p2, q2, Next', h, c, size)
  BY <1>1, <1>2, MakeElsewhere, ChainStays
<1>5. made \in Nat /\ ChunkSize \in Nat /\ 1 .. made \subseteq 1 .. made + ChunkSize
  BY TlsKnown, TlsConstants
<1>6. inUse \subseteq 1 .. made /\ lost \subseteq 1 .. made
  BY DEF TlsVariables
<1> QED BY <1>1, <1>3, <1>4, <1>5, <1>6 DEF MadePlace, MadePos

\* A new chunk becomes the thread's list, and its top is taken.
LEMMA AllocNewChunkPlaces ==
  ASSUME Tls!PoolConstants, TlsVariables, NEW place, NEW pos, Located(place, pos), HalfTop(place,
     pos),
         NEW t \in Threads, Tls!AllocNewChunk(t)
  PROVE  \E p2, q2 : Located(p2, q2)' /\ HalfTop(p2, q2)'
<1>1. /\ mTop' = [mTop EXCEPT ![t] = Next'[made + ChunkSize]] /\ mTop[t] = Tls!Null /\ Tls!MakeChunk
      /\ mSize' = [mSize EXCEPT ![t] = ChunkSize - 1] /\ inUse' = inUse \cup {made + ChunkSize}
      /\ pc' = [pc EXCEPT ![t] = "idle"] /\ pc[t] = "alloc"
      /\ UNCHANGED <<mHalfTop, mChunks, lost, ends, newChunk>>
  BY DEF Tls!AllocNewChunk, Tls!HandOut, TlsVariables
<1>2. \A n \in 1 .. made : place[n] # Own(t)
  <2>1. Chain(place, pos, Next, Own(t), mTop[t], mSize[t]) /\ DOMAIN place \subseteq Nat \ {0}
        /\ DOMAIN place = 1 .. made
    BY TlsKnown, TlsLists
  <2>2. Chain(place, pos, Next, Own(t), Tls!Null, mSize[t])
    BY <1>1, <2>1
  <2>3. \A n \in DOMAIN place : place[n] # Own(t)
    BY <2>1, <2>2, EmptyChain
  <2> QED BY <2>1, <2>3
<1>3. PICK p1, q2, top : /\ p1 = MadePlace(place, made, Own(t)) /\ q2 = MadePos(pos, made)
                         /\ top = made + ChunkSize
  OBVIOUS
<1>4. PICK p2 : p2 = [p1 EXCEPT ![top] = WithCaller]
  OBVIOUS
<1>5. /\ made' = top /\ DOMAIN p1 = 1 .. made' /\ DOMAIN q2 = 1 .. made'
      /\ 1 .. made \subseteq 1 .. made'
      /\ Chain(p1, q2, Next', Own(t), top, ChunkSize)
      /\ \A n \in 1 .. made : p1[n] = place[n] /\ q2[n] = pos[n]
      /\ \A n \in 1 .. made' : n \notin 1 .. made => p1[n] = Own(t) /\ n \notin inUse /\ n \notin lost
      /\ \A h, c, size : h # Own(t) /\ Chain(place, pos, Next, h, c, size) =>
                           Chain(p1, q2, Next', h, c, size)
  BY <1>1, <1>2, <1>3, MakePlaces
<1>6. top \in 1 .. made' /\ top \notin 1 .. made
  <2>1. made \in Nat /\ ChunkSize \in Nat \ {0}
    BY TlsKnown, TlsConstants
  <2> QED BY <1>3, <1>5, <2>1
<1>7. Chain(p2, q2, Next', Own(t), Next'[top], ChunkSize - 1)
  <2>1. WithCaller # Own(t) /\ top # 0
    BY <1>6, HomesDiffer
  <2>2. Chain([p1 EXCEPT ![top] = WithCaller], q2, Next', Own(t), Next'[top], ChunkSize - 1)
    BY <1>5, <2>1, ChainPop
  <2> QED BY <1>4, <2>2
<1>8. DOMAIN p2 = 1 .. made' /\ p2[top] = WithCaller /\ \A n \in 1 .. made' : n # top => p2[n] = p1[n]
  BY <1>4, <1>5, <1>6
<1>9. \A k, c, size : k \notin {Own(t), WithCaller} /\ Chain(place, pos, Next, k, c, size) =>
                        Chain(p2, q2, Next', k, c, size)
  <2>1. \A k : k \notin {Own(t), WithCaller} => Untouched(p1, q2, Next', p2, q2, Next', k)
    BY <1>5, <1>6, <1>8 DEF Untouched
  <2>2. \A k, c, size : k \notin {Own(t), WithCaller} /\ Chain(p1, q2, Next', k, c, size) =>
                          Chain(p2, q2, Next', k, c, size)
    BY <2>1, OtherListsStay
  <2> QED BY <1>5, <2>2
<1>10. Located(p2, q2)'
  <2>1. \A u \in Threads : Chain(p2, q2, Next', Own(u), mTop'[u], mSize'[u])
    <3> TAKE u \in Threads
    <3>1. CASE u = t
      BY <1>1, <1>3, <1>7, <3>1, TlsLists
    <3>2. CASE u # t
      BY <1>1, <1>9, <3>2, TlsLists, HomesDiffer
    <3> QED BY <3>1, <3>2
  <2>2. \A u \in Threads : Chain(p2, q2, Next', Fresh(u), newChunk'[u],
                                 IF pc'[u] = "create" THEN ChunkSize ELSE 0)
    <3>1. \A u \in Threads : pc'[u] = "create" <=> pc[u] = "create"
      BY <1>1, TlsLists
    <3> QED BY <1>1, <1>9, <3>1, TlsLists, HomesDiffer
  <2>3. \A i \in 1 .. Len(mChunks') : Chain(p2, q2, Next', Chunk(i), mChunks'[i], ChunkSize)
    BY <1>1, <1>9, TlsLists, HomesDiffer
  <2>4. Homes' = Homes /\ WithCaller \in Homes /\ Own(t) \in Homes
    BY <1>1 DEF Homes
  <2>5. \A n \in 1 .. made' : /\ p2[n] \in Homes'
                              /\ n \in inUse' <=> p2[n] = WithCaller
                              /\ n \in lost'  <=> p2[n] = Lost
    <3> TAKE n \in 1 .. made'
    <3>1. n \in 1 .. made => /\ place[n] \in Homes
                             /\ n \in inUse <=> place[n] = WithCaller
                             /\ n \in lost  <=> place[n] = Lost
      BY TlsLists
    <3>2. inUse' = inUse \cup {top} /\ lost' = lost
      BY <1>1, <1>3
    <3> QED BY <1>5, <1>6, <1>8, <2>4, <3>1, <3>2, HomesDiffer
  <2> QED BY <1>5, <1>8, <2>1, <2>2, <2>3, <2>5 DEF Located
<1>11. HalfTop(p2, q2)'
  <2>1. ASSUME NEW u \in Threads, mSize'[u] > ChunkSize
        PROVE  mHalfTop[u] \in 1 .. made' /\ p2[mHalfTop[u]] = Own(u) /\ q2[mHalfTop[u]] = ChunkSize
    <3>1. mSize[u] > ChunkSize /\ u # t
      BY <1>1, <2>1, TlsKnown, TlsLists, TlsConstants
    <3>2. /\ mHalfTop[u] \in 1 .. made /\ place[mHalfTop[u]] = Own(u)
          /\ pos[mHalfTop[u]] = ChunkSize
      BY <3>1 DEF HalfTop
    <3> QED BY <1>5, <1>6, <1>8, <3>2
  <2> QED BY <1>1, <2>1 DEF HalfTop
<1> QED BY <1>10, <1>11

\* A new chunk waits in the hands of the thread.
LEMMA CreateChunkPlaces ==
  ASSUME Tls!PoolConstants, TlsVariables, NEW place, NEW pos, Located(place, pos), HalfTop(place,
     pos),
         NEW t \in Threads, Tls!CreateChunk(t)
  PROVE  \E p2, q2 : Located(p2, q2)' /\ HalfTop(p2, q2)'
<1>1. /\ newChunk' = [newChunk EXCEPT ![t] = made + ChunkSize] /\ Tls!MakeChunk
      /\ pc' = [pc EXCEPT ![t] = "create"] /\ pc[t] = "idle"
      /\ UNCHANGED <<mTop, mHalfTop, mSize, mChunks, inUse, lost, ends>>
  BY DEF Tls!CreateChunk
<1>2. \A n \in 1 .. made : place[n] # Fresh(t)
  <2>1. Chain(place, pos, Next, Fresh(t), newChunk[t], IF pc[t] = "create" THEN ChunkSize ELSE 0)
        /\ DOMAIN place \subseteq Nat \ {0} /\ DOMAIN place = 1 .. made
    BY TlsKnown, TlsLists
  <2>2. Chain(place, pos, Next, Fresh(t), newChunk[t], 0)
    BY <1>1, <2>1
  <2>3. \A n \in DOMAIN place : place[n] # Fresh(t)
    BY <2>1, <2>2, EmptyChain
  <2> QED BY <2>1, <2>3
<1>3. PICK p2, q2 : p2 = MadePlace(place, made, Fresh(t)) /\ q2 = MadePos(pos, made)
  OBVIOUS
<1>4. /\ DOMAIN p2 = 1 .. made' /\ DOMAIN q2 = 1 .. made' /\ 1 .. made \subseteq 1 .. made'
      /\ Chain(p2, q2, Next', Fresh(t), made + ChunkSize, ChunkSize)
      /\ \A n \in 1 .. made : p2[n] = place[n] /\ q2[n] = pos[n]
      /\ \A n \in 1 .. made' : n \notin 1 .. made => p2[n] = Fresh(t) /\ n \notin inUse /\ n \notin lost
      /\ \A h, c, size : h # Fresh(t) /\ Chain(place, pos, Next, h, c, size) =>
                           Chain(p2, q2, Next', h, c, size)
  BY <1>1, <1>2, <1>3, MakePlaces
<1>5. Located(p2, q2)'
  <2>1. \A u \in Threads : Chain(p2, q2, Next', Own(u), mTop'[u], mSize'[u])
    BY <1>1, <1>4, TlsLists, HomesDiffer
  <2>2. \A u \in Threads : Chain(p2, q2, Next', Fresh(u), newChunk'[u],
                                 IF pc'[u] = "create" THEN ChunkSize ELSE 0)
    <3> TAKE u \in Threads
    <3>1. CASE u = t
      BY <1>1, <1>4, <3>1, TlsLists
    <3>2. CASE u # t
      <4>1. pc'[u] = pc[u] /\ newChunk'[u] = newChunk[u] /\ Fresh(u) # Fresh(t)
        BY <1>1, <3>2, TlsLists, HomesDiffer
      <4> QED BY <1>4, <4>1, TlsLists
    <3> QED BY <3>1, <3>2
  <2>3. \A i \in 1 .. Len(mChunks') : Chain(p2, q2, Next', Chunk(i), mChunks'[i], ChunkSize)
    BY <1>1, <1>4, TlsLists, HomesDiffer
  <2>4. Homes' = Homes /\ Fresh(t) \in Homes
    BY <1>1 DEF Homes
  <2>5. \A n \in 1 .. made' : /\ p2[n] \in Homes'
                              /\ n \in inUse' <=> p2[n] = WithCaller
                              /\ n \in lost'  <=> p2[n] = Lost
    BY <1>1, <1>4, <2>4, TlsLists, HomesDiffer
  <2> QED BY <1>4, <2>1, <2>2, <2>3, <2>5 DEF Located
<1>6. HalfTop(p2, q2)'
  BY <1>1, <1>4 DEF HalfTop
<1> QED BY <1>5, <1>6

\* It goes to the manager.
LEMMA PutChunkPlaces ==
  ASSUME Tls!PoolConstants, TlsVariables, NEW place, NEW pos, Located(place, pos), HalfTop(place,
     pos),
         NEW t \in Threads, Tls!PutChunk(t)
  PROVE  \E p2, q2 : Located(p2, q2)' /\ HalfTop(p2, q2)'
<1>1. /\ mChunks' = Append(mChunks, newChunk[t]) /\ pc[t] = "create"
      /\ newChunk' = [newChunk EXCEPT ![t] = Tls!Null] /\ pc' = [pc EXCEPT ![t] = "idle"]
      /\ UNCHANGED <<mTop, mHalfTop, mSize, Next, mChunkTotalCount, made, inUse, lost, ends>>
  BY DEF Tls!PutChunk
<1>2. PICK L : L = Len(mChunks) + 1
  OBVIOUS
<1>3. Chain(place, pos, Next, Fresh(t), newChunk[t], ChunkSize) /\ DOMAIN place = 1 .. made
      /\ \A n \in DOMAIN place : place[n] # Chunk(L)
  <2>1. Chain(place, pos, Next, Fresh(t), newChunk[t], IF pc[t] = "create" THEN ChunkSize ELSE 0)
    BY TlsLists
  <2> QED BY <1>1, <1>2, <2>1, TlsKnown
<1>4. /\ Len(mChunks') = L /\ mChunks'[L] = newChunk[t] /\ L \in 1 .. L
      /\ \A i \in 1 .. L : i # L => i \in 1 .. Len(mChunks) /\ mChunks'[i] = mChunks[i]
      /\ 1 .. Len(mChunks) \subseteq 1 .. L
  <2>1. newChunk[t] \in Tls!Nodes
    BY <1>3, TlsKnown, TlsConstants DEF Chain
  <2>2. mChunks \in Seq(Tls!Nodes)
    BY DEF TlsVariables
  <2>3. /\ Len(mChunks') = Len(mChunks) + 1 /\ mChunks'[Len(mChunks) + 1] = newChunk[t]
        /\ \A i \in 1 .. Len(mChunks) : mChunks'[i] = mChunks[i]
    BY <1>1, <2>1, <2>2, Appended
  <2> QED BY <1>2, <2>3, TlsKnown
<1>5. PICK p2 : p2 = Renamed(place, Fresh(t), Chunk(L))
  OBVIOUS
<1>6. /\ DOMAIN p2 = 1 .. made /\ DOMAIN pos = 1 .. made
      /\ \A n \in 1 .. made : p2[n] = IF place[n] = Fresh(t) THEN Chunk(L) ELSE place[n]
  BY <1>3, <1>5, TlsKnown DEF Renamed
<1>7. Chain(p2, pos, Next, Chunk(L), newChunk[t], ChunkSize)
  BY <1>3, <1>5, ChainRename
<1>8. \A k, c, size : k \notin {Fresh(t), Chunk(L)} /\ Chain(place, pos, Next, k, c, size) =>
                        Chain(p2, pos, Next, k, c, size)
  <2>1. \A k : k \notin {Fresh(t), Chunk(L)} => Untouched(place, pos, Next, p2, pos, Next, k)
    BY <1>3, <1>6 DEF Untouched
  <2> QED BY <2>1, OtherListsStay
<1>9. Located(p2, pos)'
  <2>1. \A u \in Threads : Chain(p2, pos, Next', Own(u), mTop'[u], mSize'[u])
    BY <1>1, <1>8, TlsLists, HomesDiffer
  <2>2. \A u \in Threads : Chain(p2, pos, Next', Fresh(u), newChunk'[u],
                                 IF pc'[u] = "create" THEN ChunkSize ELSE 0)
    <3> TAKE u \in Threads
    <3>1. CASE u = t
      <4>1. \A n \in DOMAIN p2 : p2[n] # Fresh(t)
        BY <1>6, HomesDiffer
      <4>2. Chain(p2, pos, Next', Fresh(t), Tls!Null, 0)
        BY <4>1, ChainEmpty
      <4> QED BY <1>1, <3>1, <4>2, TlsLists
    <3>2. CASE u # t
      <4>1. /\ pc'[u] = pc[u] /\ newChunk'[u] = newChunk[u]
            /\ Fresh(u) # Fresh(t) /\ Fresh(u) # Chunk(L)
        BY <1>1, <3>2, TlsLists, HomesDiffer
      <4> QED BY <1>1, <1>8, <4>1, TlsLists
    <3> QED BY <3>1, <3>2
  <2>3. \A i \in 1 .. Len(mChunks') : Chain(p2, pos, Next', Chunk(i), mChunks'[i], ChunkSize)
    BY <1>1, <1>4, <1>7, <1>8, TlsLists, HomesDiffer
  <2>4. Homes \subseteq Homes' /\ Chunk(L) \in Homes'
    BY <1>4 DEF Homes
  <2>5. \A n \in 1 .. made' : /\ p2[n] \in Homes'
                              /\ n \in inUse' <=> p2[n] = WithCaller
                              /\ n \in lost'  <=> p2[n] = Lost
    BY <1>1, <1>6, <2>4, TlsLists, HomesDiffer
  <2> QED BY <1>1, <1>6, <2>1, <2>2, <2>3, <2>5 DEF Located
<1>10. HalfTop(p2, pos)'
  BY <1>1, <1>6, HomesDiffer DEF HalfTop
<1> QED BY <1>9, <1>10

\* Free puts the object on top of the thread's list.
LEMMA FreeOwnPlaces ==
  ASSUME Tls!PoolConstants, TlsVariables, NEW place, NEW pos, Located(place, pos), HalfTop(place,
     pos),
         NEW t \in Threads, NEW n \in Tls!Nodes, Tls!FreeOwn(t, n)
  PROVE  \E p2, q2 : Located(p2, q2)' /\ HalfTop(p2, q2)'
<1>1. /\ n \in inUse /\ inUse' = inUse \ {n} /\ n \in 1 .. made
      /\ Next' = [Next EXCEPT ![n] = mTop[t]] /\ mTop' = [mTop EXCEPT ![t] = n]
      /\ mSize' = [mSize EXCEPT ![t] = mSize[t] + 1]
      /\ mHalfTop' = [mHalfTop EXCEPT ![t] = IF Tls!IsHalf(mSize[t] + 1) THEN n ELSE mHalfTop[t]]
      /\ UNCHANGED <<mChunks, mChunkTotalCount, made, lost, ends, pc, newChunk>>
  BY TlsLists DEF Tls!FreeOwn, TlsVariables
<1>2. PICK p2, q2 : /\ p2 = [place EXCEPT ![n] = Own(t)]
                    /\ q2 = [pos EXCEPT ![n] = mSize[t]]
  OBVIOUS
<1>3. place[n] = WithCaller
  BY <1>1, TlsLists
<1>4. Chain(p2, q2, Next', Own(t), n, mSize[t] + 1)
  <2>1. /\ Chain(place, pos, Next, Own(t), mTop[t], mSize[t]) /\ DOMAIN pos = DOMAIN place
        /\ n \in DOMAIN place /\ n \in DOMAIN Next /\ place[n] # Own(t)
    BY <1>1, <1>3, TlsKnown, TlsLists, HomesDiffer
  <2> QED BY <1>1, <1>2, <2>1, ChainPush
<1>5. /\ DOMAIN p2 = 1 .. made /\ DOMAIN q2 = 1 .. made /\ p2[n] = Own(t) /\ q2[n] = mSize[t]
      /\ \A m \in 1 .. made : m # n => p2[m] = place[m] /\ q2[m] = pos[m] /\ Next'[m] = Next[m]
  BY <1>1, <1>2, TlsKnown
<1>6. \A k, c, size : k \notin {Own(t), WithCaller} /\ Chain(place, pos, Next, k, c, size) =>
                        Chain(p2, q2, Next', k, c, size)
  <2>1. \A k : k \notin {Own(t), WithCaller} => Untouched(place, pos, Next, p2, q2, Next', k)
    BY <1>3, <1>5, TlsKnown DEF Untouched
  <2> QED BY <2>1, OtherListsStay
<1>7. Located(p2, q2)'
  <2>1. \A u \in Threads : Chain(p2, q2, Next', Own(u), mTop'[u], mSize'[u])
    BY <1>1, <1>4, <1>6, TlsLists, HomesDiffer
  <2>2. \A u \in Threads : Chain(p2, q2, Next', Fresh(u), newChunk'[u],
                                 IF pc'[u] = "create" THEN ChunkSize ELSE 0)
    BY <1>1, <1>6, TlsLists, HomesDiffer
  <2>3. \A i \in 1 .. Len(mChunks') : Chain(p2, q2, Next', Chunk(i), mChunks'[i], ChunkSize)
    BY <1>1, <1>6, TlsLists, HomesDiffer
  <2>4. Homes' = Homes /\ Own(t) \in Homes
    BY <1>1 DEF Homes
  <2>5. \A m \in 1 .. made' : /\ p2[m] \in Homes'
                              /\ m \in inUse' <=> p2[m] = WithCaller
                              /\ m \in lost'  <=> p2[m] = Lost
    <3>1. ASSUME NEW m \in 1 .. made
          PROVE  /\ place[m] \in Homes
                 /\ m \in inUse <=> place[m] = WithCaller
                 /\ m \in lost  <=> place[m] = Lost
      BY TlsLists
    <3>2. inUse' = inUse \ {n} /\ lost' = lost /\ made' = made
      BY <1>1
    <3> QED BY <1>3, <1>5, <2>4, <3>1, <3>2, HomesDiffer
  <2> QED BY <1>1, <1>5, <2>1, <2>2, <2>3, <2>5 DEF Located
<1>8. HalfTop(p2, q2)'
  <2>1. ASSUME NEW u \in Threads, mSize'[u] > ChunkSize
        PROVE  /\ mHalfTop'[u] \in 1 .. made /\ p2[mHalfTop'[u]] = Own(u)
               /\ q2[mHalfTop'[u]] = ChunkSize
    <3>1. CASE u = t /\ mSize[t] + 1 = ChunkSize + 1
      <4>1. mHalfTop'[u] = n /\ mSize[t] = ChunkSize
        BY <1>1, <3>1, TlsKnown, TlsLists, TlsConstants DEF Tls!IsHalf
      <4> QED BY <1>1, <1>5, <3>1, <4>1
    <3>2. CASE ~(u = t /\ mSize[t] + 1 = ChunkSize + 1)
      <4>1. mHalfTop'[u] = mHalfTop[u]
        BY <1>1, <3>2, TlsLists DEF Tls!IsHalf
      <4>2. mSize[u] > ChunkSize
        BY <1>1, <2>1, <3>2, TlsKnown, TlsLists, TlsConstants
      <4>3. /\ mHalfTop[u] \in 1 .. made /\ place[mHalfTop[u]] = Own(u)
            /\ pos[mHalfTop[u]] = ChunkSize
        BY <4>2 DEF HalfTop
      <4>4. mHalfTop[u] # n
        BY <1>3, <4>3, HomesDiffer
      <4> QED BY <1>5, <4>1, <4>3, <4>4
    <3> QED BY <3>1, <3>2
  <2> QED BY <1>1, <2>1 DEF HalfTop
<1> QED BY <1>7, <1>8

\* Free puts the object on top and gives what is above the lower half to the manager.
LEMMA FreeToManagerPlaces ==
  ASSUME Tls!PoolConstants, TlsVariables, NEW place, NEW pos, Located(place, pos), HalfTop(place,
     pos),
         NEW t \in Threads, NEW n \in Tls!Nodes, Tls!FreeToManager(t, n)
  PROVE  \E p2, q2 : Located(p2, q2)' /\ HalfTop(p2, q2)'
<1> DEFINE linked == [Next EXCEPT ![n] = mTop[t]]
           half == mHalfTop[t]
<1>1. /\ n \in inUse /\ inUse' = inUse \ {n} /\ n \in 1 .. made
      /\ mSize[t] + 1 = Tls!MaxPerThread
      /\ mTop' = [mTop EXCEPT ![t] = linked[half]]
      /\ Next' = [linked EXCEPT ![half] = Tls!Null]
      /\ mSize' = [mSize EXCEPT ![t] = (mSize[t] + 1) - ChunkSize]
      /\ mChunks' = Append(mChunks, n)
      /\ UNCHANGED <<mHalfTop, mChunkTotalCount, made, lost, ends, pc, newChunk>>
  BY TlsLists DEF Tls!FreeToManager, Tls!Cut, Tls!SizeAfterGiving, TlsVariables
<1>2. /\ mSize[t] + 1 = 2 * ChunkSize /\ (mSize[t] + 1) - ChunkSize = ChunkSize
      /\ mSize[t] > ChunkSize /\ ChunkSize \in 1 .. (mSize[t] + 1) - 1
  <2>1. ChunkSize \in Nat /\ ChunkSize > 1 /\ mSize[t] + 1 = 2 * ChunkSize /\ mSize[t] \in Nat
    BY <1>1, TlsConstants, TlsKnown
  <2> QED BY <2>1
<1>3. half \in 1 .. made /\ place[half] = Own(t) /\ pos[half] = ChunkSize
  BY <1>2 DEF HalfTop
<1>4. PICK p1, q1 : /\ p1 = [place EXCEPT ![n] = Own(t)]
                    /\ q1 = [pos EXCEPT ![n] = mSize[t]]
  OBVIOUS
<1>5. PICK L : L = Len(mChunks) + 1
  OBVIOUS
<1>6. PICK p2, q2 : /\ p2 = UpperPlace(p1, q1, Own(t), Chunk(L), ChunkSize)
                    /\ q2 = UpperPos(p1, q1, Own(t), ChunkSize)
  OBVIOUS
<1>7. place[n] = WithCaller /\ n # half
  BY <1>1, <1>3, TlsLists, HomesDiffer
<1>8. Chain(p1, q1, linked, Own(t), n, mSize[t] + 1)
  <2>1. /\ Chain(place, pos, Next, Own(t), mTop[t], mSize[t]) /\ DOMAIN pos = DOMAIN place
        /\ n \in DOMAIN place /\ n \in DOMAIN Next /\ place[n] # Own(t)
    BY <1>1, <1>7, TlsKnown, TlsLists, HomesDiffer
  <2> QED BY <1>4, <2>1, ChainPush
<1>9. /\ DOMAIN p1 = 1 .. made /\ DOMAIN q1 = 1 .. made /\ p1[n] = Own(t) /\ q1[n] = mSize[t]
      /\ \A m \in 1 .. made : m # n => p1[m] = place[m] /\ q1[m] = pos[m] /\ linked[m] = Next[m]
      /\ DOMAIN linked = Tls!Nodes
  BY <1>1, <1>4, TlsKnown
<1> HIDE DEF linked
<1>10. /\ p1[half] = Own(t) /\ q1[half] = ChunkSize /\ half \in DOMAIN p1 /\ half \in DOMAIN linked
  BY <1>3, <1>7, <1>9, TlsKnown
<1>11. \A m \in DOMAIN p1 : p1[m] # Chunk(L)
  BY <1>5, <1>9, TlsKnown, HomesDiffer
<1>12. /\ Chain(p2, q2, Next', Chunk(L), n, ChunkSize)
       /\ Chain(p2, q2, Next', Own(t), linked[half], ChunkSize)
  <2>1. Chunk(L) # Own(t) /\ q1[half] \in 1 .. (mSize[t] + 1) - 1
    BY <1>2, <1>10, HomesDiffer
  <2>2. LET p == UpperPlace(p1, q1, Own(t), Chunk(L), q1[half])
            q == UpperPos(p1, q1, Own(t), q1[half])
            x == [linked EXCEPT ![half] = 0]
        IN  /\ Chain(p, q, x, Chunk(L), n, (mSize[t] + 1) - q1[half])
            /\ Chain(p, q, x, Own(t), linked[half], q1[half])
    BY <1>8, <1>10, <1>11, <2>1, ChainCut
  <2>3. Next' = [linked EXCEPT ![half] = 0] /\ q1[half] = ChunkSize
    BY <1>1, <1>10 DEF Tls!Null
  <2> QED BY <1>2, <1>6, <2>2, <2>3
<1>13. /\ DOMAIN p2 = 1 .. made /\ DOMAIN q2 = 1 .. made
       /\ \A m \in 1 .. made : /\ p1[m] = Own(t)  => p2[m] \in {Own(t), Chunk(L)}
                               /\ p1[m] # Own(t) => p2[m] = p1[m] /\ q2[m] = q1[m]
  BY <1>6, <1>9 DEF UpperPlace, UpperPos
<1>14. \A k, c, size : k \notin {Own(t), WithCaller, Chunk(L)} /\ Chain(place, pos, Next, k, c, size) =>
                         Chain(p2, q2, Next', k, c, size)
  <2>1. \A m \in 1 .. made : m # n /\ m # half => Next'[m] = Next[m]
    BY <1>1, <1>9, TlsKnown
  <2>2. \A k : k \notin {Own(t), WithCaller, Chunk(L)} => Untouched(place, pos, Next, p2, q2, Next', k)
    <3> TAKE k
    <3> HAVE k \notin {Own(t), WithCaller, Chunk(L)}
    <3>1. ASSUME NEW m \in 1 .. made
          PROVE  /\ place[m] = k => p2[m] = k /\ q2[m] = pos[m] /\ Next'[m] = Next[m]
                 /\ p2[m] = k => place[m] = k
      BY <1>3, <1>7, <1>9, <1>13, <2>1
    <3> QED BY <1>13, <3>1, TlsKnown DEF Untouched
  <2> QED BY <2>2, OtherListsStay
<1>15. /\ Len(mChunks') = L /\ mChunks'[L] = n /\ L \in 1 .. L
       /\ \A i \in 1 .. L : i # L => i \in 1 .. Len(mChunks) /\ mChunks'[i] = mChunks[i]
       /\ 1 .. Len(mChunks) \subseteq 1 .. L
  <2>1. mChunks \in Seq(Tls!Nodes)
    BY DEF TlsVariables
  <2>2. /\ Len(mChunks') = Len(mChunks) + 1 /\ mChunks'[Len(mChunks) + 1] = n
        /\ \A i \in 1 .. Len(mChunks) : mChunks'[i] = mChunks[i]
    BY <1>1, <2>1, Appended
  <2> QED BY <1>5, <2>2, TlsKnown
<1>16. Located(p2, q2)'
  <2>1. \A u \in Threads : Chain(p2, q2, Next', Own(u), mTop'[u], mSize'[u])
    <3> TAKE u \in Threads
    <3>1. CASE u = t
      BY <1>1, <1>2, <1>12, <3>1, TlsLists
    <3>2. CASE u # t
      BY <1>1, <1>14, <3>2, TlsLists, HomesDiffer
    <3> QED BY <3>1, <3>2
  <2>2. \A u \in Threads : Chain(p2, q2, Next', Fresh(u), newChunk'[u],
                                 IF pc'[u] = "create" THEN ChunkSize ELSE 0)
    BY <1>1, <1>14, TlsLists, HomesDiffer
  <2>3. \A i \in 1 .. Len(mChunks') : Chain(p2, q2, Next', Chunk(i), mChunks'[i], ChunkSize)
    BY <1>12, <1>14, <1>15, TlsLists, HomesDiffer
  <2>4. Homes \subseteq Homes' /\ Chunk(L) \in Homes' /\ Own(t) \in Homes'
    BY <1>15 DEF Homes
  <2>5. \A m \in 1 .. made' : /\ p2[m] \in Homes'
                              /\ m \in inUse' <=> p2[m] = WithCaller
                              /\ m \in lost'  <=> p2[m] = Lost
    <3>1. ASSUME NEW m \in 1 .. made
          PROVE  /\ place[m] \in Homes
                 /\ m \in inUse <=> place[m] = WithCaller
                 /\ m \in lost  <=> place[m] = Lost
      BY TlsLists
    <3>2. inUse' = inUse \ {n} /\ lost' = lost /\ made' = made
      BY <1>1
    <3> QED BY <1>7, <1>9, <1>13, <2>4, <3>1, <3>2, HomesDiffer
  <2> QED BY <1>1, <1>13, <2>1, <2>2, <2>3, <2>5 DEF Located
<1>17. HalfTop(p2, q2)'
  <2>1. ASSUME NEW u \in Threads, mSize'[u] > ChunkSize
        PROVE  /\ mHalfTop[u] \in 1 .. made /\ p2[mHalfTop[u]] = Own(u)
               /\ q2[mHalfTop[u]] = ChunkSize
    <3>1. mSize[u] > ChunkSize /\ u # t
      <4>1. mSize'[u] = IF u = t THEN ChunkSize ELSE mSize[u]
        BY <1>1, <1>2, TlsLists
      <4>2. ChunkSize \in Nat
        BY TlsConstants
      <4> QED BY <2>1, <4>1, <4>2
    <3>2. /\ mHalfTop[u] \in 1 .. made /\ place[mHalfTop[u]] = Own(u)
          /\ pos[mHalfTop[u]] = ChunkSize
      BY <3>1 DEF HalfTop
    <3> QED BY <1>7, <1>9, <1>13, <3>1, <3>2, HomesDiffer
  <2> QED BY <1>1, <2>1 DEF HalfTop
<1> QED BY <1>16, <1>17

\* The list of a thread are the objects whose place it is.
LEMMA ListIs ==
  ASSUME Tls!PoolConstants, TlsVariables, NEW place, NEW pos, Located(place, pos), NEW t \in Threads
  PROVE  Tls!ListOf(t) = { n \in 1 .. made : place[n] = Own(t) }
<1>1. /\ Chain(place, pos, Next, Own(t), mTop[t], mSize[t]) /\ DOMAIN place = 1 .. made
      /\ DOMAIN place \subseteq Tls!Nodes /\ made \in Nat /\ mSize[t] \in Nat
      /\ Next \in [Tls!Nodes -> Tls!Nodes \cup {Tls!Null}] /\ Tls!MaxNodes \in Nat
  BY TlsKnown, TlsLists, TlsConstants DEF TlsVariables
<1>2. mSize[t] <= made /\ made <= Tls!MaxNodes
  BY <1>1, ChainFits DEF TlsVariables
<1>3. \A i \in 0 .. Tls!MaxNodes :
        IF i < mSize[t] THEN /\ Tls!Behind(mTop[t])[i] \in DOMAIN place
                             /\ place[Tls!Behind(mTop[t])[i]] = Own(t)
                             /\ pos[Tls!Behind(mTop[t])[i]] = (mSize[t] - 1) - i
        ELSE Tls!Behind(mTop[t])[i] = Tls!Null
  BY <1>1, ChainWalk
<1>4. Tls!ListOf(t) \subseteq { n \in 1 .. made : place[n] = Own(t) }
  BY <1>1, <1>3 DEF Tls!ListOf
<1>5. ASSUME NEW n \in 1 .. made, place[n] = Own(t)
      PROVE  n \in Tls!ListOf(t)
  <2>1. pos[n] \in 0 .. mSize[t] - 1
    BY <1>1, <1>5 DEF Chain
  <2>2. PICK i : i = (mSize[t] - 1) - pos[n]
    OBVIOUS
  <2>3. i \in 0 .. Tls!MaxNodes /\ i < mSize[t] /\ (mSize[t] - 1) - i = pos[n]
    BY <1>1, <1>2, <2>1, <2>2
  <2>4. /\ Tls!Behind(mTop[t])[i] \in DOMAIN place /\ place[Tls!Behind(mTop[t])[i]] = Own(t)
        /\ pos[Tls!Behind(mTop[t])[i]] = pos[n]
    BY <1>3, <2>3
  <2>5. Tls!Behind(mTop[t])[i] = n
    BY <1>1, <1>5, <2>4 DEF Chain
  <2> QED BY <1>1, <2>3, <2>5 DEF Tls!ListOf, Tls!Null
<1> QED BY <1>4, <1>5

\* The list of a thread that ends is lost.
LEMMA EndThreadPlaces ==
  ASSUME Tls!PoolConstants, TlsVariables, NEW place, NEW pos, Located(place, pos), HalfTop(place,
     pos),
         NEW t \in Threads, Tls!EndThread(t)
  PROVE  \E p2, q2 : Located(p2, q2)' /\ HalfTop(p2, q2)'
<1>1. /\ mTop' = [mTop EXCEPT ![t] = Tls!Null] /\ mHalfTop' = [mHalfTop EXCEPT ![t] = Tls!Null]
      /\ mSize' = [mSize EXCEPT ![t] = 0]
      /\ lost' = lost \cup { n \in 1 .. made : place[n] = Own(t) }
      /\ UNCHANGED <<Next, mChunks, mChunkTotalCount, made, inUse, pc, newChunk>>
  BY ListIs DEF Tls!EndThread
<1>2. PICK p2 : p2 = Renamed(place, Own(t), Lost)
  OBVIOUS
<1>3. /\ DOMAIN p2 = 1 .. made /\ DOMAIN pos = 1 .. made
      /\ \A n \in 1 .. made : p2[n] = IF place[n] = Own(t) THEN Lost ELSE place[n]
  BY <1>2, TlsKnown DEF Renamed
<1>4. \A k, c, size : k \notin {Own(t), Lost} /\ Chain(place, pos, Next, k, c, size) =>
                        Chain(p2, pos, Next, k, c, size)
  <2>1. \A k : k \notin {Own(t), Lost} => Untouched(place, pos, Next, p2, pos, Next, k)
    BY <1>3, TlsKnown DEF Untouched
  <2> QED BY <2>1, OtherListsStay
<1>5. Located(p2, pos)'
  <2>1. \A u \in Threads : Chain(p2, pos, Next', Own(u), mTop'[u], mSize'[u])
    <3> TAKE u \in Threads
    <3>1. CASE u = t
      <4>1. \A n \in DOMAIN p2 : p2[n] # Own(t)
        BY <1>3, HomesDiffer
      <4>2. Chain(p2, pos, Next', Own(t), Tls!Null, 0)
        BY <4>1, ChainEmpty
      <4> QED BY <1>1, <3>1, <4>2, TlsLists
    <3>2. CASE u # t
      BY <1>1, <1>4, <3>2, TlsLists, HomesDiffer
    <3> QED BY <3>1, <3>2
  <2>2. \A u \in Threads : Chain(p2, pos, Next', Fresh(u), newChunk'[u],
                                 IF pc'[u] = "create" THEN ChunkSize ELSE 0)
    BY <1>1, <1>4, TlsLists, HomesDiffer
  <2>3. \A i \in 1 .. Len(mChunks') : Chain(p2, pos, Next', Chunk(i), mChunks'[i], ChunkSize)
    BY <1>1, <1>4, TlsLists, HomesDiffer
  <2>4. Homes' = Homes /\ Lost \in Homes
    BY <1>1 DEF Homes
  <2>5. \A n \in 1 .. made' : /\ p2[n] \in Homes'
                              /\ n \in inUse' <=> p2[n] = WithCaller
                              /\ n \in lost'  <=> p2[n] = Lost
    BY <1>1, <1>3, <2>4, TlsLists, HomesDiffer
  <2> QED BY <1>1, <1>3, <2>1, <2>2, <2>3, <2>5 DEF Located
<1>6. HalfTop(p2, pos)'
  <2>1. ASSUME NEW u \in Threads, mSize'[u] > ChunkSize
        PROVE  /\ mHalfTop'[u] \in 1 .. made /\ p2[mHalfTop'[u]] = Own(u)
               /\ pos[mHalfTop'[u]] = ChunkSize
    <3>1. u # t /\ mSize[u] > ChunkSize /\ mHalfTop'[u] = mHalfTop[u]
      BY <1>1, <2>1, TlsLists, TlsConstants
    <3>2. /\ mHalfTop[u] \in 1 .. made /\ place[mHalfTop[u]] = Own(u)
          /\ pos[mHalfTop[u]] = ChunkSize
      BY <3>1 DEF HalfTop
    <3> QED BY <1>3, <3>1, <3>2, HomesDiffer
  <2> QED BY <1>1, <2>1 DEF HalfTop
<1> QED BY <1>5, <1>6

\* Every step keeps the invariant.
LEMMA TlsStep ==
  ASSUME Tls!PoolConstants, TlsInv, [Tls!NextStep]_Tls!vars
  PROVE  TlsInv'
<1>1. CASE UNCHANGED Tls!vars
  <2>1. PICK place, pos : Located(place, pos) /\ HalfTop(place, pos)
    BY DEF TlsInv
  <2>2. TlsVariables'
    BY <1>1 DEF Tls!vars, TlsInv, TlsVariables
  <2>3. Located(place, pos)' /\ HalfTop(place, pos)'
    BY <1>1, <2>1 DEF Tls!vars, Located, HalfTop, Homes
  <2> QED BY <2>2, <2>3 DEF TlsInv
<1>2. CASE Tls!NextStep
  <2>1. CASE Tls!Crashed
    BY <1>1, <2>1 DEF Tls!Crashed
  <2>2. CASE ~Tls!Crashed
    <3>1. PICK t \in Threads :
            \/ Tls!AllocOwn(t) \/ Tls!AllocFromManager(t) \/ Tls!ManagerIsEmpty(t) \/ Tls!AllocNewChunk(t)
            \/ Tls!CreateChunk(t) \/ Tls!PutChunk(t) \/ Tls!EndThread(t)
            \/ \E n \in Tls!Nodes : Tls!FreeOwn(t, n) \/ Tls!FreeToManager(t, n)
      BY <1>2, <2>2 DEF Tls!NextStep
    <3>2. PICK place, pos : Located(place, pos) /\ HalfTop(place, pos)
      BY DEF TlsInv
    <3>3. TlsVariables /\ TlsVariables'
      BY <3>1, <3>2, TlsTypesStep DEF TlsInv
    <3>4. \E p2, q2 : Located(p2, q2)' /\ HalfTop(p2, q2)'
      BY <3>1, <3>2, <3>3, AllocOwnPlaces, AllocFromManagerPlaces, ManagerIsEmptyPlaces,
         AllocNewChunkPlaces, CreateChunkPlaces, PutChunkPlaces, EndThreadPlaces, FreeOwnPlaces,
         FreeToManagerPlaces
    <3> QED BY <3>3, <3>4 DEF TlsInv
  <2> QED BY <2>1, <2>2
<1> QED BY <1>1, <1>2

----------------------------------------------------------------------------
(* What the invariant says *)

\* Where the walk down a list meets an object.
LEMMA WalkFinds ==
  ASSUME Tls!PoolConstants, TlsVariables, NEW place, NEW pos, Located(place, pos), NEW k, NEW top,
     NEW size,
         Chain(place, pos, Next, k, top, size), NEW n \in 1 .. made
  PROVE  /\ \A i \in 0 .. Tls!MaxNodes :
              Tls!Behind(top)[i] = n <=> place[n] = k /\ i = (size - 1) - pos[n]
         /\ place[n] = k => (size - 1) - pos[n] \in 0 .. Tls!MaxNodes
<1>1. /\ DOMAIN place = 1 .. made /\ DOMAIN place \subseteq Tls!Nodes /\ made \in Nat
      /\ Next \in [Tls!Nodes -> Tls!Nodes \cup {Tls!Null}] /\ Tls!MaxNodes \in Nat /\ size \in Nat
  BY TlsKnown, TlsConstants DEF TlsVariables, Chain
<1>2. size <= made /\ made <= Tls!MaxNodes
  BY <1>1, ChainFits DEF TlsVariables
<1>3. \A i \in 0 .. Tls!MaxNodes :
        IF i < size THEN /\ Tls!Behind(top)[i] \in DOMAIN place /\ place[Tls!Behind(top)[i]] = k
                         /\ pos[Tls!Behind(top)[i]] = (size - 1) - i
        ELSE Tls!Behind(top)[i] = Tls!Null
  BY <1>1, ChainWalk
<1>4. place[n] = k => pos[n] \in 0 .. size - 1
  BY <1>1 DEF Chain
<1>5. ASSUME NEW i \in 0 .. Tls!MaxNodes, Tls!Behind(top)[i] = n
      PROVE  place[n] = k /\ i = (size - 1) - pos[n]
  <2>1. n # Tls!Null
    BY DEF Tls!Null
  <2>2. i < size
    BY <1>3, <1>5, <2>1
  <2>3. place[n] = k /\ pos[n] = (size - 1) - i
    BY <1>3, <1>5, <2>2
  <2> QED BY <1>1, <2>3
<1>6. ASSUME NEW i \in 0 .. Tls!MaxNodes, place[n] = k, i = (size - 1) - pos[n]
      PROVE  Tls!Behind(top)[i] = n
  <2>1. i < size /\ (size - 1) - i = pos[n]
    BY <1>1, <1>4, <1>6
  <2>2. /\ Tls!Behind(top)[i] \in DOMAIN place /\ place[Tls!Behind(top)[i]] = k
        /\ pos[Tls!Behind(top)[i]] = pos[n]
    BY <1>3, <2>1
  <2> QED BY <1>1, <1>6, <2>2 DEF Chain
<1>7. place[n] = k => (size - 1) - pos[n] \in 0 .. Tls!MaxNodes
  BY <1>1, <1>2, <1>4
<1> QED BY <1>5, <1>6, <1>7

\* The length of a list.
LEMMA LengthIs ==
  ASSUME NEW place, NEW pos, NEW k, NEW top, NEW size,
         Chain(place, pos, Next, k, top, size), DOMAIN place \subseteq Tls!Nodes,
         Next \in [Tls!Nodes -> Tls!Nodes \cup {Tls!Null}], Tls!MaxNodes \in Nat, size <= Tls!MaxNodes
  PROVE  Tls!Length(top) = size
<1>1. size \in Nat
  BY DEF Chain
<1>2. \A i \in 0 .. Tls!MaxNodes :
        IF i < size THEN /\ Tls!Behind(top)[i] \in DOMAIN place /\ place[Tls!Behind(top)[i]] = k
                         /\ pos[Tls!Behind(top)[i]] = (size - 1) - i
        ELSE Tls!Behind(top)[i] = Tls!Null
  BY ChainWalk
<1>3. \A i \in 0 .. Tls!MaxNodes : Tls!Behind(top)[i] # Tls!Null <=> i < size
  BY <1>2 DEF Tls!Null, Tls!Nodes
<1>4. { i \in 0 .. Tls!MaxNodes : Tls!Behind(top)[i] # Tls!Null } = 0 .. size - 1
  BY <1>1, <1>3
<1>5. Cardinality(0 .. size - 1) = size
  <2>1. 0 \in Int /\ size - 1 \in Int
    BY <1>1
  <2>2. Cardinality(0 .. size - 1) = IF 0 > size - 1 THEN 0 ELSE (size - 1) - 0 + 1
    BY <2>1, FS_Interval
  <2> QED BY <1>1, <2>2
<1> QED BY <1>4, <1>5, SameCardinality DEF Tls!Length

\* Every chunk is whole.
LEMMA WholeChunks ==
  ASSUME Tls!PoolConstants, TlsInv
  PROVE  Tls!ChunksWhole
<1>1. PICK place, pos : Located(place, pos)
  BY DEF TlsInv
<1>2. TlsVariables
  BY DEF TlsInv
<1>3. DOMAIN mChunks = 1 .. Len(mChunks)
  BY <1>2 DEF TlsVariables
<1>4. DOMAIN place \subseteq Tls!Nodes /\ Next \in [Tls!Nodes -> Tls!Nodes \cup {Tls!Null}]
  <2>1. DOMAIN place = 1 .. made /\ 1 .. made \subseteq Tls!Nodes
    BY <1>1, <1>2, TlsKnown
  <2> QED BY <1>2, <2>1 DEF TlsVariables
<1>5. \A i \in 1 .. Len(mChunks) : Chain(place, pos, Next, Chunk(i), mChunks[i], ChunkSize)
  BY <1>1, <1>2, TlsLists
<1>6. Tls!MaxNodes \in Nat /\ ChunkSize <= Tls!MaxNodes
  BY TlsConstants
<1>7. \A i \in 1 .. Len(mChunks) : Tls!Length(mChunks[i]) = ChunkSize
  BY <1>4, <1>5, <1>6, LengthIs
<1> QED BY <1>3, <1>7 DEF Tls!ChunksWhole

\* Every object is in one place.
LEMMA OnePlace ==
  ASSUME Tls!PoolConstants, TlsInv
  PROVE  Tls!ObjectsConserved
<1>1. PICK place, pos : Located(place, pos)
  BY DEF TlsInv
<1>2. TlsVariables
  BY DEF TlsInv
<1>3. DOMAIN mChunks = 1 .. Len(mChunks)
  BY <1>2 DEF TlsVariables
<1>4. ASSUME NEW n \in 1 .. made
      PROVE  \E w : Tls!Places(n) = {w}
  <2> DEFINE In   == { <<"in use", 0, 0>> : x \in {n} \cap inUse }
             Gone == { <<"lost", 0, 0>> : x \in {n} \cap lost }
             Q1   == { q \in Threads \X (0 .. Tls!MaxNodes) : Tls!Behind(mTop[q[1]])[q[2]] = n }
             Q2   == { q \in Threads \X (0 .. Tls!MaxNodes) : Tls!Behind(newChunk[q[1]])[q[2]] = n }
             Q3   == { q \in (DOMAIN mChunks) \X (0 .. Tls!MaxNodes) : Tls!Behind(mChunks[q[1]])[q[2]] = n }
             O    == { <<"thread", p[1], p[2]>> : p \in Q1 }
             M    == { <<"made", p[1], p[2]>> : p \in Q2 }
             C    == { <<"manager", p[1], p[2]>> : p \in Q3 }
             s(u) == IF pc[u] = "create" THEN ChunkSize ELSE 0
  <2>1. Tls!Places(n) = ((((In \cup Gone) \cup O) \cup M) \cup C)
    BY DEF Tls!Places
  <2>2. /\ place[n] \in Homes
        /\ n \in inUse <=> place[n] = WithCaller
        /\ n \in lost <=> place[n] = Lost
    BY <1>1, <1>2, TlsLists
  <2>3. /\ place[n] # WithCaller => In = {}
        /\ place[n] # Lost => Gone = {}
        /\ place[n] = WithCaller => In = {<<"in use", 0, 0>>}
        /\ place[n] = Lost => Gone = {<<"lost", 0, 0>>}
    BY <2>2
  <2>4. \A u \in Threads :
          /\ \A i \in 0 .. Tls!MaxNodes :
               Tls!Behind(mTop[u])[i] = n <=> place[n] = Own(u) /\ i = (mSize[u] - 1) - pos[n]
          /\ place[n] = Own(u) => (mSize[u] - 1) - pos[n] \in 0 .. Tls!MaxNodes
    BY <1>1, <1>2, TlsLists, WalkFinds
  <2>5. \A u \in Threads :
          /\ \A i \in 0 .. Tls!MaxNodes :
               Tls!Behind(newChunk[u])[i] = n <=> place[n] = Fresh(u) /\ i = (s(u) - 1) - pos[n]
          /\ place[n] = Fresh(u) => (s(u) - 1) - pos[n] \in 0 .. Tls!MaxNodes
    BY <1>1, <1>2, TlsLists, WalkFinds
  <2>6. \A j \in 1 .. Len(mChunks) :
          /\ \A i \in 0 .. Tls!MaxNodes :
               Tls!Behind(mChunks[j])[i] = n <=> place[n] = Chunk(j) /\ i = (ChunkSize - 1) - pos[n]
          /\ place[n] = Chunk(j) => (ChunkSize - 1) - pos[n] \in 0 .. Tls!MaxNodes
    BY <1>1, <1>2, TlsLists, WalkFinds
  <2> HIDE DEF s
  <2>7. (\A u \in Threads : place[n] # Own(u)) => O = {}
    <3> HAVE \A u \in Threads : place[n] # Own(u)
    <3>1. Q1 = {}
      BY <2>4
    <3> HIDE DEF Q1
    <3> QED BY <3>1
  <2>8. (\A u \in Threads : place[n] # Fresh(u)) => M = {}
    <3> HAVE \A u \in Threads : place[n] # Fresh(u)
    <3>1. Q2 = {}
      BY <2>5
    <3> HIDE DEF Q2
    <3> QED BY <3>1
  <2>9. (\A j \in 1 .. Len(mChunks) : place[n] # Chunk(j)) => C = {}
    <3> HAVE \A j \in 1 .. Len(mChunks) : place[n] # Chunk(j)
    <3>1. Q3 = {}
      BY <1>3, <2>6
    <3> HIDE DEF Q3
    <3> QED BY <3>1
  <2>10. CASE place[n] = WithCaller \/ place[n] = Lost
    <3>1. O = {} /\ M = {} /\ C = {}
      BY <2>7, <2>8, <2>9, <2>10, HomesDiffer
    <3>2. In \cup Gone = {<<"in use", 0, 0>>} \/ In \cup Gone = {<<"lost", 0, 0>>}
      <4> HIDE DEF In, Gone
      <4>1. CASE place[n] = WithCaller
        <5>1. place[n] # Lost
          BY <4>1, HomesDiffer
        <5> QED BY <2>3, <4>1, <5>1
      <4>2. CASE place[n] = Lost
        <5>1. place[n] # WithCaller
          BY <4>2, HomesDiffer
        <5> QED BY <2>3, <4>2, <5>1
      <4> QED BY <2>10, <4>1, <4>2
    <3> HIDE DEF In, Gone, O, M, C
    <3> QED BY <2>1, <3>1, <3>2
  <2>11. CASE \E u \in Threads : place[n] = Own(u)
    <3>1. PICK u \in Threads : place[n] = Own(u)
      BY <2>11
    <3>2. In = {} /\ Gone = {} /\ M = {} /\ C = {}
      BY <2>3, <2>8, <2>9, <3>1, HomesDiffer
    <3>3. PICK i : i = (mSize[u] - 1) - pos[n]
      OBVIOUS
    <3>4. Q1 = {<<u, i>>}
      <4>1. \A v \in Threads : place[n] = Own(v) <=> v = u
        BY <3>1, HomesDiffer
      <4>2. \A v \in Threads, j \in 0 .. Tls!MaxNodes : Tls!Behind(mTop[v])[j] = n <=> v = u /\ j = i
        BY <2>4, <3>3, <4>1
      <4>3. i \in 0 .. Tls!MaxNodes
        BY <2>4, <3>1, <3>3
      <4> QED BY <4>2, <4>3
    <3>5. O = {<<"thread", u, i>>}
      <4> HIDE DEF Q1
      <4> QED BY <3>4
    <3> HIDE DEF In, Gone, O, M, C
    <3> QED BY <2>1, <3>2, <3>5
  <2>12. CASE \E u \in Threads : place[n] = Fresh(u)
    <3>1. PICK u \in Threads : place[n] = Fresh(u)
      BY <2>12
    <3>2. In = {} /\ Gone = {} /\ O = {} /\ C = {}
      BY <2>3, <2>7, <2>9, <3>1, HomesDiffer
    <3>3. PICK i : i = (s(u) - 1) - pos[n]
      OBVIOUS
    <3>4. Q2 = {<<u, i>>}
      <4>1. \A v \in Threads : place[n] = Fresh(v) <=> v = u
        BY <3>1, HomesDiffer
      <4>2. \A v \in Threads, j \in 0 .. Tls!MaxNodes : Tls!Behind(newChunk[v])[j] = n <=> v = u /\ j = i
        BY <2>5, <3>3, <4>1
      <4>3. i \in 0 .. Tls!MaxNodes
        BY <2>5, <3>1, <3>3
      <4> QED BY <4>2, <4>3
    <3>5. M = {<<"made", u, i>>}
      <4> HIDE DEF Q2
      <4> QED BY <3>4
    <3> HIDE DEF In, Gone, O, M, C
    <3> QED BY <2>1, <3>2, <3>5
  <2>13. CASE \E j \in 1 .. Len(mChunks) : place[n] = Chunk(j)
    <3>1. PICK u \in 1 .. Len(mChunks) : place[n] = Chunk(u)
      BY <2>13
    <3>2. In = {} /\ Gone = {} /\ O = {} /\ M = {}
      BY <2>3, <2>7, <2>8, <3>1, HomesDiffer
    <3>3. PICK i : i = (ChunkSize - 1) - pos[n]
      OBVIOUS
    <3>4. Q3 = {<<u, i>>}
      <4>1. \A v \in 1 .. Len(mChunks) : place[n] = Chunk(v) <=> v = u
        BY <3>1, HomesDiffer
      <4>2. \A v \in DOMAIN mChunks, j \in 0 .. Tls!MaxNodes : Tls!Behind(mChunks[v])[j] = n <=> v = u /\ j = i
        BY <1>3, <2>6, <3>3, <4>1
      <4>3. i \in 0 .. Tls!MaxNodes /\ u \in DOMAIN mChunks
        BY <1>3, <2>6, <3>1, <3>3
      <4> QED BY <4>2, <4>3
    <3>5. C = {<<"manager", u, i>>}
      <4> HIDE DEF Q3
      <4> QED BY <3>4
    <3> HIDE DEF In, Gone, O, M, C
    <3> QED BY <2>1, <3>2, <3>5
  <2> QED BY <2>2, <2>10, <2>11, <2>12, <2>13 DEF Homes
<1>5. \A w : Cardinality({w}) = 1
  BY FS_Singleton
<1> QED BY <1>4, <1>5, SameCardinality DEF Tls!ObjectsConserved

----------------------------------------------------------------------------
(* The theorems *)

\* Every object has one place, every list its length, and mHalfTop of a list above one chunk
\* is the top of its lower half, however the threads allocate, free and end.
THEOREM TlsInvariant == ASSUME Tls!PoolConstants PROVE Tls!Spec => []TlsInv
<1>1. Tls!Init => TlsInv
  BY TlsInitially
<1>2. TlsInv /\ [Tls!NextStep]_Tls!vars => TlsInv'
  BY TlsStep
<1> QED BY <1>1, <1>2, PTL DEF Tls!Spec

\* The variables keep their types: a thread never keeps two whole chunks, and the manager never
\* has more chunks than mChunkTotalCount.
THEOREM TlsTypes == ASSUME Tls!PoolConstants PROVE Tls!Spec => []Tls!TypeOK
<1>1. TlsInv => Tls!TypeOK
  BY TypesAreTyped
<1> QED BY <1>1, TlsInvariant, PTL

\* AllocChunk hands a thread OBJECT_COUNT_PER_CHUNK objects without counting them: each chunk
\* that Free or PreCreateChunk has given to the manager has as many.
THEOREM TlsChunksWhole == ASSUME Tls!PoolConstants PROVE Tls!Spec => []Tls!ChunksWhole
<1>1. TlsInv => Tls!ChunksWhole
  BY WholeChunks
<1> QED BY <1>1, TlsInvariant, PTL

\* Alloc never hands out an object twice and Free loses none: each object made is with a
\* caller, in one list, once, or went with a thread that ended.
THEOREM TlsObjectsConserved == ASSUME Tls!PoolConstants PROVE Tls!Spec => []Tls!ObjectsConserved
<1>1. TlsInv => Tls!ObjectsConserved
  BY OnePlace
<1> QED BY <1>1, TlsInvariant, PTL
=============================================================================
