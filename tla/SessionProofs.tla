--------------------------- MODULE SessionProofs ---------------------------
(***************************************************************************)
(* Proof that SessionInv is an invariant of the session protocol for every *)
(* number of keys, threads, packets, accepts and calls, and with it the    *)
(* safety of using a session without a lock.                               *)
(*                                                                         *)
(* Then OrderInv, and what follows from the two: one sender at a time, one  *)
(* owner of each key, the handlers of an ID in order, and that the protocol *)
(* implements SessionService.  Last, that a released session is frozen and  *)
(* that no packet is leaked or freed early.                                *)
(***************************************************************************)
EXTENDS SessionOrder, ProofLemmas, SequenceTheorems

----------------------------------------------------------------------------
(* Counting references *)

\* Everything that can hold a reference to a session.
AllHolders == (Threads \X {1, 2}) \cup {<<"recv", 1>>, <<"send", 1>>}

\* A session has finitely many holders, however many threads there are.
LEMMA HoldersFinite ==
  ASSUME NEW S, S \subseteq AllHolders
  PROVE  IsFiniteSet(S) /\ Cardinality(S) \in Nat
<1>1. IsFiniteSet(Threads)
  BY ThreadsAssumption, FS_Singleton, FS_Union DEF Threads
<1>2. IsFiniteSet({1, 2})
  <2>1. {1, 2} = 1 .. 2
    OBVIOUS
  <2>2. IsFiniteSet(1 .. 2)
    BY 1 \in Int, 2 \in Int, FS_Interval, Zenon
  <2>3. QED
    BY <2>1, <2>2, Zenon
<1>3. IsFiniteSet(Threads \X {1, 2})
  BY <1>1, <1>2, FS_Product
<1>4. IsFiniteSet({<<"recv", 1>>, <<"send", 1>>})
  <2>1. {<<"recv", 1>>, <<"send", 1>>} = {<<"recv", 1>>} \cup {<<"send", 1>>}
    OBVIOUS
  <2>2. IsFiniteSet({<<"recv", 1>>} \cup {<<"send", 1>>})
    BY FS_Singleton, FS_AddElement, Zenon
  <2>3. QED
    BY <2>1, <2>2, Zenon
<1>5. IsFiniteSet(AllHolders)
  BY <1>3, <1>4, FS_Union DEF AllHolders
<1>6. QED
  BY <1>5, FS_Subset, FS_CardinalityType

LEMMA HoldersAreHolders ==
  ASSUME NEW k
  PROVE  Holders(k) \subseteq AllHolders /\ Holders(k)' \subseteq AllHolders
  BY DEF Holders, AllHolders

\* Nobody takes or gives back a reference.
LEMMA SameHolders ==
  ASSUME CountIsHolders, ioCount' = ioCount,
         \A k \in Keys : Holders(k)' = Holders(k)
  PROVE  CountIsHolders'
  BY DEF CountIsHolders

\* One reference is taken and counted.
LEMMA OneMore ==
  ASSUME TypeOK, CountIsHolders, NEW k \in Keys, NEW h, h \notin Holders(k),
         Holders(k)' = Holders(k) \cup {h},
         \A j \in Keys \ {k} : Holders(j)' = Holders(j),
         ioCount' = [ioCount EXCEPT ![k] = @ + 1]
  PROVE  CountIsHolders'
<1>1. Cardinality(Holders(k) \cup {h}) = Cardinality(Holders(k)) + 1
  BY HoldersFinite, HoldersAreHolders, FS_AddElement
<1>2. ioCount[k]' = ioCount[k] + 1 /\ \A j \in Keys \ {k} : ioCount[j]' = ioCount[j]
  BY DEF TypeOK
<1>3. QED
  BY <1>1, <1>2 DEF CountIsHolders

\* One reference is given back.
LEMMA OneLess ==
  ASSUME TypeOK, CountIsHolders, NEW k \in Keys, NEW h, h \in Holders(k),
         Holders(k)' = Holders(k) \ {h},
         \A j \in Keys \ {k} : Holders(j)' = Holders(j),
         ioCount' = [ioCount EXCEPT ![k] = @ - 1]
  PROVE  CountIsHolders'
<1>1. Cardinality(Holders(k) \ {h}) = Cardinality(Holders(k)) - 1
  BY HoldersFinite, HoldersAreHolders, FS_RemoveElement
<1>2. ioCount[k]' = ioCount[k] - 1 /\ \A j \in Keys \ {k} : ioCount[j]' = ioCount[j]
  BY DEF TypeOK
<1>3. QED
  BY <1>1, <1>2 DEF CountIsHolders

\* A reference changes hands: a completed I/O gives its own to a worker.
LEMMA HandedOver ==
  ASSUME CountIsHolders, NEW k \in Keys, NEW g, NEW h, g \in Holders(k), h \notin Holders(k),
         Holders(k)' = (Holders(k) \ {g}) \cup {h},
         \A j \in Keys \ {k} : Holders(j)' = Holders(j),
         ioCount' = ioCount
  PROVE  CountIsHolders'
<1>1. /\ IsFiniteSet(Holders(k) \ {g})
      /\ Cardinality(Holders(k) \ {g}) = Cardinality(Holders(k)) - 1
  BY HoldersFinite, HoldersAreHolders, FS_RemoveElement
<1>2. Cardinality((Holders(k) \ {g}) \cup {h}) = Cardinality(Holders(k))
  BY <1>1, HoldersFinite, HoldersAreHolders, FS_AddElement
<1>3. QED
  BY <1>2 DEF CountIsHolders

\* A session somebody holds has a positive count.
LEMMA HeldIsCounted ==
  ASSUME CountIsHolders, NEW k \in Keys, NEW h, h \in Holders(k)
  PROVE  ioCount[k] \in Nat /\ ioCount[k] >= 1
<1>1. Cardinality(Holders(k)) # 0
  BY HoldersFinite, HoldersAreHolders, FS_EmptySet
<1>2. QED
  BY <1>1, HoldersFinite, HoldersAreHolders DEF CountIsHolders

\* A count of one means one holder.
LEMMA OneHolder ==
  ASSUME CountIsHolders, NEW k \in Keys, ioCount[k] = 1, NEW h, h \in Holders(k)
  PROVE  Holders(k) = {h}
<1>1. \E x : Holders(k) = {x}
  BY HoldersFinite, HoldersAreHolders, FS_Singleton DEF CountIsHolders
<1>2. QED
  BY <1>1

\* A thread that finds a count of one is the only holder.
LEMMA SoleHolder ==
  ASSUME TypeOK, CountIsHolders, NEW t \in Threads, ses[t] \in Keys, refs[t] \in {1, 2},
         ioCount[ses[t]] = 1
  PROVE  /\ refs[t] = 1
         /\ \A u \in Threads \ {t} : ses[u] = ses[t] => refs[u] = 0
         /\ recvIo[ses[t]] = "none" /\ sendIo[ses[t]] = "none"
<1>1. <<t, 1>> \in Holders(ses[t])
  BY DEF Holders
<1>2. Holders(ses[t]) = {<<t, 1>>}
  BY <1>1, OneHolder
<1>3. refs[t] = 1
  <2>1. refs[t] = 2 => <<t, 2>> \in Holders(ses[t])
    BY DEF Holders
  <2>2. <<t, 2>> # <<t, 1>>
    OBVIOUS
  <2>3. QED
    BY <1>2, <2>1, <2>2
<1>4. ASSUME NEW u \in Threads \ {t}, ses[u] = ses[t]
      PROVE  refs[u] = 0
  <2>1. refs[u] >= 1 => <<u, 1>> \in Holders(ses[t])
    BY <1>4 DEF Holders
  <2>2. <<u, 1>> # <<t, 1>>
    OBVIOUS
  <2>3. refs[u] \in 0 .. 2
    BY DEF TypeOK
  <2>4. QED
    BY <1>2, <2>1, <2>2, <2>3
<1>5. t # "recv" /\ t # "send"
  BY ThreadsAssumption DEF Threads
<1>6. recvIo[ses[t]] = "none"
  <2>1. recvIo[ses[t]] # "none" => <<"recv", 1>> \in Holders(ses[t])
    BY DEF Holders
  <2>2. QED
    BY <1>2, <1>5, <2>1
<1>7. sendIo[ses[t]] = "none"
  <2>1. sendIo[ses[t]] # "none" => <<"send", 1>> \in Holders(ses[t])
    BY DEF Holders
  <2>2. QED
    BY <1>2, <1>5, <2>1
<1>8. QED
  BY <1>3, <1>4, <1>6, <1>7

\* A thread takes a reference to its session.
LEMMA TakeReference ==
  ASSUME TypeOK, CountIsHolders, NEW t \in Threads, ses[t] \in Keys, refs[t] \in {0, 1},
         refs' = [refs EXCEPT ![t] = @ + 1],
         ioCount' = [ioCount EXCEPT ![ses[t]] = @ + 1],
         ses' = ses, recvIo' = recvIo, sendIo' = sendIo
  PROVE  CountIsHolders'
<1> DEFINE h == <<t, refs[t] + 1>>
<1>1. h \notin Holders(ses[t])
  BY ThreadsAssumption DEF Holders, TypeOK, Threads
<1>2. Holders(ses[t])' = Holders(ses[t]) \cup {h}
  BY DEF Holders, TypeOK
<1>3. \A j \in Keys \ {ses[t]} : Holders(j)' = Holders(j)
  BY DEF Holders, TypeOK
<1>4. QED
  BY <1>1, <1>2, <1>3, OneMore

\* A thread gives back a reference.
LEMMA GiveReference ==
  ASSUME TypeOK, CountIsHolders, NEW t \in Threads, ses[t] \in Keys, refs[t] \in {1, 2},
         refs' = [refs EXCEPT ![t] = @ - 1],
         ioCount' = [ioCount EXCEPT ![ses[t]] = @ - 1],
         ses' = ses, recvIo' = recvIo, sendIo' = sendIo
  PROVE  CountIsHolders'
<1> DEFINE h == <<t, refs[t]>>
<1>1. h \in Holders(ses[t])
  BY DEF Holders, TypeOK
<1>2. Holders(ses[t])' = Holders(ses[t]) \ {h}
  BY ThreadsAssumption DEF Holders, TypeOK, Threads
<1>3. \A j \in Keys \ {ses[t]} : Holders(j)' = Holders(j)
  BY DEF Holders, TypeOK
<1>4. QED
  BY <1>1, <1>2, <1>3, OneLess

\* Threads without references may change their session, I/O may complete.
LEMMA KeepReferences ==
  ASSUME CountIsHolders, ioCount' = ioCount, refs' = refs,
         \A t \in Threads : refs[t] = 0 \/ ses[t]' = ses[t],
         \A t \in Threads : refs[t] \in 0 .. 2,
         \A k \in Keys : recvIo[k] # "none" <=> recvIo[k]' # "none",
         \A k \in Keys : sendIo[k] # "none" <=> sendIo[k]' # "none"
  PROVE  CountIsHolders'
<1>1. \A k \in Keys : Holders(k)' = Holders(k)
  BY DEF Holders
<1>2. QED
  BY <1>1, SameHolders

\* An I/O is posted where none was outstanding.
LEMMA PostIo ==
  ASSUME TypeOK, CountIsHolders, NEW k \in Keys, NEW r \in {"pending", "ok"},
         ioCount' = [ioCount EXCEPT ![k] = @ + 1], ses' = ses, refs' = refs,
         \/ recvIo[k] = "none" /\ recvIo' = [recvIo EXCEPT ![k] = r] /\ sendIo' = sendIo
         \/ sendIo[k] = "none" /\ sendIo' = [sendIo EXCEPT ![k] = r] /\ recvIo' = recvIo
  PROVE  CountIsHolders'
<1>1. ASSUME recvIo[k] = "none", recvIo' = [recvIo EXCEPT ![k] = r], sendIo' = sendIo
      PROVE  CountIsHolders'
  <2> DEFINE h == <<"recv", 1>>
  <2>1. h \notin Holders(k)
    BY <1>1, ThreadsAssumption DEF Holders, Threads
  <2>2. Holders(k)' = Holders(k) \cup {h}
    BY <1>1 DEF Holders, TypeOK
  <2>3. \A j \in Keys \ {k} : Holders(j)' = Holders(j)
    BY <1>1 DEF Holders, TypeOK
  <2>4. QED
    BY <2>1, <2>2, <2>3, OneMore
<1>2. ASSUME sendIo[k] = "none", sendIo' = [sendIo EXCEPT ![k] = r], recvIo' = recvIo
      PROVE  CountIsHolders'
  <2> DEFINE h == <<"send", 1>>
  <2>1. h \notin Holders(k)
    BY <1>2, ThreadsAssumption DEF Holders, Threads
  <2>2. Holders(k)' = Holders(k) \cup {h}
    BY <1>2 DEF Holders, TypeOK
  <2>3. \A j \in Keys \ {k} : Holders(j)' = Holders(j)
    BY <1>2 DEF Holders, TypeOK
  <2>4. QED
    BY <2>1, <2>2, <2>3, OneMore
<1>3. QED
  BY <1>1, <1>2

\* An idle worker takes over the reference of a completed I/O.
LEMMA TakeOver ==
  ASSUME TypeOK, CountIsHolders, NEW k \in Keys, NEW w \in Threads, refs[w] = 0,
         ioCount' = ioCount, ses' = [ses EXCEPT ![w] = k], refs' = [refs EXCEPT ![w] = 1],
         \/ recvIo[k] # "none" /\ recvIo' = [recvIo EXCEPT ![k] = "none"] /\ sendIo' = sendIo
         \/ sendIo[k] # "none" /\ sendIo' = [sendIo EXCEPT ![k] = "none"] /\ recvIo' = recvIo
  PROVE  CountIsHolders'
<1> DEFINE h == <<w, 1>>
<1>1. h \notin Holders(k)
  BY ThreadsAssumption DEF Holders, Threads, TypeOK
<1>2. ASSUME recvIo[k] # "none", recvIo' = [recvIo EXCEPT ![k] = "none"], sendIo' = sendIo
      PROVE  CountIsHolders'
  <2> DEFINE g == <<"recv", 1>>
  <2>1. g \in Holders(k)
    BY <1>2 DEF Holders
  <2>2. Holders(k)' = (Holders(k) \ {g}) \cup {h}
    BY <1>2, ThreadsAssumption DEF Holders, TypeOK, Threads
  <2>3. \A j \in Keys \ {k} : Holders(j)' = Holders(j)
    BY <1>2 DEF Holders, TypeOK
  <2>4. QED
    BY <1>1, <2>1, <2>2, <2>3, HandedOver
<1>3. ASSUME sendIo[k] # "none", sendIo' = [sendIo EXCEPT ![k] = "none"], recvIo' = recvIo
      PROVE  CountIsHolders'
  <2> DEFINE g == <<"send", 1>>
  <2>1. g \in Holders(k)
    BY <1>3 DEF Holders
  <2>2. Holders(k)' = (Holders(k) \ {g}) \cup {h}
    BY <1>3, ThreadsAssumption DEF Holders, TypeOK, Threads
  <2>3. \A j \in Keys \ {k} : Holders(j)' = Holders(j)
    BY <1>3 DEF Holders, TypeOK
  <2>4. QED
    BY <1>1, <2>1, <2>2, <2>3, HandedOver
<1>4. QED
  BY <1>2, <1>3

----------------------------------------------------------------------------
(* Packets *)

\* A batch is a prefix of the queue.
LEMMA SendBatchType ==
  ASSUME NEW queue \in Seq(Packets)
  PROVE  SendBatch(queue) \in 0 .. Len(queue)
  BY BoundsAssumption, LenProperties DEF SendBatch

\* Releasing a sequence of packets leaves every reference count a number.
LEMMA ReleasePacketsType ==
  ASSUME refCount \in [Packets -> Int], NEW seq \in Seq(Packets)
  PROVE  ReleasePackets(seq) \in [Packets -> Int]
<1>1. ASSUME NEW p \in Packets
      PROVE  Cardinality({i \in DOMAIN seq : seq[i] = p}) \in Int
  <2>1. Len(seq) \in Nat /\ DOMAIN seq = 1 .. Len(seq)
    BY LenProperties
  <2>2. IsFiniteSet(1 .. Len(seq))
    BY <2>1, FS_Interval
  <2>3. {i \in DOMAIN seq : seq[i] = p} \in SUBSET (1 .. Len(seq))
    BY <2>1
  <2>4. QED
    BY <2>2, <2>3, FS_Subset, FS_CardinalityType
<1>2. QED
  BY <1>1 DEF ReleasePackets

----------------------------------------------------------------------------
(* Every action preserves the invariant *)

\* The accept thread takes an unused key: nobody else owns it, no reference changes.
LEMMA AcceptPopInv ==
  ASSUME SessionInv, NEW k \in Keys, AcceptPop(k)
  PROVE  SessionInv'
<1> USE DEF SessionInv, Goto, At, AcceptPop, NewID, IDs,
            vars, countVars, stateVars, sendVars, kernelVars, serverVars, noticeVars, localVars
<1>1. TypeOK' /\ NoCrash'
  <2>1. unusedKeys' \in SUBSET Keys
    BY DEF TypeOK
  <2>2. acceptedCount' \in Nat
    BY DEF TypeOK
  <2>3. ses' \in [Threads -> Keys \cup {NoKey}]
    BY DEF TypeOK
  <2>4. arg' \in [Threads -> IDs \cup {NoID}]
    <3>1. NewID(k) \in IDs
      BY BoundsAssumption DEF TypeOK
    <3>2. QED
      BY <3>1 DEF TypeOK
  <2>5. pc' \in [Threads -> Labels]
    BY DEF TypeOK, Labels
  <2>6. QED
    BY <2>1, <2>2, <2>3, <2>4, <2>5 DEF TypeOK, NoCrash
<1>2. RefsByLabel' /\ Roles'
  <2>1. NewID(k) \in IDs /\ NewID(k)[1] = k
    BY BoundsAssumption DEF TypeOK
  <2>2. RefsByLabel'
    BY ThreadsAssumption DEF TypeOK, RefsByLabel, HoldingLabels, Using, SetupLabels, CheckLabels,
           Threads
  <2>3. Roles'
    BY <2>1, ThreadsAssumption DEF TypeOK, Roles, SetupLabels, CheckLabels, Threads
  <2>4. QED
    BY <2>2, <2>3
<1>3. CountIsHolders'
  BY KeepReferences DEF TypeOK, RefsByLabel, Labels, IoStates, HoldingLabels, Using, SetupLabels,
         CheckLabels
<1>4. FlagMeansReleased' /\ DisconnectedMeansClosed'
  BY DEF TypeOK, FlagMeansReleased, DisconnectedMeansClosed, Labels, IoStates, HoldingLabels,
         Using, SetupLabels, CheckLabels, ReleaseLabels, Setup
<1>5. IdIsKnown' /\ IdMatches'
  BY DEF TypeOK, IdIsKnown, IdMatches, Labels, IoStates, Setup, Using
<1>6. OneOwner'
  BY DEF TypeOK, OneOwner, Labels, IoStates, ReleaseLabels, SetupLabels
<1>7. RecvOwned' /\ SendOwned'
  BY DEF RecvOwned, SendOwned, RecvLabels, SendLabels
<1>8. QED
  BY <1>1, <1>2, <1>3, <1>4, <1>5, <1>6, <1>7

\* The accept thread takes its reference to the key it popped.
LEMMA AcceptIncrementInv ==
  ASSUME SessionInv, AcceptIncrement
  PROVE  SessionInv'
<1> USE DEF SessionInv, Goto, At, AcceptIncrement,
            vars, countVars, stateVars, sendVars, kernelVars, serverVars, noticeVars, localVars
<1>1. TypeOK' /\ NoCrash'
  <2>1. ioCount' \in [Keys -> Nat]
    BY ThreadsAssumption DEF TypeOK, Threads, RefsByLabel, HoldingLabels, Using, SetupLabels,
           CheckLabels, Roles
  <2>2. refs' \in [Threads -> 0 .. 2]
    <3>1. Acceptor \in Threads /\ pc[Acceptor] = "pop"
      BY DEF Threads
    <3>2. refs[Acceptor] = 0
      BY <3>1 DEF RefsByLabel, HoldingLabels, Using, SetupLabels, CheckLabels
    <3>3. QED
      BY <3>1, <3>2 DEF TypeOK
  <2>3. pc' \in [Threads -> Labels]
    BY DEF TypeOK, Labels
  <2>4. QED
    BY <2>1, <2>2, <2>3 DEF TypeOK, NoCrash
<1>2. RefsByLabel' /\ Roles'
  BY DEF TypeOK, RefsByLabel, Roles, Labels, IoStates, HoldingLabels, Using, SetupLabels,
         CheckLabels
<1>3. CountIsHolders'
  BY TakeReference, ThreadsAssumption DEF TypeOK, RefsByLabel, Roles, Labels, IoStates,
         HoldingLabels, Using, SetupLabels, CheckLabels, Threads
<1>4. FlagMeansReleased' /\ DisconnectedMeansClosed'
  BY DEF FlagMeansReleased, DisconnectedMeansClosed, HoldingLabels, Using, SetupLabels,
         CheckLabels, ReleaseLabels, Setup
<1>5. IdIsKnown' /\ IdMatches'
  BY DEF IdIsKnown, IdMatches, Setup, Using
<1>6. OneOwner'
  BY DEF OneOwner, ReleaseLabels, SetupLabels
<1>7. RecvOwned' /\ SendOwned'
  BY DEF RecvOwned, SendOwned, RecvLabels, SendLabels
<1>8. QED
  BY <1>1, <1>2, <1>3, <1>4, <1>5, <1>6, <1>7

\* Clearing the Release Flag is safe: the key's release has ended, nobody is inside.
LEMMA InitClearFlagInv ==
  ASSUME SessionInv, InitClearFlag
  PROVE  SessionInv'
<1> USE DEF SessionInv, Goto, At, InitClearFlag,
            vars, countVars, stateVars, sendVars, kernelVars, serverVars, noticeVars, localVars
<1>1. TypeOK' /\ NoCrash'
  BY DEF TypeOK, NoCrash, Labels, IoStates
<1>2. RefsByLabel' /\ Roles'
  BY DEF RefsByLabel, Roles, HoldingLabels, Using, SetupLabels, CheckLabels
<1>3. CountIsHolders'
  BY KeepReferences DEF TypeOK, Labels, IoStates
<1>4. FlagMeansReleased' /\ DisconnectedMeansClosed'
  <2>1. Acceptor \in Threads /\ pc[Acceptor] = "init_and" /\ ses[Acceptor] \in Keys
    BY DEF Threads, Roles
  <2>2. \A u \in Threads : u # Acceptor /\ ses[u] = ses[Acceptor] => pc[u] \notin ReleaseLabels
    BY <2>1 DEF OneOwner
  <2>3. FlagMeansReleased'
    BY <2>1, <2>2 DEF TypeOK, Roles, FlagMeansReleased, HoldingLabels, Using, SetupLabels,
           CheckLabels, ReleaseLabels
  <2>4. DisconnectedMeansClosed'
    BY <2>1 DEF TypeOK, Roles, SetupLabels, DisconnectedMeansClosed, Using, Setup
  <2>5. QED
    BY <2>3, <2>4
<1>5. IdIsKnown' /\ IdMatches'
  <2>1. IdIsKnown'
    BY ThreadsAssumption DEF TypeOK, IdIsKnown, OneOwner, SetupLabels, ReleaseLabels, Setup,
           Threads
  <2>2. IdMatches'
    BY DEF TypeOK, IdMatches, Using
  <2>3. QED
    BY <2>1, <2>2
<1>6. OneOwner'
  BY DEF OneOwner, ReleaseLabels, SetupLabels
<1>7. RecvOwned' /\ SendOwned'
  BY DEF RecvOwned, SendOwned, RecvLabels, SendLabels
<1>8. QED
  BY <1>1, <1>2, <1>3, <1>4, <1>5, <1>6, <1>7

\* The new ID is written while bDisconnected keeps every API caller out.
LEMMA InitIdInv ==
  ASSUME SessionInv, InitId
  PROVE  SessionInv'
<1> USE DEF SessionInv, Goto, At, InitId,
            vars, countVars, stateVars, sendVars, kernelVars, serverVars, noticeVars, localVars
<1>1. TypeOK' /\ NoCrash'
  BY ThreadsAssumption DEF TypeOK, Roles, NoCrash, Labels, IoStates, SetupLabels, CheckLabels,
         Threads
<1>2. RefsByLabel' /\ Roles'
  BY DEF RefsByLabel, Roles, HoldingLabels, Using, SetupLabels, CheckLabels
<1>3. CountIsHolders'
  BY KeepReferences DEF TypeOK, Labels, IoStates
<1>4. FlagMeansReleased' /\ DisconnectedMeansClosed'
  BY DEF FlagMeansReleased, DisconnectedMeansClosed, HoldingLabels, Using, SetupLabels,
         CheckLabels, ReleaseLabels, Setup
<1>5. IdIsKnown' /\ IdMatches'
  <2>1. ses[Acceptor] \in Keys /\ arg[Acceptor] \in IDs /\ arg[Acceptor] # NoID
    BY NoIDAssumption, ThreadsAssumption DEF Roles, SetupLabels, Threads
  <2>2. ses[Acceptor] \notin unusedKeys
    BY ThreadsAssumption DEF OneOwner, SetupLabels, Threads
  <2>3. IdIsKnown'
    BY <2>1, <2>2 DEF TypeOK, IdIsKnown, Setup
  <2>4. bDisconnected[ses[Acceptor]]
    BY <2>1 DEF DisconnectedMeansClosed, Setup
  <2>5. IdMatches'
    BY <2>1, <2>4, ThreadsAssumption DEF TypeOK, Roles, SetupLabels, IdMatches,
           DisconnectedMeansClosed, Using, Threads
  <2>6. QED
    BY <2>3, <2>5
<1>6. OneOwner'
  BY DEF OneOwner, ReleaseLabels, SetupLabels
<1>7. RecvOwned' /\ SendOwned'
  BY DEF RecvOwned, SendOwned, RecvLabels, SendLabels
<1>8. QED
  BY <1>1, <1>2, <1>3, <1>4, <1>5, <1>6, <1>7

\* bDisconnected falls: from here on a caller with this ID may come in.
LEMMA InitConnectedInv ==
  ASSUME SessionInv, InitConnected
  PROVE  SessionInv'
<1> USE DEF SessionInv, Goto, At, InitConnected,
            vars, countVars, stateVars, sendVars, kernelVars, serverVars, noticeVars, localVars
<1>1. TypeOK' /\ NoCrash'
  BY DEF TypeOK, NoCrash, Labels, IoStates
<1>2. RefsByLabel' /\ Roles'
  BY DEF RefsByLabel, Roles, HoldingLabels, Using, SetupLabels, CheckLabels
<1>3. CountIsHolders'
  BY KeepReferences DEF TypeOK, Labels, IoStates
<1>4. FlagMeansReleased' /\ DisconnectedMeansClosed'
  <2>1. FlagMeansReleased'
    BY DEF TypeOK, FlagMeansReleased, HoldingLabels, Using, SetupLabels, CheckLabels,
           ReleaseLabels
  <2>2. DisconnectedMeansClosed'
    BY ThreadsAssumption DEF TypeOK, Roles, DisconnectedMeansClosed, OneOwner, Using, Setup,
           SetupLabels, ReleaseLabels, Threads
  <2>3. QED
    BY <2>1, <2>2
<1>5. IdIsKnown' /\ IdMatches'
  BY DEF IdIsKnown, IdMatches, Setup, Using
<1>6. OneOwner'
  BY DEF OneOwner, ReleaseLabels, SetupLabels
<1>7. RecvOwned' /\ SendOwned'
  BY ThreadsAssumption DEF TypeOK, RefsByLabel, Roles, FlagMeansReleased, DisconnectedMeansClosed,
         RecvOwned, SendOwned, Labels, IoStates, HoldingLabels, Using, SetupLabels, CheckLabels,
         ReleaseLabels, Setup, RecvLabels, SendLabels, Threads
<1>8. QED
  BY <1>1, <1>2, <1>3, <1>4, <1>5, <1>6, <1>7

\* The queues of the last connection are emptied; the accept thread now owns the receive side.
LEMMA InitBuffersInv ==
  ASSUME SessionInv, InitBuffers
  PROVE  SessionInv'
<1> USE DEF SessionInv, Goto, At, InitBuffers,
            vars, countVars, stateVars, sendVars, kernelVars, serverVars, noticeVars, localVars
<1>1. TypeOK' /\ NoCrash'
  <2>1. bDisconnectRegistered' \in [Keys -> BOOLEAN]
    BY DEF TypeOK
  <2>2. refCount' \in [Packets -> Int]
    BY ReleasePacketsType, ConcatProperties DEF TypeOK, Roles, SetupLabels, Threads
  <2>3. sendQueue' \in [Keys -> Seq(Packets)]
    BY ThreadsAssumption DEF TypeOK, Threads, RefsByLabel, HoldingLabels, Using, SetupLabels,
           CheckLabels, Roles
  <2>4. registered' \in [Keys -> Seq(Packets)]
    BY ThreadsAssumption DEF TypeOK, Threads, RefsByLabel, HoldingLabels, Using, SetupLabels,
           CheckLabels, Roles
  <2>5. pc' \in [Threads -> Labels]
    BY DEF TypeOK, Labels
  <2>6. QED
    BY <2>1, <2>2, <2>3, <2>4, <2>5 DEF TypeOK, NoCrash
<1>2. RefsByLabel' /\ Roles'
  BY DEF RefsByLabel, Roles, HoldingLabels, Using, SetupLabels, CheckLabels
<1>3. CountIsHolders'
  BY KeepReferences DEF TypeOK, Labels, IoStates
<1>4. FlagMeansReleased' /\ DisconnectedMeansClosed'
  BY DEF FlagMeansReleased, DisconnectedMeansClosed, HoldingLabels, Using, SetupLabels,
         CheckLabels, ReleaseLabels, Setup
<1>5. IdIsKnown' /\ IdMatches'
  BY DEF IdIsKnown, IdMatches, Setup, Using
<1>6. OneOwner'
  BY DEF OneOwner, ReleaseLabels, SetupLabels
<1>7. RecvOwned' /\ SendOwned'
  BY DEF RecvOwned, SendOwned, RecvLabels, SendLabels
<1>8. QED
  BY <1>1, <1>2, <1>3, <1>4, <1>5, <1>6, <1>7

\* The ID becomes public, and its session has one.
LEMMA OnAcceptInv ==
  ASSUME SessionInv, OnAccept
  PROVE  SessionInv'
<1> USE DEF SessionInv, Goto, At, OnAccept,
            vars, countVars, stateVars, sendVars, kernelVars, serverVars, noticeVars, localVars
<1>1. TypeOK' /\ NoCrash'
  <2>1. sessionCount' \in Int
    BY DEF TypeOK
  <2>2. issued' \in SUBSET IDs
    <3>1. Acceptor \in Threads /\ pc[Acceptor] = "on_accept"
      BY DEF Threads
    <3>2. ses[Acceptor] \in Keys /\ ID[ses[Acceptor]] # NoID
      BY <3>1 DEF Roles, IdIsKnown
    <3>3. ID[ses[Acceptor]] \in IDs
      BY <3>2 DEF TypeOK
    <3>4. QED
      BY <3>3 DEF TypeOK
  <2>3. pc' \in [Threads -> Labels]
    BY DEF TypeOK, Labels
  <2>4. QED
    BY <2>1, <2>2, <2>3 DEF TypeOK, NoCrash
<1>2. RefsByLabel' /\ Roles'
  BY DEF RefsByLabel, Roles, HoldingLabels, Using, SetupLabels, CheckLabels
<1>3. CountIsHolders'
  BY KeepReferences DEF TypeOK, Labels, IoStates
<1>4. FlagMeansReleased' /\ DisconnectedMeansClosed'
  BY DEF FlagMeansReleased, DisconnectedMeansClosed, HoldingLabels, Using, SetupLabels,
         CheckLabels, ReleaseLabels, Setup
<1>5. IdIsKnown' /\ IdMatches'
  <2>1. ID[ses[Acceptor]] = arg[Acceptor] /\ arg[Acceptor][1] = ses[Acceptor]
    BY ThreadsAssumption DEF IdMatches, Roles, SetupLabels, Threads
  <2>2. ID[ses[Acceptor]] # NoID
    BY ThreadsAssumption DEF IdIsKnown, Threads
  <2>3. IdIsKnown'
    BY <2>1, <2>2 DEF TypeOK, IdIsKnown, Setup
  <2>4. IdMatches'
    BY DEF TypeOK, IdMatches, Using
  <2>5. QED
    BY <2>3, <2>4
<1>6. OneOwner'
  BY DEF OneOwner, ReleaseLabels, SetupLabels
<1>7. RecvOwned' /\ SendOwned'
  BY DEF RecvOwned, SendOwned, RecvLabels, SendLabels
<1>8. QED
  BY <1>1, <1>2, <1>3, <1>4, <1>5, <1>6, <1>7

\* A call starts on an ID that was issued; nothing is held yet.
LEMMA CallInv ==
  ASSUME SessionInv, NEW t \in AppThreads, NEW o \in Ops, NEW id \in issued, NEW p \in Packets \cup {NoPacket}, Call(t, o, id, p)
  PROVE  SessionInv'
<1> USE DEF SessionInv, Goto, At, Call, IDs,
            vars, countVars, stateVars, sendVars, kernelVars, serverVars, noticeVars, localVars
<1>1. TypeOK' /\ NoCrash'
  <2>1. calls' \in Nat
    BY DEF TypeOK
  <2>2. ses' \in [Threads -> Keys \cup {NoKey}]
    BY DEF TypeOK
  <2>3. arg' \in [Threads -> IDs \cup {NoID}]
    BY DEF TypeOK
  <2>4. op' \in [Threads -> Ops \cup {"none"}]
    BY DEF TypeOK
  <2>5. pkt' \in [Threads -> Packets \cup {NoPacket}]
    BY DEF TypeOK
  <2>6. refCount' \in [Packets -> Int]
    BY DEF TypeOK
  <2>7. pc' \in [Threads -> Labels]
    BY DEF TypeOK, Labels
  <2>8. QED
    BY <2>1, <2>2, <2>3, <2>4, <2>5, <2>6, <2>7 DEF TypeOK, NoCrash
<1>2. RefsByLabel' /\ Roles'
  BY DEF TypeOK, RefsByLabel, Roles, Labels, IoStates, HoldingLabels, Using, SetupLabels,
         CheckLabels
<1>3. CountIsHolders'
  BY KeepReferences DEF TypeOK, RefsByLabel, Labels, IoStates, HoldingLabels, Using, SetupLabels,
         CheckLabels
<1>4. FlagMeansReleased' /\ DisconnectedMeansClosed'
  <2>1. FlagMeansReleased'
    BY DEF FlagMeansReleased, HoldingLabels, Using, SetupLabels, CheckLabels, ReleaseLabels
  <2>2. DisconnectedMeansClosed'
    BY DEF DisconnectedMeansClosed, Using, Setup
  <2>3. QED
    BY <2>1, <2>2
<1>5. IdIsKnown' /\ IdMatches'
  <2>1. IdIsKnown'
    BY DEF TypeOK, IdIsKnown, Setup
  <2>2. IdMatches'
    BY DEF TypeOK, IdMatches, Using
  <2>3. QED
    BY <2>1, <2>2
<1>6. OneOwner'
  BY DEF OneOwner, ReleaseLabels, SetupLabels
<1>7. RecvOwned' /\ SendOwned'
  BY DEF RecvOwned, SendOwned, RecvLabels, SendLabels
<1>8. QED
  BY <1>1, <1>2, <1>3, <1>4, <1>5, <1>6, <1>7

\* A caller counts itself in, and goes on only if the Release Flag was clear.
LEMMA IncrementInv ==
  ASSUME SessionInv, NEW t \in Threads, Increment(t)
  PROVE  SessionInv'
<1> USE DEF SessionInv, Goto, At, Increment, IsReleased,
            vars, countVars, stateVars, sendVars, kernelVars, serverVars, noticeVars, localVars
<1>1. TypeOK' /\ NoCrash'
  <2>1. ioCount' \in [Keys -> Nat]
    BY ThreadsAssumption DEF TypeOK, Threads, RefsByLabel, HoldingLabels, Using, SetupLabels,
           CheckLabels, Roles
  <2>2. refs' \in [Threads -> 0 .. 2]
    <3>1. refs[t] = 0
      BY ThreadsAssumption DEF RefsByLabel, HoldingLabels, Using, SetupLabels, CheckLabels, Threads
    <3>2. QED
      BY <3>1 DEF TypeOK
  <2>3. pc' \in [Threads -> Labels]
    BY DEF TypeOK, Labels
  <2>4. QED
    BY <2>1, <2>2, <2>3 DEF TypeOK, NoCrash
<1>2. RefsByLabel' /\ Roles'
  BY DEF TypeOK, RefsByLabel, Roles, Labels, IoStates, HoldingLabels, Using, SetupLabels,
         CheckLabels
<1>3. CountIsHolders'
  BY TakeReference, ThreadsAssumption DEF TypeOK, RefsByLabel, Roles, Labels, IoStates,
         HoldingLabels, Using, SetupLabels, CheckLabels, Threads
<1>4. FlagMeansReleased' /\ DisconnectedMeansClosed'
  BY DEF FlagMeansReleased, DisconnectedMeansClosed, HoldingLabels, Using, SetupLabels,
         CheckLabels, ReleaseLabels, Setup
<1>5. IdIsKnown' /\ IdMatches'
  BY DEF IdIsKnown, IdMatches, Setup, Using
<1>6. OneOwner'
  BY DEF OneOwner, ReleaseLabels, SetupLabels
<1>7. RecvOwned' /\ SendOwned'
  BY DEF RecvOwned, SendOwned, RecvLabels, SendLabels
<1>8. QED
  BY <1>1, <1>2, <1>3, <1>4, <1>5, <1>6, <1>7

\* A check that fails leaves with the reference; one that passes keeps what it has read true,
\* because the reference stops the release.
LEMMA CheckInv ==
  ASSUME SessionInv, NEW t \in Threads, Check(t)
  PROVE  SessionInv'
<1> USE DEF SessionInv, Goto, At, Check, CheckFails, AfterChecks, Jump,
            vars, countVars, stateVars, sendVars, kernelVars, serverVars, noticeVars, localVars
<1>0. t \in AppThreads /\ t # Acceptor
  BY ThreadsAssumption DEF Roles, CheckLabels
<1>1. TypeOK' /\ NoCrash'
  BY DEF TypeOK, NoCrash, Labels, IoStates
<1>2. RefsByLabel' /\ Roles'
  <2>2. t \in AppThreads /\ op[t] \in {"send", "disconnect", "sad", "addr"}
    BY OpsAssumption DEF Roles, CheckLabels
  <2>3. PICK l \in {"dec_cas", "chk_reg", "chk_id", "enqueue", "read_addr", "set_reg"} :
          /\ pc' = [pc EXCEPT ![t] = l]
          /\ l = "enqueue" => op[t] = "send"
          /\ l = "set_reg" => op[t] \in {"disconnect", "sad"}
    BY <2>2
  <2>4. pc[t] \in CheckLabels /\ UNCHANGED <<ses, arg, op, pkt, refs>>
    BY DEF CheckLabels
  <2> HIDE DEF Check
  <2>5. ASSUME NEW u \in Threads, u # t PROVE pc'[u] = pc[u]
    BY <2>3, <2>5 DEF TypeOK
  <2>6. pc'[t] = l
    BY <2>3 DEF TypeOK
  <2>1. RefsByLabel'
    BY <2>3, <2>4, <2>5, <2>6 DEF RefsByLabel, HoldingLabels, Using, SetupLabels, CheckLabels
  <2>7. Roles'
    <3> SUFFICES ASSUME NEW u \in Threads PROVE Roles!(u)'
      BY DEF Roles
    <3>1. CASE u = t
      BY <3>1, <2>2, <2>3, <2>4, <2>6, <1>0 DEF Roles, SetupLabels, CheckLabels
    <3>2. CASE u # t
      BY <3>2, <2>4, <2>5 DEF Roles
    <3>3. QED
      BY <3>1, <3>2
  <2>8. QED
    BY <2>1, <2>7
<1>3. CountIsHolders'
  BY KeepReferences DEF TypeOK, Labels, IoStates
<1>4. FlagMeansReleased'
  <2>1. CASE At(t, "chk_disc")
    BY <2>1, <1>0
       DEF TypeOK, FlagMeansReleased, HoldingLabels, Using, SetupLabels, CheckLabels, ReleaseLabels
  <2>2. CASE At(t, "chk_reg")
    BY <2>2, <1>0
       DEF TypeOK, FlagMeansReleased, HoldingLabels, Using, SetupLabels, CheckLabels, ReleaseLabels
  <2>3. CASE At(t, "chk_id")
    BY <2>3, <1>0
       DEF TypeOK, FlagMeansReleased, HoldingLabels, Using, SetupLabels, CheckLabels, ReleaseLabels
  <2>4. QED
    BY <2>1, <2>2, <2>3
<1>5. DisconnectedMeansClosed'
  <2>1. CASE At(t, "chk_disc")
    BY <2>1, <1>0
       DEF TypeOK, DisconnectedMeansClosed, Using, CheckLabels, Setup
  <2>2. CASE At(t, "chk_reg")
    BY <2>2, <1>0
       DEF TypeOK, DisconnectedMeansClosed, Using, CheckLabels, Setup
  <2>3. CASE At(t, "chk_id")
    BY <2>3, <1>0
       DEF TypeOK, DisconnectedMeansClosed, Using, CheckLabels, Setup
  <2>4. QED
    BY <2>1, <2>2, <2>3
<1>9. IdIsKnown'
  <2>1. CASE At(t, "chk_disc")
    BY <2>1, <1>0
       DEF TypeOK, IdIsKnown, Setup
  <2>2. CASE At(t, "chk_reg")
    BY <2>2, <1>0
       DEF TypeOK, IdIsKnown, Setup
  <2>3. CASE At(t, "chk_id")
    BY <2>3, <1>0
       DEF TypeOK, IdIsKnown, Setup
  <2>4. QED
    BY <2>1, <2>2, <2>3
<1>10. IdMatches'
  <2>1. CASE At(t, "chk_disc")
    BY <2>1, <1>0
       DEF TypeOK, IdMatches, Using
  <2>2. CASE At(t, "chk_reg")
    BY <2>2, <1>0
       DEF TypeOK, IdMatches, Using
  <2>3. CASE At(t, "chk_id")
    BY <2>3, <1>0
       DEF TypeOK, IdMatches, Using
  <2>4. QED
    BY <2>1, <2>2, <2>3
<1>6. OneOwner'
  <2>1. CASE At(t, "chk_disc")
    BY <2>1 DEF TypeOK, OneOwner, ReleaseLabels, SetupLabels
  <2>2. CASE At(t, "chk_reg")
    BY <2>2 DEF TypeOK, OneOwner, ReleaseLabels, SetupLabels
  <2>3. CASE At(t, "chk_id")
    BY <2>3 DEF TypeOK, OneOwner, ReleaseLabels, SetupLabels
  <2>4. QED
    BY <2>1, <2>2, <2>3
<1>7. RecvOwned' /\ SendOwned'
  <2>1. CASE At(t, "chk_disc")
    BY <2>1 DEF TypeOK, RecvOwned, SendOwned, RecvLabels, SendLabels
  <2>2. CASE At(t, "chk_reg")
    BY <2>2 DEF TypeOK, RecvOwned, SendOwned, RecvLabels, SendLabels
  <2>3. CASE At(t, "chk_id")
    BY <2>3 DEF TypeOK, RecvOwned, SendOwned, RecvLabels, SendLabels
  <2>4. QED
    BY <2>1, <2>2, <2>3
<1>8. QED
  BY <1>1, <1>2, <1>3, <1>4, <1>5, <1>6, <1>7, <1>9, <1>10

\* Reading the address keeps the reference.
LEMMA ReadAddressInv ==
  ASSUME SessionInv, NEW t \in Threads, ReadAddress(t)
  PROVE  SessionInv'
<1> USE DEF SessionInv, Goto, At, ReadAddress, Jump,
            vars, countVars, stateVars, sendVars, kernelVars, serverVars, noticeVars, localVars
<1>1. TypeOK' /\ NoCrash'
  BY DEF TypeOK, NoCrash, Labels, IoStates
<1>2. RefsByLabel' /\ Roles'
  BY DEF RefsByLabel, Roles, HoldingLabels, Using, SetupLabels, CheckLabels
<1>3. CountIsHolders'
  BY KeepReferences DEF TypeOK, Labels, IoStates
<1>4. FlagMeansReleased' /\ DisconnectedMeansClosed'
  BY DEF FlagMeansReleased, DisconnectedMeansClosed, HoldingLabels, Using, SetupLabels,
         CheckLabels, ReleaseLabels, Setup
<1>5. IdIsKnown' /\ IdMatches'
  BY DEF IdIsKnown, IdMatches, Setup, Using
<1>6. OneOwner'
  BY DEF OneOwner, ReleaseLabels, SetupLabels
<1>7. RecvOwned' /\ SendOwned'
  BY DEF RecvOwned, SendOwned, RecvLabels, SendLabels
<1>8. QED
  BY <1>1, <1>2, <1>3, <1>4, <1>5, <1>6, <1>7

\* bDisconnectRegistered is no part of the invariant.
LEMMA RegisterDisconnectInv ==
  ASSUME SessionInv, NEW t \in Threads, RegisterDisconnect(t)
  PROVE  SessionInv'
<1> USE DEF SessionInv, Goto, At, RegisterDisconnect,
            vars, countVars, stateVars, sendVars, kernelVars, serverVars, noticeVars, localVars
<1>1. TypeOK' /\ NoCrash'
  BY DEF TypeOK, NoCrash, Labels, IoStates
<1>2. RefsByLabel' /\ Roles'
  BY DEF RefsByLabel, Roles, HoldingLabels, Using, SetupLabels, CheckLabels
<1>3. CountIsHolders'
  BY KeepReferences DEF TypeOK, Labels, IoStates
<1>4. FlagMeansReleased' /\ DisconnectedMeansClosed'
  BY DEF FlagMeansReleased, DisconnectedMeansClosed, HoldingLabels, Using, SetupLabels,
         CheckLabels, ReleaseLabels, Setup
<1>5. IdIsKnown' /\ IdMatches'
  BY DEF IdIsKnown, IdMatches, Setup, Using
<1>6. OneOwner'
  BY DEF OneOwner, ReleaseLabels, SetupLabels
<1>7. RecvOwned' /\ SendOwned'
  BY DEF RecvOwned, SendOwned, RecvLabels, SendLabels
<1>8. QED
  BY <1>1, <1>2, <1>3, <1>4, <1>5, <1>6, <1>7

\* Cancelling turns pending I/O into aborted I/O, which still holds its reference.
LEMMA CancelIoInv ==
  ASSUME SessionInv, NEW t \in Threads, CancelIo(t)
  PROVE  SessionInv'
<1> USE DEF SessionInv, Goto, At, CancelIo, CancelIoEx, Cancelled,
            vars, countVars, stateVars, sendVars, kernelVars, serverVars, noticeVars, localVars
<1>1. TypeOK' /\ NoCrash'
  BY DEF TypeOK, NoCrash, Labels, IoStates
<1>2. RefsByLabel' /\ Roles'
  BY DEF RefsByLabel, Roles, HoldingLabels, Using, SetupLabels, CheckLabels
<1>3. CountIsHolders'
  BY KeepReferences DEF TypeOK, Labels, IoStates
<1>4. FlagMeansReleased' /\ DisconnectedMeansClosed'
  BY DEF FlagMeansReleased, DisconnectedMeansClosed, HoldingLabels, Using, SetupLabels,
         CheckLabels, ReleaseLabels, Setup
<1>5. IdIsKnown' /\ IdMatches'
  BY DEF IdIsKnown, IdMatches, Setup, Using
<1>6. OneOwner'
  BY DEF OneOwner, ReleaseLabels, SetupLabels
<1>7. RecvOwned' /\ SendOwned'
  BY DEF RecvOwned, SendOwned, RecvLabels, SendLabels
<1>8. QED
  BY <1>1, <1>2, <1>3, <1>4, <1>5, <1>6, <1>7

\* A packet goes into the send queue.
LEMMA EnqueueInv ==
  ASSUME SessionInv, NEW t \in Threads, Enqueue(t)
  PROVE  SessionInv'
<1> USE DEF SessionInv, Goto, At, Enqueue,
            vars, countVars, stateVars, sendVars, kernelVars, serverVars, noticeVars, localVars
<1>1. TypeOK' /\ NoCrash'
  <2>1. refCount' \in [Packets -> Int]
    BY DEF TypeOK, Roles
  <2>2. sendQueue' \in [Keys -> Seq(Packets)]
    BY AppendProperties DEF TypeOK, Roles, CheckLabels
  <2>3. pc' \in [Threads -> Labels]
    BY DEF TypeOK, Labels
  <2>4. QED
    BY <2>1, <2>2, <2>3 DEF TypeOK, NoCrash
<1>2. RefsByLabel' /\ Roles'
  BY DEF RefsByLabel, Roles, HoldingLabels, Using, SetupLabels, CheckLabels
<1>3. CountIsHolders'
  BY KeepReferences DEF TypeOK, Labels, IoStates
<1>4. FlagMeansReleased' /\ DisconnectedMeansClosed'
  BY DEF FlagMeansReleased, DisconnectedMeansClosed, HoldingLabels, Using, SetupLabels,
         CheckLabels, ReleaseLabels, Setup
<1>5. IdIsKnown' /\ IdMatches'
  BY DEF IdIsKnown, IdMatches, Setup, Using
<1>6. OneOwner'
  BY DEF OneOwner, ReleaseLabels, SetupLabels
<1>7. RecvOwned' /\ SendOwned'
  BY DEF RecvOwned, SendOwned, RecvLabels, SendLabels
<1>8. QED
  BY <1>1, <1>2, <1>3, <1>4, <1>5, <1>6, <1>7

\* A call ends with nothing held.
LEMMA ReturnInv ==
  ASSUME SessionInv, NEW t \in Threads, Return(t)
  PROVE  SessionInv'
<1> USE DEF SessionInv, Goto, At, Return,
            vars, countVars, stateVars, sendVars, kernelVars, serverVars, noticeVars, localVars
<1>1. TypeOK' /\ NoCrash'
  BY DEF TypeOK, NoCrash, Labels, IoStates
<1>2. RefsByLabel' /\ Roles'
  BY DEF TypeOK, RefsByLabel, Roles, Labels, IoStates, HoldingLabels, Using, SetupLabels,
         CheckLabels
<1>3. CountIsHolders'
  BY KeepReferences DEF TypeOK, RefsByLabel, Labels, IoStates, HoldingLabels, Using, SetupLabels,
         CheckLabels
<1>4. FlagMeansReleased' /\ DisconnectedMeansClosed'
  BY DEF FlagMeansReleased, DisconnectedMeansClosed, HoldingLabels, Using, SetupLabels,
         CheckLabels, ReleaseLabels, Setup
<1>5. IdIsKnown' /\ IdMatches'
  BY DEF TypeOK, IdIsKnown, IdMatches, Labels, IoStates, Setup, Using
<1>6. OneOwner'
  BY DEF OneOwner, ReleaseLabels, SetupLabels
<1>7. RecvOwned' /\ SendOwned'
  BY DEF RecvOwned, SendOwned, RecvLabels, SendLabels
<1>8. QED
  BY <1>1, <1>2, <1>3, <1>4, <1>5, <1>6, <1>7

\* PostRecv gives up or goes on, with the caller's reference and the receive side.
LEMMA PostRecvInv ==
  ASSUME SessionInv, NEW t \in Threads, PostRecv(t)
  PROVE  SessionInv'
<1> USE DEF SessionInv, Goto, At, PostRecv, Jump, NoNewIo,
            vars, countVars, stateVars, sendVars, kernelVars, serverVars, noticeVars, localVars
<1>1. TypeOK' /\ NoCrash'
  BY DEF TypeOK, NoCrash, Labels, IoStates
<1>2. RefsByLabel' /\ Roles'
  BY DEF RefsByLabel, Roles, HoldingLabels, Using, SetupLabels, CheckLabels
<1>3. CountIsHolders'
  BY KeepReferences DEF TypeOK, Labels, IoStates
<1>4. FlagMeansReleased' /\ DisconnectedMeansClosed'
  BY DEF FlagMeansReleased, DisconnectedMeansClosed, HoldingLabels, Using, SetupLabels,
         CheckLabels, ReleaseLabels, Setup
<1>5. IdIsKnown' /\ IdMatches'
  BY DEF IdIsKnown, IdMatches, Setup, Using
<1>6. OneOwner'
  BY DEF OneOwner, ReleaseLabels, SetupLabels
<1>7. RecvOwned' /\ SendOwned'
  BY DEF RecvOwned, SendOwned, RecvLabels, SendLabels
<1>8. QED
  BY <1>1, <1>2, <1>3, <1>4, <1>5, <1>6, <1>7

\* PostSend gives up or goes on, with the caller's reference.
LEMMA PostSendInv ==
  ASSUME SessionInv, NEW t \in Threads, PostSend(t)
  PROVE  SessionInv'
<1> USE DEF SessionInv, Goto, At, PostSend, Jump, NoNewIo,
            vars, countVars, stateVars, sendVars, kernelVars, serverVars, noticeVars, localVars
<1>1. TypeOK' /\ NoCrash'
  BY DEF TypeOK, NoCrash, Labels, IoStates
<1>2. RefsByLabel' /\ Roles'
  BY DEF RefsByLabel, Roles, HoldingLabels, Using, SetupLabels, CheckLabels
<1>3. CountIsHolders'
  BY KeepReferences DEF TypeOK, Labels, IoStates
<1>4. FlagMeansReleased' /\ DisconnectedMeansClosed'
  BY DEF FlagMeansReleased, DisconnectedMeansClosed, HoldingLabels, Using, SetupLabels,
         CheckLabels, ReleaseLabels, Setup
<1>5. IdIsKnown' /\ IdMatches'
  BY DEF IdIsKnown, IdMatches, Setup, Using
<1>6. OneOwner'
  BY DEF OneOwner, ReleaseLabels, SetupLabels
<1>7. RecvOwned' /\ SendOwned'
  BY DEF RecvOwned, SendOwned, RecvLabels, SendLabels
<1>8. QED
  BY <1>1, <1>2, <1>3, <1>4, <1>5, <1>6, <1>7

\* bSendFlag was 0, so no send is outstanding and this thread is alone with the send side.
LEMMA TakeSendFlagInv ==
  ASSUME SessionInv, NEW t \in Threads, TakeSendFlag(t)
  PROVE  SessionInv'
<1> USE DEF SessionInv, Goto, At, TakeSendFlag, SendFlagTaken,
            vars, countVars, stateVars, sendVars, kernelVars, serverVars, noticeVars, localVars
<1>1. TypeOK' /\ NoCrash'
  BY DEF TypeOK, NoCrash, Labels, IoStates
<1>2. RefsByLabel' /\ Roles'
  BY DEF RefsByLabel, Roles, HoldingLabels, Using, SetupLabels, CheckLabels
<1>3. CountIsHolders'
  BY KeepReferences DEF TypeOK, Labels, IoStates
<1>4. FlagMeansReleased' /\ DisconnectedMeansClosed'
  BY DEF FlagMeansReleased, DisconnectedMeansClosed, HoldingLabels, Using, SetupLabels,
         CheckLabels, ReleaseLabels, Setup
<1>5. IdIsKnown' /\ IdMatches'
  BY DEF IdIsKnown, IdMatches, Setup, Using
<1>6. OneOwner'
  BY DEF OneOwner, ReleaseLabels, SetupLabels
<1>7. RecvOwned' /\ SendOwned'
  BY ThreadsAssumption DEF TypeOK, Roles, RecvOwned, SendOwned, Labels, IoStates, SetupLabels,
         CheckLabels, RecvLabels, SendLabels, Threads
<1>8. QED
  BY <1>1, <1>2, <1>3, <1>4, <1>5, <1>6, <1>7

\* The batch moves under bSendFlag.
LEMMA RegisterPacketsInv ==
  ASSUME SessionInv, NEW t \in Threads, RegisterPackets(t)
  PROVE  SessionInv'
<1> USE DEF SessionInv, Goto, At, RegisterPackets,
            vars, countVars, stateVars, sendVars, kernelVars, serverVars, noticeVars, localVars
<1>1. TypeOK' /\ NoCrash'
  <2>1. registered' \in [Keys -> Seq(Packets)]
    <3>1. SendBatch(sendQueue[ses[t]]) \in 0 .. Len(sendQueue[ses[t]])
      BY SendBatchType DEF TypeOK, Roles
    <3>2. SubSeq(sendQueue[ses[t]], 1, SendBatch(sendQueue[ses[t]])) \in Seq(Packets)
      BY <3>1, SubSeqProperties DEF TypeOK, Roles
    <3>3. QED
      BY <3>2, ConcatProperties DEF TypeOK, Roles
  <2>2. sendQueue' \in [Keys -> Seq(Packets)]
    <3>1. SendBatch(sendQueue[ses[t]]) \in 0 .. Len(sendQueue[ses[t]])
      BY SendBatchType DEF TypeOK, Roles
    <3>2. SubSeq(sendQueue[ses[t]], SendBatch(sendQueue[ses[t]]) + 1, Len(sendQueue[ses[t]]))
            \in Seq(Packets)
      BY <3>1, SubSeqProperties DEF TypeOK, Roles
    <3>3. QED
      BY <3>2 DEF TypeOK
  <2>3. pc' \in [Threads -> Labels]
    BY DEF TypeOK, Labels
  <2>4. QED
    BY <2>1, <2>2, <2>3 DEF TypeOK, NoCrash
<1>2. RefsByLabel' /\ Roles'
  BY DEF RefsByLabel, Roles, HoldingLabels, Using, SetupLabels, CheckLabels
<1>3. CountIsHolders'
  BY KeepReferences DEF TypeOK, Labels, IoStates
<1>4. FlagMeansReleased' /\ DisconnectedMeansClosed'
  BY DEF FlagMeansReleased, DisconnectedMeansClosed, HoldingLabels, Using, SetupLabels,
         CheckLabels, ReleaseLabels, Setup
<1>5. IdIsKnown' /\ IdMatches'
  BY DEF IdIsKnown, IdMatches, Setup, Using
<1>6. OneOwner'
  BY DEF OneOwner, ReleaseLabels, SetupLabels
<1>7. RecvOwned' /\ SendOwned'
  BY DEF RecvOwned, SendOwned, RecvLabels, SendLabels
<1>8. QED
  BY <1>1, <1>2, <1>3, <1>4, <1>5, <1>6, <1>7

\* The flag this thread set is still set when it drops it.
LEMMA NothingToSendInv ==
  ASSUME SessionInv, NEW t \in Threads, NothingToSend(t)
  PROVE  SessionInv'
<1> USE DEF SessionInv, Goto, At, NothingToSend, DropSendFlag, AssertLive,
            vars, countVars, stateVars, sendVars, kernelVars, serverVars, noticeVars, localVars
<1>1. TypeOK' /\ NoCrash'
  <2>1. bSendFlag' \in [Keys -> BOOLEAN]
    BY DEF TypeOK
  <2>2. crashed' = FALSE
    BY ThreadsAssumption DEF TypeOK, NoCrash, Threads, RefsByLabel, HoldingLabels, Using,
           SetupLabels, CheckLabels, Roles, DisconnectedMeansClosed, SendOwned, SendLabels,
           IdIsKnown
  <2>3. pc' \in [Threads -> Labels]
    BY DEF TypeOK, Labels
  <2>4. QED
    BY <2>1, <2>2, <2>3 DEF TypeOK, NoCrash
<1>2. RefsByLabel' /\ Roles'
  BY DEF RefsByLabel, Roles, HoldingLabels, Using, SetupLabels, CheckLabels
<1>3. CountIsHolders'
  BY KeepReferences DEF TypeOK, Labels, IoStates
<1>4. FlagMeansReleased' /\ DisconnectedMeansClosed'
  BY DEF FlagMeansReleased, DisconnectedMeansClosed, HoldingLabels, Using, SetupLabels,
         CheckLabels, ReleaseLabels, Setup
<1>5. IdIsKnown' /\ IdMatches'
  BY DEF IdIsKnown, IdMatches, Setup, Using
<1>6. OneOwner'
  BY DEF OneOwner, ReleaseLabels, SetupLabels
<1>7. RecvOwned' /\ SendOwned'
  BY DEF TypeOK, RecvOwned, SendOwned, Labels, IoStates, RecvLabels, SendLabels
<1>8. QED
  BY <1>1, <1>2, <1>3, <1>4, <1>5, <1>6, <1>7

\* The receive side was here, so nothing was posted: the new operation holds the new
\* reference, or the thread holds two; the socket is open.
LEMMA WSARecvInv ==
  ASSUME SessionInv, NEW t \in Threads, NEW result \in {"pending", "ok", "refused"}, WSARecv(t, result)
  PROVE  SessionInv'
<1> USE DEF SessionInv, Goto, At, WSARecv, Submit, AssertLive,
            vars, countVars, stateVars, sendVars, kernelVars, serverVars, noticeVars, localVars
<1>1. TypeOK' /\ NoCrash'
  <2>1. ioCount' \in [Keys -> Nat]
    BY ThreadsAssumption DEF TypeOK, Threads, RefsByLabel, HoldingLabels, Using, SetupLabels,
           CheckLabels, Roles
  <2>2. crashed' = FALSE
    BY ThreadsAssumption DEF TypeOK, NoCrash, Threads, RefsByLabel, HoldingLabels, Using,
           SetupLabels, CheckLabels, Roles, DisconnectedMeansClosed, SendOwned, SendLabels,
           IdIsKnown
  <2>3. recvIo' \in [Keys -> IoStates]
    BY DEF TypeOK, IoStates
  <2>4. refs' \in [Threads -> 0 .. 2]
    BY ThreadsAssumption DEF TypeOK, Threads, RefsByLabel, HoldingLabels, Using, SetupLabels,
           CheckLabels
  <2>5. pc' \in [Threads -> Labels]
    BY DEF TypeOK, Labels
  <2>6. QED
    BY <2>1, <2>2, <2>3, <2>4, <2>5 DEF TypeOK, NoCrash
<1>2. RefsByLabel' /\ Roles'
  BY DEF TypeOK, RefsByLabel, Roles, Labels, IoStates, HoldingLabels, Using, SetupLabels,
         CheckLabels
<1>3. CountIsHolders'
  <2>1. ses[t] \in Keys /\ refs[t] = 1 /\ recvIo[ses[t]] = "none"
    BY DEF RefsByLabel, HoldingLabels, Using, Roles, RecvOwned, RecvLabels
  <2>2. CASE result = "refused"
    BY <2>1, <2>2, TakeReference
  <2>3. CASE result \in {"pending", "ok"}
    BY <2>1, <2>3, PostIo
  <2>4. QED
    BY <2>2, <2>3
<1>4. FlagMeansReleased' /\ DisconnectedMeansClosed'
  BY DEF TypeOK, FlagMeansReleased, DisconnectedMeansClosed, Labels, IoStates, HoldingLabels,
         Using, SetupLabels, CheckLabels, ReleaseLabels, Setup
<1>5. IdIsKnown' /\ IdMatches'
  BY DEF TypeOK, IdIsKnown, IdMatches, Labels, IoStates, Setup, Using
<1>6. OneOwner'
  BY DEF OneOwner, ReleaseLabels, SetupLabels
<1>7. RecvOwned' /\ SendOwned'
  BY ThreadsAssumption DEF TypeOK, Roles, RecvOwned, SendOwned, Labels, IoStates, SetupLabels,
         CheckLabels, RecvLabels, SendLabels, Threads
<1>8. QED
  BY <1>1, <1>2, <1>3, <1>4, <1>5, <1>6, <1>7

\* The send side was here, so nothing was posted: the new operation holds the new
\* reference, or the thread holds two; the socket is open.
LEMMA WSASendInv ==
  ASSUME SessionInv, NEW t \in Threads, NEW result \in {"pending", "ok", "refused"}, WSASend(t, result)
  PROVE  SessionInv'
<1> USE DEF SessionInv, Goto, At, WSASend, Submit, AssertLive,
            vars, countVars, stateVars, sendVars, kernelVars, serverVars, noticeVars, localVars
<1>1. TypeOK' /\ NoCrash'
  <2>1. ioCount' \in [Keys -> Nat]
    BY ThreadsAssumption DEF TypeOK, Threads, RefsByLabel, HoldingLabels, Using, SetupLabels,
           CheckLabels, Roles
  <2>2. crashed' = FALSE
    BY ThreadsAssumption DEF TypeOK, NoCrash, Threads, RefsByLabel, HoldingLabels, Using,
           SetupLabels, CheckLabels, Roles, DisconnectedMeansClosed, SendOwned, SendLabels,
           IdIsKnown
  <2>3. sendIo' \in [Keys -> IoStates \ {"zero"}]
    BY DEF TypeOK, IoStates
  <2>4. refs' \in [Threads -> 0 .. 2]
    BY ThreadsAssumption DEF TypeOK, Threads, RefsByLabel, HoldingLabels, Using, SetupLabels,
           CheckLabels
  <2>5. pc' \in [Threads -> Labels]
    BY DEF TypeOK, Labels
  <2>6. QED
    BY <2>1, <2>2, <2>3, <2>4, <2>5 DEF TypeOK, NoCrash
<1>2. RefsByLabel' /\ Roles'
  BY DEF TypeOK, RefsByLabel, Roles, Labels, IoStates, HoldingLabels, Using, SetupLabels,
         CheckLabels
<1>3. CountIsHolders'
  <2>1. ses[t] \in Keys /\ refs[t] = 1 /\ sendIo[ses[t]] = "none"
    BY DEF RefsByLabel, HoldingLabels, Using, Roles, SendOwned, SendLabels
  <2>2. CASE result = "refused"
    BY <2>1, <2>2, TakeReference
  <2>3. CASE result \in {"pending", "ok"}
    BY <2>1, <2>3, PostIo
  <2>4. QED
    BY <2>2, <2>3
<1>4. FlagMeansReleased' /\ DisconnectedMeansClosed'
  BY DEF TypeOK, FlagMeansReleased, DisconnectedMeansClosed, Labels, IoStates, HoldingLabels,
         Using, SetupLabels, CheckLabels, ReleaseLabels, Setup
<1>5. IdIsKnown' /\ IdMatches'
  BY DEF TypeOK, IdIsKnown, IdMatches, Labels, IoStates, Setup, Using
<1>6. OneOwner'
  BY DEF OneOwner, ReleaseLabels, SetupLabels
<1>7. RecvOwned' /\ SendOwned'
  BY ThreadsAssumption DEF TypeOK, Roles, RecvOwned, SendOwned, Labels, IoStates, SetupLabels,
         CheckLabels, RecvLabels, SendLabels, Threads
<1>8. QED
  BY <1>1, <1>2, <1>3, <1>4, <1>5, <1>6, <1>7

\* Cancelling late I/O keeps every reference.
LEMMA CancelIfRegisteredInv ==
  ASSUME SessionInv, NEW t \in Threads, CancelIfRegistered(t)
  PROVE  SessionInv'
<1> USE DEF SessionInv, Goto, At, CancelIfRegistered, CancelIoEx, Cancelled,
            vars, countVars, stateVars, sendVars, kernelVars, serverVars, noticeVars, localVars
<1>1. TypeOK' /\ NoCrash'
  <2>1. recvIo' \in [Keys -> IoStates]
    <3>1. CASE bDisconnectRegistered[ses[t]]
      <4>1. recvIo' = [recvIo EXCEPT ![ses[t]] = Cancelled(@)]
        BY <3>1
      <4>2. QED
        BY <4>1 DEF TypeOK, IoStates
    <3>2. CASE ~bDisconnectRegistered[ses[t]]
      BY <3>2 DEF TypeOK
    <3>3. QED
      BY <3>1, <3>2
  <2>2. sendIo' \in [Keys -> IoStates \ {"zero"}]
    <3>1. CASE bDisconnectRegistered[ses[t]]
      <4>1. sendIo' = [sendIo EXCEPT ![ses[t]] = Cancelled(@)]
        BY <3>1
      <4>2. QED
        BY <4>1 DEF TypeOK, IoStates
    <3>2. CASE ~bDisconnectRegistered[ses[t]]
      BY <3>2 DEF TypeOK
    <3>3. QED
      BY <3>1, <3>2
  <2>3. pc' \in [Threads -> Labels]
    BY DEF TypeOK, Labels
  <2>4. QED
    BY <2>1, <2>2, <2>3 DEF TypeOK, NoCrash
<1>2. RefsByLabel' /\ Roles'
  BY DEF RefsByLabel, Roles, HoldingLabels, Using, SetupLabels, CheckLabels
<1>3. CountIsHolders'
  BY KeepReferences DEF TypeOK, Labels, IoStates
<1>4. FlagMeansReleased' /\ DisconnectedMeansClosed'
  BY DEF TypeOK, FlagMeansReleased, DisconnectedMeansClosed, Labels, IoStates, HoldingLabels,
         Using, SetupLabels, CheckLabels, ReleaseLabels, Setup
<1>5. IdIsKnown' /\ IdMatches'
  BY DEF TypeOK, IdIsKnown, IdMatches, Labels, IoStates, Setup, Using
<1>6. OneOwner'
  BY DEF OneOwner, ReleaseLabels, SetupLabels
<1>7. RecvOwned' /\ SendOwned'
  BY ThreadsAssumption DEF TypeOK, Roles, RecvOwned, SendOwned, Labels, IoStates, SetupLabels,
         CheckLabels, RecvLabels, SendLabels, Threads
<1>8. QED
  BY <1>1, <1>2, <1>3, <1>4, <1>5, <1>6, <1>7

\* The heart of the protocol: a count of exactly one without the flag means that this thread
\* is the only holder, so the flag it sets finds nobody at work and nothing posted.
LEMMA DecrementCasInv ==
  ASSUME SessionInv, NEW t \in Threads, DecrementCas(t)
  PROVE  SessionInv'
<1> USE DEF SessionInv, vars, countVars, stateVars, sendVars, kernelVars, serverVars,
            noticeVars, localVars
<1>1. /\ At(t, "dec_cas") /\ pc[t] = "dec_cas"
      /\ UNCHANGED <<stateVars, sendVars, kernelVars, serverVars, noticeVars, localVars, calls,
                     crashed>>
  BY DEF DecrementCas, At
<1>2. ses[t] \in Keys /\ refs[t] \in {1, 2}
  BY <1>1 DEF RefsByLabel, Roles, TypeOK
<1>3. CASE ~IsLastReference(ses[t])
  <2>1. pc' = [pc EXCEPT ![t] = "dec_sub"] /\ UNCHANGED <<countVars, refs>>
    BY <1>3 DEF DecrementCas, Goto
  <2>2. TypeOK' /\ NoCrash'
    BY <1>1, <2>1 DEF TypeOK, Labels, NoCrash
  <2>3. RefsByLabel' /\ Roles'
    BY <1>1, <2>1 DEF TypeOK, RefsByLabel, Roles, HoldingLabels, Using, SetupLabels, CheckLabels
  <2>4. CountIsHolders'
    BY <1>1, <2>1, KeepReferences DEF TypeOK
  <2>5. FlagMeansReleased' /\ DisconnectedMeansClosed'
    BY <1>1, <2>1 DEF TypeOK, FlagMeansReleased, DisconnectedMeansClosed, HoldingLabels, Using,
           SetupLabels, CheckLabels, ReleaseLabels, Setup
  <2>6. IdIsKnown' /\ IdMatches'
    BY <1>1, <2>1 DEF TypeOK, IdIsKnown, IdMatches, Setup, Using
  <2>7. OneOwner'
    BY <1>1, <2>1 DEF TypeOK, OneOwner, ReleaseLabels, SetupLabels
  <2>8. RecvOwned' /\ SendOwned'
    BY <1>1, <2>1 DEF TypeOK, RecvOwned, SendOwned, RecvLabels, SendLabels
  <2>9. QED
    BY <2>2, <2>3, <2>4, <2>5, <2>6, <2>7, <2>8
<1>4. CASE IsLastReference(ses[t])
  <2>1. /\ ioCount' = [ioCount EXCEPT ![ses[t]] = 0]
        /\ releaseFlag' = [releaseFlag EXCEPT ![ses[t]] = TRUE]
        /\ refs' = [refs EXCEPT ![t] = refs[t] - 1]
        /\ pc' = [pc EXCEPT ![t] = "rel_close"]
    BY <1>4, <1>2, Zenon DEF DecrementCas, Goto, TypeOK
  <2>2. ioCount[ses[t]] = 1 /\ ~releaseFlag[ses[t]]
    BY <1>4 DEF IsLastReference
  \* Only this thread holds the session: nobody works on it, nothing is posted.
  <2>3. /\ refs[t] = 1
        /\ \A u \in Threads \ {t} : ses[u] = ses[t] => refs[u] = 0
        /\ recvIo[ses[t]] = "none" /\ sendIo[ses[t]] = "none"
    BY <1>2, <2>2, SoleHolder
  <2>4. \A u \in Threads : u # t /\ ses[u] = ses[t] =>
          pc[u] \notin HoldingLabels \cup {"init_and", "dec_cas", "dec_sub"}
    BY <2>3 DEF RefsByLabel
  <2>5. ID[ses[t]] # NoID
    BY <1>1 DEF IdIsKnown
  <2>6. ses[t] \notin unusedKeys /\ ~Setup(ses[t], {"pop", "init_and"})
    BY <1>2, <2>2, <2>5 DEF IdIsKnown
  <2>7. ~Setup(ses[t], {"init_id", "init_disc"})
    BY <1>1, <2>4, ThreadsAssumption DEF Setup, Threads, HoldingLabels, SetupLabels
  <2>8. ~bDisconnected[ses[t]]
    BY <1>2, <2>2, <2>5, <2>7 DEF DisconnectedMeansClosed
  <2>9. \A u \in Threads : ses[u] = ses[t] => pc[u] \notin ReleaseLabels
    BY <2>2 DEF FlagMeansReleased
  <2>10. TypeOK' /\ NoCrash'
    <3>1. refs' \in [Threads -> 0 .. 2]
      BY <2>1, <2>3 DEF TypeOK
    <3>2. ioCount' \in [Keys -> Nat] /\ releaseFlag' \in [Keys -> BOOLEAN]
      BY <2>1 DEF TypeOK
    <3>3. pc' \in [Threads -> Labels]
      BY <2>1 DEF TypeOK, Labels
    <3>4. QED
      BY <1>1, <3>1, <3>2, <3>3 DEF TypeOK, NoCrash
  <2>11. RefsByLabel' /\ Roles'
    BY <1>1, <2>1, <2>3 DEF TypeOK, RefsByLabel, Roles, HoldingLabels, Using, SetupLabels,
           CheckLabels
  <2>12. CountIsHolders'
    <3>1. ioCount' = [ioCount EXCEPT ![ses[t]] = @ - 1]
      BY <1>2, <2>1, <2>2 DEF TypeOK
    <3>2. QED
      BY <1>1, <1>2, <2>1, <3>1, GiveReference
  <2>13. FlagMeansReleased'
    BY <1>1, <1>2, <2>1, <2>3, <2>4 DEF TypeOK, FlagMeansReleased, HoldingLabels, Using,
           SetupLabels, CheckLabels, ReleaseLabels
  <2>14. DisconnectedMeansClosed'
    BY <1>1, <1>2, <2>1, <2>8 DEF TypeOK, DisconnectedMeansClosed, Using, Setup
  <2>15. IdIsKnown' /\ IdMatches'
    BY <1>1, <1>2, <2>1, <2>6 DEF TypeOK, IdIsKnown, IdMatches, Setup, Using
  <2>16. OneOwner'
    BY <1>1, <1>2, <2>1, <2>4, <2>6, <2>9, ThreadsAssumption DEF TypeOK, Roles, OneOwner,
           ReleaseLabels, SetupLabels, HoldingLabels, Setup, Threads
  <2>17. RecvOwned' /\ SendOwned'
    BY <1>1, <2>1 DEF TypeOK, RecvOwned, SendOwned, RecvLabels, SendLabels
  <2>18. QED
    BY <2>10, <2>11, <2>12, <2>13, <2>14, <2>15, <2>16, <2>17
<1>5. QED
  BY <1>3, <1>4

\* One reference is given back; a zero reached this way keeps the thread in the loop.
LEMMA DecrementSubInv ==
  ASSUME SessionInv, NEW t \in Threads, DecrementSub(t)
  PROVE  SessionInv'
<1> USE DEF SessionInv, vars, countVars, stateVars, sendVars, kernelVars, serverVars,
            noticeVars, localVars
<1>1. /\ pc[t] = "dec_sub"
      /\ ioCount' = [ioCount EXCEPT ![ses[t]] = @ - 1]
      /\ refs' = [refs EXCEPT ![t] = @ - 1]
      /\ UNCHANGED <<releaseFlag, stateVars, sendVars, kernelVars, serverVars, noticeVars,
                     localVars, calls, crashed>>
  BY DEF DecrementSub, At
<1>2. ses[t] \in Keys /\ refs[t] \in {1, 2}
  BY <1>1 DEF RefsByLabel, Roles, TypeOK
<1>3. ioCount[ses[t]] \in Nat /\ ioCount[ses[t]] >= 1
  <2>1. <<t, 1>> \in Holders(ses[t])
    BY <1>2 DEF Holders
  <2>2. QED
    BY <1>2, <2>1, HeldIsCounted
<1>4. ioCount[ses[t]] = 1 => refs[t] = 1
  BY <1>2, SoleHolder
<1>5. PICK l \in {"dec_undo", "dec_cas", "return"} :
        /\ pc' = [pc EXCEPT ![t] = l]
        /\ l = "dec_cas" <=> refs[t] = 2
  <2> DEFINE reachedZero == ioCount[ses[t]] = 1 /\ ~releaseFlag[ses[t]]
  <2>1. pc' = [pc EXCEPT ![t] = CASE reachedZero -> "dec_undo"
                                 [] ~reachedZero /\ refs[t] > 1 -> "dec_cas"
                                 [] ~reachedZero /\ refs[t] <= 1 -> "return"]
    BY DEF DecrementSub, Goto
  <2>2. reachedZero => refs[t] = 1
    BY <1>4
  <2> HIDE DEF reachedZero
  <2>3. CASE reachedZero
    BY <2>1, <2>2, <2>3
  <2>4. CASE ~reachedZero /\ refs[t] = 1
    BY <2>1, <2>4
  <2>5. CASE ~reachedZero /\ refs[t] = 2
    BY <2>1, <2>5
  <2>6. QED
    BY <1>2, <2>3, <2>4, <2>5
<1>6. TypeOK' /\ NoCrash'
  <2>1. refs' \in [Threads -> 0 .. 2]
    BY <1>1, <1>2 DEF TypeOK
  <2>2. ioCount' \in [Keys -> Nat]
    BY <1>1, <1>2, <1>3 DEF TypeOK
  <2>3. pc' \in [Threads -> Labels]
    BY <1>5 DEF TypeOK, Labels
  <2>4. QED
    BY <1>1, <2>1, <2>2, <2>3 DEF TypeOK, NoCrash
<1>7. RefsByLabel' /\ Roles'
  BY <1>1, <1>2, <1>5 DEF TypeOK, RefsByLabel, Roles, HoldingLabels, Using, SetupLabels,
         CheckLabels
<1>8. CountIsHolders'
  BY <1>1, <1>2, GiveReference
<1>9. FlagMeansReleased' /\ DisconnectedMeansClosed'
  BY <1>1, <1>5 DEF TypeOK, FlagMeansReleased, DisconnectedMeansClosed, HoldingLabels, Using,
         SetupLabels, CheckLabels, ReleaseLabels, Setup
<1>10. IdIsKnown' /\ IdMatches'
  BY <1>1, <1>5 DEF TypeOK, IdIsKnown, IdMatches, Setup, Using
<1>11. OneOwner'
  BY <1>1, <1>5 DEF TypeOK, OneOwner, ReleaseLabels, SetupLabels
<1>12. RecvOwned' /\ SendOwned'
  BY <1>1, <1>5 DEF TypeOK, RecvOwned, SendOwned, RecvLabels, SendLabels
<1>13. QED
  BY <1>6, <1>7, <1>8, <1>9, <1>10, <1>11, <1>12

\* The thread that reached zero takes its reference again.
LEMMA DecrementUndoInv ==
  ASSUME SessionInv, NEW t \in Threads, DecrementUndo(t)
  PROVE  SessionInv'
<1> USE DEF SessionInv, Goto, At, DecrementUndo,
            vars, countVars, stateVars, sendVars, kernelVars, serverVars, noticeVars, localVars
<1>1. TypeOK' /\ NoCrash'
  <2>1. ioCount' \in [Keys -> Nat]
    BY ThreadsAssumption DEF TypeOK, Threads, RefsByLabel, HoldingLabels, Using, SetupLabels,
           CheckLabels, Roles
  <2>2. refs' \in [Threads -> 0 .. 2]
    <3>1. refs[t] = 0
      BY ThreadsAssumption DEF RefsByLabel, HoldingLabels, Using, SetupLabels, CheckLabels, Threads
    <3>2. QED
      BY <3>1 DEF TypeOK
  <2>3. pc' \in [Threads -> Labels]
    BY DEF TypeOK, Labels
  <2>4. QED
    BY <2>1, <2>2, <2>3 DEF TypeOK, NoCrash
<1>2. RefsByLabel' /\ Roles'
  BY DEF TypeOK, RefsByLabel, Roles, Labels, IoStates, HoldingLabels, Using, SetupLabels,
         CheckLabels
<1>3. CountIsHolders'
  BY TakeReference, ThreadsAssumption DEF TypeOK, RefsByLabel, Roles, Labels, IoStates,
         HoldingLabels, Using, SetupLabels, CheckLabels, Threads
<1>4. FlagMeansReleased' /\ DisconnectedMeansClosed'
  BY DEF FlagMeansReleased, DisconnectedMeansClosed, HoldingLabels, Using, SetupLabels,
         CheckLabels, ReleaseLabels, Setup
<1>5. IdIsKnown' /\ IdMatches'
  BY DEF IdIsKnown, IdMatches, Setup, Using
<1>6. OneOwner'
  BY DEF OneOwner, ReleaseLabels, SetupLabels
<1>7. RecvOwned' /\ SendOwned'
  BY DEF RecvOwned, SendOwned, RecvLabels, SendLabels
<1>8. QED
  BY <1>1, <1>2, <1>3, <1>4, <1>5, <1>6, <1>7

\* The releasing thread is the first to close the socket.
LEMMA ReleaseCloseInv ==
  ASSUME SessionInv, NEW t \in Threads, ReleaseClose(t)
  PROVE  SessionInv'
<1> USE DEF SessionInv, Goto, At, ReleaseClose, AssertLive,
            vars, countVars, stateVars, sendVars, kernelVars, serverVars, noticeVars, localVars
<1>1. TypeOK' /\ NoCrash'
  <2>1. bDisconnected' \in [Keys -> BOOLEAN]
    BY DEF TypeOK
  <2>2. crashed' = FALSE
    BY ThreadsAssumption DEF TypeOK, NoCrash, Threads, RefsByLabel, HoldingLabels, Using,
           SetupLabels, CheckLabels, Roles, DisconnectedMeansClosed, SendOwned, SendLabels,
           IdIsKnown
  <2>3. conn' \in [Keys -> {"none", "open", "reset"}]
    BY DEF TypeOK
  <2>4. pc' \in [Threads -> Labels]
    BY DEF TypeOK, Labels
  <2>5. QED
    BY <2>1, <2>2, <2>3, <2>4 DEF TypeOK, NoCrash
<1>2. RefsByLabel' /\ Roles'
  BY DEF RefsByLabel, Roles, HoldingLabels, Using, SetupLabels, CheckLabels
<1>3. CountIsHolders'
  BY KeepReferences DEF TypeOK, Labels, IoStates
<1>4. FlagMeansReleased' /\ DisconnectedMeansClosed'
  <2>1. FlagMeansReleased'
    BY DEF TypeOK, FlagMeansReleased, HoldingLabels, Using, SetupLabels, CheckLabels,
           ReleaseLabels
  <2>2. DisconnectedMeansClosed'
    BY DEF TypeOK, Roles, FlagMeansReleased, DisconnectedMeansClosed, OneOwner, HoldingLabels,
           Using, SetupLabels, CheckLabels, ReleaseLabels, Setup
  <2>3. QED
    BY <2>1, <2>2
<1>5. IdIsKnown' /\ IdMatches'
  BY DEF IdIsKnown, IdMatches, Setup, Using
<1>6. OneOwner'
  BY DEF OneOwner, ReleaseLabels, SetupLabels
<1>7. RecvOwned' /\ SendOwned'
  BY DEF RecvOwned, SendOwned, RecvLabels, SendLabels
<1>8. QED
  BY <1>1, <1>2, <1>3, <1>4, <1>5, <1>6, <1>7

\* The notice carries an ID that was issued for this key.
LEMMA ReleasePostInv ==
  ASSUME SessionInv, NEW t \in Threads, ReleasePost(t)
  PROVE  SessionInv'
<1> USE DEF SessionInv, Goto, At, ReleasePost,
            vars, countVars, stateVars, sendVars, kernelVars, serverVars, noticeVars, localVars
<1>1. TypeOK' /\ NoCrash'
  <2>1. sessionCount' \in Int
    BY DEF TypeOK
  <2>2. releaseNotices' \in SUBSET IDs
    <3>1. pc[t] = "rel_post"
      OBVIOUS
    <3>2. ses[t] \in Keys /\ ID[ses[t]] # NoID
      BY <3>1 DEF Roles, IdIsKnown
    <3>3. ID[ses[t]] \in IDs
      BY <3>2 DEF TypeOK
    <3>4. QED
      BY <3>3 DEF TypeOK
  <2>3. pc' \in [Threads -> Labels]
    BY DEF TypeOK, Labels
  <2>4. QED
    BY <2>1, <2>2, <2>3 DEF TypeOK, NoCrash
<1>2. RefsByLabel' /\ Roles'
  BY DEF RefsByLabel, Roles, HoldingLabels, Using, SetupLabels, CheckLabels
<1>3. CountIsHolders'
  BY KeepReferences DEF TypeOK, Labels, IoStates
<1>4. FlagMeansReleased' /\ DisconnectedMeansClosed'
  BY DEF FlagMeansReleased, DisconnectedMeansClosed, HoldingLabels, Using, SetupLabels,
         CheckLabels, ReleaseLabels, Setup
<1>5. IdIsKnown' /\ IdMatches'
  BY DEF IdIsKnown, IdMatches, Setup, Using
<1>6. OneOwner'
  BY DEF OneOwner, ReleaseLabels, SetupLabels
<1>7. RecvOwned' /\ SendOwned'
  BY DEF RecvOwned, SendOwned, RecvLabels, SendLabels
<1>8. QED
  BY <1>1, <1>2, <1>3, <1>4, <1>5, <1>6, <1>7

\* The key goes back: its releaser was its only owner.
LEMMA ReleasePushInv ==
  ASSUME SessionInv, NEW t \in Threads, ReleasePush(t)
  PROVE  SessionInv'
<1> USE DEF SessionInv, Goto, At, ReleasePush,
            vars, countVars, stateVars, sendVars, kernelVars, serverVars, noticeVars, localVars
<1>1. TypeOK' /\ NoCrash'
  BY ThreadsAssumption DEF TypeOK, Roles, NoCrash, Labels, IoStates, SetupLabels, CheckLabels,
         Threads
<1>2. RefsByLabel' /\ Roles'
  BY DEF RefsByLabel, Roles, HoldingLabels, Using, SetupLabels, CheckLabels
<1>3. CountIsHolders'
  BY KeepReferences DEF TypeOK, Labels, IoStates
<1>4. FlagMeansReleased' /\ DisconnectedMeansClosed'
  BY DEF FlagMeansReleased, DisconnectedMeansClosed, HoldingLabels, Using, SetupLabels,
         CheckLabels, ReleaseLabels, Setup
<1>5. IdIsKnown' /\ IdMatches'
  BY ThreadsAssumption DEF TypeOK, RefsByLabel, Roles, FlagMeansReleased, DisconnectedMeansClosed,
         IdIsKnown, IdMatches, Labels, IoStates, HoldingLabels, Using, SetupLabels, CheckLabels,
         ReleaseLabels, Setup, Threads
<1>6. OneOwner'
  BY DEF TypeOK, OneOwner, Labels, IoStates, ReleaseLabels, SetupLabels
<1>7. RecvOwned' /\ SendOwned'
  BY DEF RecvOwned, SendOwned, RecvLabels, SendLabels
<1>8. QED
  BY <1>1, <1>2, <1>3, <1>4, <1>5, <1>6, <1>7

\* The packets of a finished send are released by the worker that owns the send side.
LEMMA SendDoneInv ==
  ASSUME SessionInv, NEW t \in Workers, SendDone(t)
  PROVE  SessionInv'
<1> USE DEF SessionInv, Goto, At, SendDone,
            vars, countVars, stateVars, sendVars, kernelVars, serverVars, noticeVars, localVars
<1>1. TypeOK' /\ NoCrash'
  <2>1. refCount' \in [Packets -> Int]
    BY ReleasePacketsType, ThreadsAssumption DEF TypeOK, Roles, Threads
  <2>2. registered' \in [Keys -> Seq(Packets)]
    BY ThreadsAssumption DEF TypeOK, Threads, RefsByLabel, HoldingLabels, Using, SetupLabels,
           CheckLabels, Roles
  <2>3. pc' \in [Threads -> Labels]
    BY DEF TypeOK, Labels
  <2>4. QED
    BY <2>1, <2>2, <2>3 DEF TypeOK, NoCrash
<1>2. RefsByLabel' /\ Roles'
  BY DEF RefsByLabel, Roles, HoldingLabels, Using, SetupLabels, CheckLabels
<1>3. CountIsHolders'
  BY KeepReferences DEF TypeOK, Labels, IoStates
<1>4. FlagMeansReleased' /\ DisconnectedMeansClosed'
  BY DEF FlagMeansReleased, DisconnectedMeansClosed, HoldingLabels, Using, SetupLabels,
         CheckLabels, ReleaseLabels, Setup
<1>5. IdIsKnown' /\ IdMatches'
  BY DEF IdIsKnown, IdMatches, Setup, Using
<1>6. OneOwner'
  BY DEF OneOwner, ReleaseLabels, SetupLabels
<1>7. RecvOwned' /\ SendOwned'
  BY DEF RecvOwned, SendOwned, RecvLabels, SendLabels
<1>8. QED
  BY <1>1, <1>2, <1>3, <1>4, <1>5, <1>6, <1>7

\* The worker that owns the send side finds bSendFlag set and drops it.
LEMMA SendAgainInv ==
  ASSUME SessionInv, NEW t \in Workers, SendAgain(t)
  PROVE  SessionInv'
<1> USE DEF SessionInv, Goto, At, SendAgain, DropSendFlag, AssertLive,
            vars, countVars, stateVars, sendVars, kernelVars, serverVars, noticeVars, localVars
<1>1. TypeOK' /\ NoCrash'
  <2>1. bSendFlag' \in [Keys -> BOOLEAN]
    BY DEF TypeOK
  <2>2. crashed' = FALSE
    BY ThreadsAssumption DEF TypeOK, NoCrash, Threads, RefsByLabel, HoldingLabels, Using,
           SetupLabels, CheckLabels, Roles, DisconnectedMeansClosed, SendOwned, SendLabels,
           IdIsKnown
  <2>3. pc' \in [Threads -> Labels]
    BY DEF TypeOK, Labels
  <2>4. QED
    BY <2>1, <2>2, <2>3 DEF TypeOK, NoCrash
<1>2. RefsByLabel' /\ Roles'
  BY DEF RefsByLabel, Roles, HoldingLabels, Using, SetupLabels, CheckLabels
<1>3. CountIsHolders'
  BY KeepReferences DEF TypeOK, Labels, IoStates
<1>4. FlagMeansReleased' /\ DisconnectedMeansClosed'
  BY DEF FlagMeansReleased, DisconnectedMeansClosed, HoldingLabels, Using, SetupLabels,
         CheckLabels, ReleaseLabels, Setup
<1>5. IdIsKnown' /\ IdMatches'
  BY DEF IdIsKnown, IdMatches, Setup, Using
<1>6. OneOwner'
  BY DEF OneOwner, ReleaseLabels, SetupLabels
<1>7. RecvOwned' /\ SendOwned'
  BY ThreadsAssumption DEF TypeOK, Roles, RecvOwned, SendOwned, Labels, IoStates, SetupLabels,
         CheckLabels, RecvLabels, SendLabels, Threads
<1>8. QED
  BY <1>1, <1>2, <1>3, <1>4, <1>5, <1>6, <1>7

\* The worker keeps the receive side or lets it go.
LEMMA ReceiveDoneInv ==
  ASSUME SessionInv, NEW t \in Workers, NEW wellFormed \in BOOLEAN, ReceiveDone(t, wellFormed)
  PROVE  SessionInv'
<1> USE DEF SessionInv, Goto, At, ReceiveDone, Jump,
            vars, countVars, stateVars, sendVars, kernelVars, serverVars, noticeVars, localVars
<1>1. TypeOK' /\ NoCrash'
  BY DEF TypeOK, NoCrash, Labels, IoStates
<1>2. RefsByLabel' /\ Roles'
  BY DEF RefsByLabel, Roles, HoldingLabels, Using, SetupLabels, CheckLabels
<1>3. CountIsHolders'
  BY KeepReferences DEF TypeOK, Labels, IoStates
<1>4. FlagMeansReleased' /\ DisconnectedMeansClosed'
  BY DEF FlagMeansReleased, DisconnectedMeansClosed, HoldingLabels, Using, SetupLabels,
         CheckLabels, ReleaseLabels, Setup
<1>5. IdIsKnown' /\ IdMatches'
  BY DEF IdIsKnown, IdMatches, Setup, Using
<1>6. OneOwner'
  BY DEF OneOwner, ReleaseLabels, SetupLabels
<1>7. RecvOwned' /\ SendOwned'
  BY DEF RecvOwned, SendOwned, RecvLabels, SendLabels
<1>8. QED
  BY <1>1, <1>2, <1>3, <1>4, <1>5, <1>6, <1>7

\* A notice is delivered; no session changes.
LEMMA OnReleaseInv ==
  ASSUME SessionInv, NEW w \in Workers, NEW id \in releaseNotices, OnRelease(w, id)
  PROVE  SessionInv'
<1> USE DEF SessionInv, Goto, At, OnRelease,
            vars, countVars, stateVars, sendVars, kernelVars, serverVars, noticeVars, localVars
<1>1. TypeOK' /\ NoCrash'
  BY DEF TypeOK, NoCrash, Labels, IoStates
<1>2. RefsByLabel' /\ Roles'
  BY DEF RefsByLabel, Roles, HoldingLabels, Using, SetupLabels, CheckLabels
<1>3. CountIsHolders'
  BY KeepReferences DEF TypeOK, Labels, IoStates
<1>4. FlagMeansReleased' /\ DisconnectedMeansClosed'
  BY DEF FlagMeansReleased, DisconnectedMeansClosed, HoldingLabels, Using, SetupLabels,
         CheckLabels, ReleaseLabels, Setup
<1>5. IdIsKnown' /\ IdMatches'
  BY DEF IdIsKnown, IdMatches, Setup, Using
<1>6. OneOwner'
  BY DEF OneOwner, ReleaseLabels, SetupLabels
<1>7. RecvOwned' /\ SendOwned'
  BY DEF RecvOwned, SendOwned, RecvLabels, SendLabels
<1>8. QED
  BY <1>1, <1>2, <1>3, <1>4, <1>5, <1>6, <1>7

\* The reference of a completed send passes to the worker, and the send side with it.
LEMMA CompleteSendInv ==
  ASSUME SessionInv, NEW w \in Workers, NEW k \in Keys, CompleteSend(w, k)
  PROVE  SessionInv'
<1> USE DEF SessionInv, Goto, At, CompleteSend, Complete,
            vars, countVars, stateVars, sendVars, kernelVars, serverVars, noticeVars, localVars
<1>1. TypeOK' /\ NoCrash'
  BY ThreadsAssumption DEF TypeOK, Roles, NoCrash, Labels, IoStates, SetupLabels, CheckLabels,
         Threads
<1>2. RefsByLabel' /\ Roles'
  BY ThreadsAssumption DEF TypeOK, RefsByLabel, Roles, Labels, IoStates, HoldingLabels, Using,
         SetupLabels, CheckLabels, Threads
<1>3. CountIsHolders'
  <2>1. w \in Threads /\ refs[w] = 0
    BY DEF Threads, RefsByLabel, HoldingLabels, Using, SetupLabels, CheckLabels
  <2>2. sendIo[k] # "none"
    OBVIOUS
  <2>3. QED
    BY <2>1, <2>2, TakeOver
<1>4. FlagMeansReleased' /\ DisconnectedMeansClosed'
  BY DEF TypeOK, FlagMeansReleased, DisconnectedMeansClosed, Labels, IoStates, HoldingLabels,
         Using, SetupLabels, CheckLabels, ReleaseLabels, Setup
<1>5. IdIsKnown' /\ IdMatches'
  BY DEF TypeOK, IdIsKnown, IdMatches, Labels, IoStates, Setup, Using
<1>6. OneOwner'
  BY DEF OneOwner, ReleaseLabels, SetupLabels
<1>7. RecvOwned' /\ SendOwned'
  BY DEF TypeOK, RecvOwned, SendOwned, Labels, IoStates, RecvLabels, SendLabels
<1>8. QED
  BY <1>1, <1>2, <1>3, <1>4, <1>5, <1>6, <1>7

\* The reference of a completed receive passes to the worker, and the receive side with it.
LEMMA CompleteRecvInv ==
  ASSUME SessionInv, NEW w \in Workers, NEW k \in Keys, CompleteRecv(w, k)
  PROVE  SessionInv'
<1> USE DEF SessionInv, Goto, At, CompleteRecv, Complete,
            vars, countVars, stateVars, sendVars, kernelVars, serverVars, noticeVars, localVars
<1>1. TypeOK' /\ NoCrash'
  BY ThreadsAssumption DEF TypeOK, Roles, NoCrash, Labels, IoStates, SetupLabels, CheckLabels,
         Threads
<1>2. RefsByLabel' /\ Roles'
  BY ThreadsAssumption DEF TypeOK, RefsByLabel, Roles, Labels, IoStates, HoldingLabels, Using,
         SetupLabels, CheckLabels, Threads
<1>3. CountIsHolders'
  <2>1. w \in Threads /\ refs[w] = 0
    BY DEF Threads, RefsByLabel, HoldingLabels, Using, SetupLabels, CheckLabels
  <2>2. recvIo[k] # "none"
    OBVIOUS
  <2>3. QED
    BY <2>1, <2>2, TakeOver
<1>4. FlagMeansReleased' /\ DisconnectedMeansClosed'
  BY DEF TypeOK, FlagMeansReleased, DisconnectedMeansClosed, Labels, IoStates, HoldingLabels,
         Using, SetupLabels, CheckLabels, ReleaseLabels, Setup
<1>5. IdIsKnown' /\ IdMatches'
  BY DEF TypeOK, IdIsKnown, IdMatches, Labels, IoStates, Setup, Using
<1>6. OneOwner'
  BY DEF OneOwner, ReleaseLabels, SetupLabels
<1>7. RecvOwned' /\ SendOwned'
  BY DEF TypeOK, RecvOwned, SendOwned, Labels, IoStates, RecvLabels, SendLabels
<1>8. QED
  BY <1>1, <1>2, <1>3, <1>4, <1>5, <1>6, <1>7

\* A completed receive holds its reference until a worker takes it.
LEMMA RecvCompletesInv ==
  ASSUME SessionInv, NEW k \in Keys, NEW result \in {"ok", "zero", "abort"}, RecvCompletes(k, result)
  PROVE  SessionInv'
<1> USE DEF SessionInv, Goto, At, RecvCompletes, KernelCompletes,
            vars, countVars, stateVars, sendVars, kernelVars, serverVars, noticeVars, localVars
<1>1. TypeOK' /\ NoCrash'
  BY DEF TypeOK, NoCrash, Labels, IoStates
<1>2. RefsByLabel' /\ Roles'
  BY DEF RefsByLabel, Roles, HoldingLabels, Using, SetupLabels, CheckLabels
<1>3. CountIsHolders'
  BY KeepReferences DEF TypeOK, Labels, IoStates
<1>4. FlagMeansReleased' /\ DisconnectedMeansClosed'
  BY DEF FlagMeansReleased, DisconnectedMeansClosed, HoldingLabels, Using, SetupLabels,
         CheckLabels, ReleaseLabels, Setup
<1>5. IdIsKnown' /\ IdMatches'
  BY DEF IdIsKnown, IdMatches, Setup, Using
<1>6. OneOwner'
  BY DEF OneOwner, ReleaseLabels, SetupLabels
<1>7. RecvOwned' /\ SendOwned'
  BY DEF RecvOwned, SendOwned, RecvLabels, SendLabels
<1>8. QED
  BY <1>1, <1>2, <1>3, <1>4, <1>5, <1>6, <1>7

\* A completed send holds its reference until a worker takes it.
LEMMA SendCompletesInv ==
  ASSUME SessionInv, NEW k \in Keys, NEW result \in {"ok", "abort"}, SendCompletes(k, result)
  PROVE  SessionInv'
<1> USE DEF SessionInv, Goto, At, SendCompletes, KernelCompletes,
            vars, countVars, stateVars, sendVars, kernelVars, serverVars, noticeVars, localVars
<1>1. TypeOK' /\ NoCrash'
  BY DEF TypeOK, NoCrash, Labels, IoStates
<1>2. RefsByLabel' /\ Roles'
  BY DEF RefsByLabel, Roles, HoldingLabels, Using, SetupLabels, CheckLabels
<1>3. CountIsHolders'
  BY KeepReferences DEF TypeOK, Labels, IoStates
<1>4. FlagMeansReleased' /\ DisconnectedMeansClosed'
  BY DEF FlagMeansReleased, DisconnectedMeansClosed, HoldingLabels, Using, SetupLabels,
         CheckLabels, ReleaseLabels, Setup
<1>5. IdIsKnown' /\ IdMatches'
  BY DEF IdIsKnown, IdMatches, Setup, Using
<1>6. OneOwner'
  BY DEF OneOwner, ReleaseLabels, SetupLabels
<1>7. RecvOwned' /\ SendOwned'
  BY DEF RecvOwned, SendOwned, RecvLabels, SendLabels
<1>8. QED
  BY <1>1, <1>2, <1>3, <1>4, <1>5, <1>6, <1>7

\* A reset connection changes no reference.
LEMMA PeerResetInv ==
  ASSUME SessionInv, NEW k \in Keys, PeerReset(k)
  PROVE  SessionInv'
<1> USE DEF SessionInv, Goto, At, PeerReset,
            vars, countVars, stateVars, sendVars, kernelVars, serverVars, noticeVars, localVars
<1>1. TypeOK' /\ NoCrash'
  BY DEF TypeOK, NoCrash, Labels, IoStates
<1>2. RefsByLabel' /\ Roles'
  BY DEF RefsByLabel, Roles, HoldingLabels, Using, SetupLabels, CheckLabels
<1>3. CountIsHolders'
  BY KeepReferences DEF TypeOK, Labels, IoStates
<1>4. FlagMeansReleased' /\ DisconnectedMeansClosed'
  BY DEF FlagMeansReleased, DisconnectedMeansClosed, HoldingLabels, Using, SetupLabels,
         CheckLabels, ReleaseLabels, Setup
<1>5. IdIsKnown' /\ IdMatches'
  BY DEF IdIsKnown, IdMatches, Setup, Using
<1>6. OneOwner'
  BY DEF OneOwner, ReleaseLabels, SetupLabels
<1>7. RecvOwned' /\ SendOwned'
  BY ThreadsAssumption DEF TypeOK, RefsByLabel, Roles, FlagMeansReleased, DisconnectedMeansClosed,
         RecvOwned, SendOwned, Labels, IoStates, HoldingLabels, Using, SetupLabels, CheckLabels,
         ReleaseLabels, Setup, RecvLabels, SendLabels, Threads
<1>8. QED
  BY <1>1, <1>2, <1>3, <1>4, <1>5, <1>6, <1>7

\* Nothing holds the invariant back at the start: every key is unused, every thread idle.
LEMMA InvInit == Init => SessionInv
<1> SUFFICES ASSUME Init PROVE SessionInv
  OBVIOUS
<1> USE DEF Init
<1>1. TypeOK
  <2>1. sendQueue \in [Keys -> Seq(Packets)] /\ registered \in [Keys -> Seq(Packets)]
    BY EmptySeq
  <2>2. /\ ioCount \in [Keys -> Nat] /\ releaseFlag \in [Keys -> BOOLEAN]
        /\ ID \in [Keys -> IDs \cup {NoID}] /\ bDisconnected \in [Keys -> BOOLEAN]
        /\ bDisconnectRegistered \in [Keys -> BOOLEAN] /\ bSendFlag \in [Keys -> BOOLEAN]
        /\ conn \in [Keys -> {"none", "open", "reset"}]
        /\ recvIo \in [Keys -> IoStates] /\ sendIo \in [Keys -> IoStates \ {"zero"}]
    BY DEF IoStates
  <2>3. /\ pc \in [Threads -> Labels] /\ ses \in [Threads -> Keys \cup {NoKey}]
        /\ arg \in [Threads -> IDs \cup {NoID}] /\ op \in [Threads -> Ops \cup {"none"}]
        /\ pkt \in [Threads -> Packets \cup {NoPacket}] /\ refs \in [Threads -> 0 .. 2]
    BY DEF Labels
  <2>4. refCount \in [Packets -> Int]
    OBVIOUS
  <2>5. /\ unusedKeys \in SUBSET Keys /\ acceptedCount \in Nat /\ sessionCount \in Int
        /\ releaseNotices \subseteq IDs /\ issued \subseteq IDs /\ released \subseteq IDs
        /\ calls \in Nat /\ crashed \in BOOLEAN
    <3>1. /\ unusedKeys = Keys /\ acceptedCount = 0 /\ sessionCount = 0 /\ calls = 0
          /\ releaseNotices = {} /\ issued = {} /\ released = {} /\ crashed = FALSE
      BY Zenon
    <3> HIDE DEF Init
    <3>2. unusedKeys \in SUBSET Keys
      BY <3>1
    <3>3. acceptedCount \in Nat /\ sessionCount \in Int /\ calls \in Nat
      BY <3>1
    <3>4. releaseNotices \subseteq IDs /\ issued \subseteq IDs /\ released \subseteq IDs
      BY <3>1
    <3>5. crashed \in BOOLEAN
      BY <3>1
    <3>6. QED
      BY <3>2, <3>3, <3>4, <3>5
  <2> HIDE DEF Init
  <2>6. QED
    BY <2>1, <2>2, <2>3, <2>4, <2>5 DEF TypeOK
<1>2. RefsByLabel /\ Roles
  BY DEF RefsByLabel, Roles, HoldingLabels, Using, SetupLabels, CheckLabels
<1>3. CountIsHolders
  <2>1. \A k \in Keys : Holders(k) = {}
    BY DEF Holders
  <2>2. QED
    BY <2>1, FS_EmptySet DEF CountIsHolders
<1>4. FlagMeansReleased /\ DisconnectedMeansClosed
  BY DEF FlagMeansReleased, DisconnectedMeansClosed, HoldingLabels, Using, SetupLabels,
         CheckLabels, ReleaseLabels, Setup
<1>5. IdIsKnown /\ OneOwner /\ IdMatches
  BY DEF IdIsKnown, OneOwner, IdMatches, ReleaseLabels, SetupLabels, Setup, Using, Threads
<1>6. RecvOwned /\ SendOwned /\ NoCrash
  BY DEF RecvOwned, SendOwned, RecvLabels, SendLabels, NoCrash
<1>7. QED
  BY <1>1, <1>2, <1>3, <1>4, <1>5, <1>6 DEF SessionInv

\* A step that changes nothing keeps the invariant.
LEMMA StutterInv ==
  ASSUME SessionInv, UNCHANGED vars
  PROVE  SessionInv'
<1> USE DEF SessionInv, vars, countVars, stateVars, sendVars, kernelVars, serverVars, noticeVars,
            localVars
<1>1. TypeOK' /\ NoCrash'
  BY DEF TypeOK, NoCrash
<1>2. RefsByLabel' /\ Roles'
  BY DEF RefsByLabel, Roles
<1>3. CountIsHolders'
  BY KeepReferences DEF TypeOK
<1>4. FlagMeansReleased' /\ DisconnectedMeansClosed'
  BY DEF FlagMeansReleased, DisconnectedMeansClosed, Setup
<1>5. IdIsKnown' /\ IdMatches'
  BY DEF IdIsKnown, IdMatches, Setup
<1>6. OneOwner'
  BY DEF OneOwner
<1>7. RecvOwned' /\ SendOwned'
  BY DEF RecvOwned, SendOwned
<1>8. QED
  BY <1>1, <1>2, <1>3, <1>4, <1>5, <1>6, <1>7

\* Every step of a thread in the middle of its work keeps the invariant.
LEMMA ThreadStepInv ==
  ASSUME SessionInv, NEW t \in Threads, ThreadStep(t)
  PROVE  SessionInv'
<1>1. CASE t = Acceptor /\ AcceptStep
  BY <1>1, AcceptIncrementInv, InitClearFlagInv, InitIdInv, InitConnectedInv, InitBuffersInv,
     OnAcceptInv DEF AcceptStep
<1>2. CASE t \in Workers /\ CompletionStep(t)
  BY <1>2, SendDoneInv, SendAgainInv, ReceiveDoneInv DEF CompletionStep
<1>3. CASE ApiStep(t)
  BY <1>3, IncrementInv, CheckInv, ReadAddressInv, RegisterDisconnectInv, CancelIoInv,
     EnqueueInv, ReturnInv DEF ApiStep
<1>4. CASE PostStep(t)
  BY <1>4, PostRecvInv, PostSendInv, TakeSendFlagInv, RegisterPacketsInv, NothingToSendInv,
     CancelIfRegisteredInv, WSARecvInv, WSASendInv DEF PostStep
<1>5. CASE DecrementStep(t)
  BY <1>5, DecrementCasInv, DecrementSubInv, DecrementUndoInv, ReleaseCloseInv, ReleasePostInv,
     ReleasePushInv DEF DecrementStep
<1>6. QED
  BY <1>1, <1>2, <1>3, <1>4, <1>5 DEF ThreadStep

\* The invariant is inductive.
LEMMA InvNext == SessionInv /\ [Next]_vars => SessionInv'
<1> SUFFICES ASSUME SessionInv, [Next]_vars PROVE SessionInv'
  OBVIOUS
<1>1. CASE UNCHANGED vars
  BY <1>1, StutterInv
<1>2. ASSUME NEW k \in Keys, AcceptPop(k) \/ KernelStep(k) \/ PeerReset(k)
      PROVE  SessionInv'
  BY <1>2, AcceptPopInv, RecvCompletesInv, SendCompletesInv, PeerResetInv DEF KernelStep
<1>3. ASSUME NEW t \in AppThreads, NEW o \in Ops, NEW id \in issued,
             NEW p \in Packets \cup {NoPacket}, Call(t, o, id, p)
      PROVE  SessionInv'
  BY <1>3, CallInv
<1>4. ASSUME NEW t \in Threads, ThreadStep(t)
      PROVE  SessionInv'
  BY <1>4, ThreadStepInv
<1>5. ASSUME NEW w \in Workers, NEW k \in Keys, CompleteSend(w, k) \/ CompleteRecv(w, k)
      PROVE  SessionInv'
  BY <1>5, CompleteSendInv, CompleteRecvInv
<1>6. ASSUME NEW w \in Workers, NEW id \in releaseNotices, OnRelease(w, id)
      PROVE  SessionInv'
  BY <1>6, OnReleaseInv
<1>7. CASE Terminated
  BY <1>7, StutterInv DEF Terminated
<1>8. QED
  BY <1>1, <1>2, <1>3, <1>4, <1>5, <1>6, <1>7 DEF Next

\* The whole inductive invariant holds in every reachable state, for any number
\* of sessions, workers, application threads, packets, accepts and calls.
THEOREM SessionInvariant == Spec => []SessionInv
  BY InvInit, InvNext, PTL DEF Spec

\* Type correctness.
THEOREM TypeCorrect == Spec => []TypeOK
<1>1. SessionInv => TypeOK
  BY DEF SessionInv
<1>2. QED
  BY <1>1, SessionInvariant, PTL

\* IoCount counts exactly the references of threads and of outstanding I/O
\* (IncrementIoCount, DecrementIoCount, PostRecv, PostSend, iocpWorkerThread).
THEOREM CountCorrect == Spec => []CountIsHolders
<1>1. SessionInv => CountIsHolders
  BY DEF SessionInv
<1>2. QED
  BY <1>1, SessionInvariant, PTL

\* Nobody works on a released session, on a closed socket or on the wrong
\* connection (the guard of the session API against stale IDs).
THEOREM UseIsSafe == Spec => []NoUseAfterRelease
<1>1. SessionInv => NoUseAfterRelease
  BY DEF SessionInv, NoUseAfterRelease, FlagMeansReleased, DisconnectedMeansClosed, IdMatches,
         HoldingLabels
<1>2. QED
  BY <1>1, SessionInvariant, PTL

\* No ASSERT_LIVE fails and no CrashDump::Crash is reached.
THEOREM NeverCrashes == Spec => []NoCrash
<1>1. SessionInv => NoCrash
  BY DEF SessionInv
<1>2. QED
  BY <1>1, SessionInvariant, PTL

\* At most one WSARecv of a session is pending or being worked on, so RecvBuffer and
\* its OVERLAPPED, which have no lock, are used by one thread at a time.
THEOREM ReceiverIsAlone == Spec => []OneReceiver
<1>1. SessionInv => OneReceiver
  <2> SUFFICES ASSUME SessionInv, NEW k \in Keys
               PROVE  OneReceiver!(k)
    BY DEF OneReceiver
  <2> DEFINE busy   == { t \in Threads : ses[t] = k /\ pc[t] \in {"on_recv", "pr_chk", "pr_recv"} }
             posted == { h \in {"posted"} : recvIo[k] # "none" }
  <2>1. \A t \in busy : pc[t] \in RecvLabels /\ recvIo[k] = "none"
    BY DEF SessionInv, RecvOwned, RecvLabels
  <2>2. \A t, u \in busy : t = u
    BY <2>1 DEF SessionInv, RecvOwned
  <2>3. \A x, y \in busy \cup posted : x = y
    BY <2>1, <2>2
  <2> HIDE DEF busy, posted
  <2>4. Cardinality(busy \cup posted) <= 1
    BY <2>3, AtMostOne
  <2>5. QED
    BY <2>4 DEF busy, posted
<1>2. QED
  BY <1>1, SessionInvariant, PTL

----------------------------------------------------------------------------
(* Order: the second invariant.  The actions are taken in groups; each lemma  *)
(* has one step per conjunct.                                                *)

\* A reference more or none: a count above zero stays above zero.
LEMMA StaysPositive ==
  ASSUME NEW c \in [Keys -> Nat], NEW d, NEW i, d = c \/ d = [c EXCEPT ![i] = @ + 1]
  PROVE  \A k \in Keys : c[k] > 0 => d[k] > 0
<1> SUFFICES ASSUME NEW k \in Keys, c[k] > 0 PROVE d[k] > 0
  OBVIOUS
<1>1. d[k] = c[k] \/ d[k] = c[k] + 1
  OBVIOUS
<1>2. c[k] \in Nat
  OBVIOUS
<1> QED BY <1>1, <1>2

\* A step of thread t, outside the labels that own a key, that gives back no
\* reference leaves every key as it was.
LEMMA OwnedKeysKept ==
  ASSUME TypeOK, OwnedKeys, NEW t \in Threads,
         UNCHANGED <<releaseFlag, unusedKeys>>, \A k \in Keys : ioCount[k] > 0 => ioCount'[k] > 0,
         pc[t] \notin ReleaseLabels \cup {"dec_undo"},
         t = Acceptor => pc[t] \notin OwnerSetup \ {"on_accept"},
         \A u \in Threads \ {t} : pc'[u] = pc[u] /\ ses'[u] = ses[u]
  PROVE  OwnedKeys'
<1> SUFFICES ASSUME NEW k \in Keys
             PROVE  /\ releaseFlag[k] => Owned(k)'
                    /\ \/ Owned(k)' \/ ioCount'[k] > 0
                       \/ \E u \in Threads : ses'[u] = k /\ pc'[u] = "dec_undo"
  BY DEF OwnedKeys
<1>1. Owned(k) => Owned(k)'
  BY ThreadsAssumption DEF Owned, Setup, OwnerSetup, SetupLabels, Threads
<1>3. \A u \in Threads : ses[u] = k /\ pc[u] = "dec_undo" => ses'[u] = k /\ pc'[u] = "dec_undo"
  OBVIOUS
<1>4. ioCount[k] > 0 => ioCount'[k] > 0
  OBVIOUS
<1>5. Owned(k) \/ ioCount[k] > 0 \/ \E u \in Threads : ses[u] = k /\ pc[u] = "dec_undo"
  BY DEF OwnedKeys
<1>6. releaseFlag[k] => Owned(k)
  BY DEF OwnedKeys
<1> QED BY <1>1, <1>3, <1>4, <1>5, <1>6

\* Labels that LiveSlots speaks of.
LiveLabels == {"init_reg", "on_accept", "rel_post"}

\* A step that neither accepts nor releases leaves every ID as live as it was.
LEMMA LiveSlotsKept ==
  ASSUME LiveSlots, UNCHANGED <<ID, bDisconnected, releaseNotices, issued, released>>,
         \A u \in Threads : \/ pc'[u] = pc[u] /\ ses'[u] = ses[u]
                            \/ pc[u] \notin LiveLabels /\ pc'[u] \notin LiveLabels
  PROVE  LiveSlots'
<1>1. Live' = Live
  BY DEF Live
<1>2. \A k \in Keys : Setup(k, {"init_reg", "on_accept"}) <=> Setup(k, {"init_reg", "on_accept"})'
  BY DEF Setup, LiveLabels, Threads
<1>3. \A u \in Threads : \A k \in Keys : ses[u] = k /\ pc[u] = "rel_post" =>
        ses'[u] = k /\ pc'[u] = "rel_post"
  BY DEF LiveLabels
<1>4. \A u \in Threads : pc'[u] = "rel_post" => pc[u] = "rel_post" /\ ses'[u] = ses[u]
  BY DEF LiveLabels
<1>5. /\ releaseNotices' \cup released' \subseteq issued' /\ releaseNotices' \cap released' = {}
      /\ \A x \in Live' : ID'[x[1]] = x
  BY <1>1 DEF LiveSlots
<1>6. \A u \in Threads : pc'[u] = "rel_post" => ID'[ses'[u]] \in Live'
  BY <1>1, <1>4 DEF LiveSlots
<1>7. ASSUME NEW k \in Keys
      PROVE  /\ ID'[k] # NoID /\ ~bDisconnected'[k] =>
                  ID'[k] \in Live' \/ Setup(k, {"init_reg", "on_accept"})'
             /\ ID'[k] \in Live' =>
                  ~bDisconnected'[k] \/ \E u \in Threads : ses'[u] = k /\ pc'[u] = "rel_post"
  BY <1>1, <1>2, <1>3 DEF LiveSlots
<1> QED BY <1>5, <1>6, <1>7 DEF LiveSlots

----------------------------------------------------------------------------
\* A key is popped and an ID made for it that nobody has.
LEMMA AcceptPopOrder ==
  ASSUME SessionInv, OrderInv, NEW k \in Keys, AcceptPop(k)
  PROVE  OrderInv'
<1> USE ThreadsAssumption DEF SessionInv, OrderInv, TypeOK, Threads, Goto, At, vars,
       countVars, stateVars, sendVars, kernelVars, serverVars, noticeVars, localVars
<1>1. FreshIDs'
  BY DEF FreshIDs, AcceptPop, NewID, IDs
<1>2. SlotIDs'
  BY DEF SlotIDs, AcceptPop, NewID
<1>3. SetupAlone'
  BY DEF SetupAlone, Setup, AcceptPop, NewID
<1>4. LiveSlots'
  BY DEF LiveSlots, Live, Setup, AcceptPop, NewID
<1>5. RegisteredInv'
  BY DEF RegisteredInv, Setup, AcceptPop, NewID
<1>6. OwnedKeys'
  BY DEF Owned, OwnedKeys, Setup, ReleaseLabels, AcceptPop, NewID
<1> QED BY <1>1, <1>2, <1>3, <1>4, <1>5, <1>6 DEF OrderInv

\* Init: the accept thread is alone with the key.
LEMMA SetupOrder ==
  ASSUME SessionInv, OrderInv,
         \/ AcceptIncrement
         \/ InitClearFlag
         \/ InitId
         \/ InitConnected
         \/ InitBuffers
  PROVE  OrderInv'
<1> USE ThreadsAssumption DEF SessionInv, OrderInv, TypeOK, Threads, Goto, At, vars,
       countVars, stateVars, sendVars, kernelVars, serverVars, noticeVars, localVars
<1>1. FreshIDs'
  BY DEF FreshIDs, SetupLabels, OwnerSetup, AcceptIncrement, InitClearFlag, InitId,
         InitConnected, InitBuffers
<1>2. SlotIDs'
  BY DEF SlotIDs, Roles, SetupLabels, AcceptIncrement, InitClearFlag, InitId, InitConnected,
         InitBuffers
<1>3. SetupAlone'
  BY DEF SetupAlone, DisconnectedMeansClosed, Setup, AcceptIncrement, InitClearFlag, InitId,
         InitConnected, InitBuffers
<1>4. LiveSlots'
  <2>1. CASE AcceptIncrement
    BY <2>1 DEF LiveSlots, Live, Setup, AcceptIncrement
  <2>2. CASE InitClearFlag
    BY <2>2 DEF LiveSlots, Live, Setup, InitClearFlag
  <2>3. CASE InitId
    BY <2>3 DEF LiveSlots, Live, FreshIDs, DisconnectedMeansClosed, OneOwner, Setup,
           SetupLabels, OwnerSetup, ReleaseLabels, InitId
  <2>4. CASE InitConnected
    BY <2>4 DEF LiveSlots, Live, Setup, InitConnected
  <2>5. CASE InitBuffers
    BY <2>5 DEF LiveSlots, Live, Setup, InitBuffers
  <2> QED BY <2>1, <2>2, <2>3, <2>4, <2>5
<1>5. RegisteredInv'
  <2>1. CASE AcceptIncrement
    BY <2>1 DEF RegisteredInv, Setup, AcceptIncrement
  <2>2. CASE InitClearFlag
    BY <2>2 DEF RegisteredInv, Setup, InitClearFlag
  <2>3. CASE InitId
    BY <2>3 DEF RegisteredInv, Setup, InitId
  <2>4. CASE InitConnected
    BY <2>4 DEF RegisteredInv, Setup, InitConnected
  <2>5. CASE InitBuffers
    <3> DEFINE j == ses[Acceptor]
    <3>1. j \in Keys /\ sendIo[j] = "none" /\ \A t \in Threads : ses[t] = j => pc'[t] \notin Using
      BY <2>5 DEF InitBuffers, Roles, SetupAlone, Setup, Using
    <3>2. registered' = [registered EXCEPT ![j] = <<>>]
              /\ UNCHANGED <<sendIo, bSendFlag, bDisconnected, ses>>
      BY <2>5 DEF InitBuffers
    <3>3. /\ \A k \in Keys \ {j} : Setup(k, {"init_reg"})' <=> Setup(k, {"init_reg"})
          /\ \A t \in Threads \ {Acceptor} : pc'[t] = pc[t]
          /\ pc'[Acceptor] = "on_accept"
      BY <2>5 DEF InitBuffers, Setup
    <3>4. ASSUME NEW k \in Keys
          PROVE  /\ Len(registered'[k]) <= MaxWsaBuf
                 /\ sendIo'[k] # "none" => registered'[k] # <<>>
                 /\ ~bSendFlag'[k] /\ ~bDisconnected'[k] =>
                      registered'[k] = <<>> \/ Setup(k, {"init_reg"})'
      BY <3>1, <3>2, <3>3, BoundsAssumption DEF RegisteredInv
    <3>5. ASSUME NEW t \in Threads, pc'[t] \in {"ps_send", "ps_recount", "ps_unflag", "s_unflag"}
          PROVE  ses[t] # j /\ t # Acceptor
      BY <3>1, <3>3, <3>5 DEF Using
    <3>6. ASSUME NEW t \in Threads, pc'[t] \in {"ps_send", "ps_recount", "ps_unflag", "s_unflag"}
          PROVE  pc'[t] = pc[t] /\ registered'[ses'[t]] = registered[ses[t]]
      BY <3>2, <3>3, <3>5, <3>6 DEF Roles
    <3> QED BY <3>4, <3>6 DEF RegisteredInv
  <2> QED BY <2>1, <2>2, <2>3, <2>4, <2>5
<1>6. OwnedKeys'
  <2>1. CASE AcceptIncrement
    <3>1. \A k \in Keys : Owned(k) => Owned(k)'
      BY <2>1 DEF Owned, Setup, ReleaseLabels, AcceptIncrement
    <3>2. \A k \in Keys : ioCount[k] > 0 => ioCount'[k] > 0
      BY <2>1, StaysPositive DEF AcceptIncrement
    <3>3. /\ \A k \in Keys : releaseFlag'[k] => releaseFlag[k]
          /\ \A u \in Threads : pc[u] = "dec_undo" => pc'[u] = "dec_undo" /\ ses'[u] = ses[u]
      BY <2>1 DEF AcceptIncrement
    <3> QED BY <3>1, <3>2, <3>3 DEF OwnedKeys
  <2>2. CASE InitClearFlag
    <3>1. \A k \in Keys : Owned(k) => Owned(k)'
      BY <2>2 DEF Owned, Setup, ReleaseLabels, InitClearFlag
    <3>2. \A k \in Keys : ioCount[k] > 0 => ioCount'[k] > 0
      BY <2>2 DEF InitClearFlag
    <3>3. /\ \A k \in Keys : releaseFlag'[k] => releaseFlag[k]
          /\ \A u \in Threads : pc[u] = "dec_undo" => pc'[u] = "dec_undo" /\ ses'[u] = ses[u]
      BY <2>2 DEF InitClearFlag
    <3> QED BY <3>1, <3>2, <3>3 DEF OwnedKeys
  <2>3. CASE InitId
    BY <2>3 DEF Owned, OwnedKeys, Setup, InitId
  <2>4. CASE InitConnected
    BY <2>4 DEF Owned, OwnedKeys, Setup, InitConnected
  <2>5. CASE InitBuffers
    <3> DEFINE j == ses[Acceptor]
    <3>1. j \in Keys /\ refs[Acceptor] = 1 /\ ~releaseFlag[j]
      BY <2>5 DEF InitBuffers, Roles, RefsByLabel, FlagMeansReleased, HoldingLabels,
             SetupLabels
    <3>2. ioCount[j] > 0
      <4>1. <<Acceptor, 1>> \in Holders(j)
        BY <3>1 DEF Holders
      <4> QED BY <3>1, <4>1, HeldIsCounted
    <3>3. ASSUME NEW k \in Keys, k # j
          PROVE  Owned(k) <=> Owned(k)'
      BY <2>5, <3>3 DEF Owned, Setup, InitBuffers, ReleaseLabels
    <3>4. \A u \in Threads : pc[u] = "dec_undo" => pc'[u] = "dec_undo"
      BY <2>5 DEF InitBuffers
    <3> QED BY <2>5, <3>1, <3>2, <3>3, <3>4 DEF OwnedKeys, InitBuffers
  <2> QED BY <2>1, <2>2, <2>3, <2>4, <2>5
<1> QED BY <1>1, <1>2, <1>3, <1>4, <1>5, <1>6 DEF OrderInv

\* The ID becomes known: from here on it is live.
LEMMA OnAcceptOrder ==
  ASSUME SessionInv, OrderInv, OnAccept
  PROVE  OrderInv'
<1> USE ThreadsAssumption DEF SessionInv, OrderInv, TypeOK, Threads, Goto, At, vars,
       countVars, stateVars, sendVars, kernelVars, serverVars, noticeVars, localVars
<1>1. FreshIDs'
  BY DEF FreshIDs, IdMatches, SetupLabels, OwnerSetup, OnAccept
<1>2. SlotIDs'
  BY DEF SlotIDs, OnAccept
<1>3. SetupAlone'
  BY DEF SetupAlone, Setup, OnAccept
<1>4. LiveSlots'
  <2> DEFINE j == ses[Acceptor]
             id == ID[j]
  <2>1. /\ j \in Keys /\ id = arg[Acceptor] /\ id \in IDs /\ id[1] = j /\ id \notin issued
        /\ ~bDisconnected[j] /\ j \notin unusedKeys
    BY DEF OnAccept, Roles, IdMatches, FreshIDs, DisconnectedMeansClosed, SetupLabels,
           OwnerSetup
  <2>2. Live' = Live \cup {id} /\ UNCHANGED <<ID, bDisconnected, ses, releaseNotices, released>>
    BY <2>1 DEF OnAccept, LiveSlots, Live
  <2>3. /\ pc' = [pc EXCEPT ![Acceptor] = "pr_chk"] /\ issued' = issued \cup {id}
           /\ pc[Acceptor] = "on_accept"
    BY DEF OnAccept
  <2>4. \A k \in Keys \ {j} : Setup(k, {"init_reg", "on_accept"})' <=>
          Setup(k, {"init_reg", "on_accept"})
    BY <2>2, <2>3 DEF Setup
  <2>5. /\ releaseNotices' \cup released' \subseteq issued' /\ releaseNotices' \cap released' = {}
        /\ \A x \in Live' : ID'[x[1]] = x
    BY <2>1, <2>2, <2>3 DEF LiveSlots
  <2>6. \A t \in Threads : pc'[t] = "rel_post" => ID'[ses'[t]] \in Live'
    BY <2>2, <2>3 DEF LiveSlots
  <2>7. ASSUME NEW k \in Keys
        PROVE  /\ ID'[k] # NoID /\ ~bDisconnected'[k] =>
                    ID'[k] \in Live' \/ Setup(k, {"init_reg", "on_accept"})'
               /\ ID'[k] \in Live' =>
                    ~bDisconnected'[k] \/ \E t \in Threads : ses'[t] = k /\ pc'[t] = "rel_post"
    <3>1. CASE k = j
      BY <3>1, <2>1, <2>2
    <3>2. CASE k # j
      <4>1. ID[k] # id
        BY <3>2, <2>1, NoIDAssumption DEF SlotIDs
      <4>2. \A u \in Threads : ses[u] = k /\ pc[u] = "rel_post" =>
              ses'[u] = k /\ pc'[u] = "rel_post"
        BY <2>2, <2>3
      <4> QED BY <3>2, <4>1, <4>2, <2>2, <2>4 DEF LiveSlots
    <3> QED BY <3>1, <3>2
  <2> QED BY <2>5, <2>6, <2>7 DEF LiveSlots
<1>5. RegisteredInv'
  BY DEF RegisteredInv, Setup, OnAccept
<1>6. OwnedKeys'
  <2>1. /\ UNCHANGED <<releaseFlag, unusedKeys>>
        /\ ioCount' = ioCount \/ ioCount' = [ioCount EXCEPT ![ses[Acceptor]] = @ + 1]
        /\ pc[Acceptor] \notin ReleaseLabels \cup {"dec_undo"}
        /\ Acceptor = Acceptor => pc[Acceptor] \notin OwnerSetup \ {"on_accept"}
        /\ \A u \in Threads \ {Acceptor} : pc'[u] = pc[u] /\ ses'[u] = ses[u]
    BY DEF Roles, ReleaseLabels, OnAccept
  <2>2. \A j \in Keys : ioCount[j] > 0 => ioCount'[j] > 0
    BY <2>1, StaysPositive
  <2> QED BY <2>1, <2>2, OwnedKeysKept DEF Threads
<1> QED BY <1>1, <1>2, <1>3, <1>4, <1>5, <1>6 DEF OrderInv

\* The application calls with an ID it was told of.
LEMMA CallOrder ==
  ASSUME SessionInv, OrderInv, NEW t \in AppThreads, NEW o \in Ops, NEW id \in issued,
         NEW p \in Packets \cup {NoPacket}, Call(t, o, id, p)
  PROVE  OrderInv'
<1> USE ThreadsAssumption DEF SessionInv, OrderInv, TypeOK, Threads, Goto, At, vars,
       countVars, stateVars, sendVars, kernelVars, serverVars, noticeVars, localVars
<1>1. FreshIDs'
  BY DEF FreshIDs, Call
<1>2. SlotIDs'
  BY DEF SlotIDs, Call
<1>3. SetupAlone'
  BY DEF SetupAlone, Setup, Using, Call
<1>4. LiveSlots'
  BY DEF LiveSlots, Live, Setup, Call
<1>5. RegisteredInv'
  BY DEF RegisteredInv, Setup, Call
<1>6. OwnedKeys'
  <2>1. /\ UNCHANGED <<releaseFlag, unusedKeys>>
        /\ ioCount' = ioCount \/ ioCount' = [ioCount EXCEPT ![ses[t]] = @ + 1]
        /\ pc[t] \notin ReleaseLabels \cup {"dec_undo"}
        /\ t = Acceptor => pc[t] \notin OwnerSetup \ {"on_accept"}
        /\ \A u \in Threads \ {t} : pc'[u] = pc[u] /\ ses'[u] = ses[u]
    BY DEF Roles, ReleaseLabels, Call
  <2>2. \A j \in Keys : ioCount[j] > 0 => ioCount'[j] > 0
    BY <2>1, StaysPositive
  <2> QED BY <2>1, <2>2, OwnedKeysKept DEF Threads
<1> QED BY <1>1, <1>2, <1>3, <1>4, <1>5, <1>6 DEF OrderInv

\* The session API, its checks apart.
LEMMA ApiOrder ==
  ASSUME SessionInv, OrderInv, NEW t \in Threads,
         \/ Increment(t)
         \/ ReadAddress(t)
         \/ RegisterDisconnect(t)
         \/ CancelIo(t)
         \/ Enqueue(t)
         \/ Return(t)
  PROVE  OrderInv'
<1> USE ThreadsAssumption DEF SessionInv, OrderInv, TypeOK, Threads, Goto, At, vars,
       countVars, stateVars, sendVars, kernelVars, serverVars, noticeVars, localVars
<1>1. FreshIDs'
  <2>1. CASE Increment(t)
    BY <2>1 DEF FreshIDs, SetupLabels, OwnerSetup, Increment, IsReleased
  <2>2. CASE ReadAddress(t)
    BY <2>2 DEF FreshIDs, SetupLabels, OwnerSetup, ReadAddress, Jump
  <2>3. CASE RegisterDisconnect(t)
    BY <2>3 DEF FreshIDs, SetupLabels, OwnerSetup, RegisterDisconnect
  <2>4. CASE CancelIo(t)
    BY <2>4 DEF FreshIDs, SetupLabels, OwnerSetup, CancelIo, CancelIoEx, Cancelled
  <2>5. CASE Enqueue(t)
    BY <2>5 DEF FreshIDs, SetupLabels, OwnerSetup, Enqueue
  <2>6. CASE Return(t)
    BY <2>6 DEF FreshIDs, SetupLabels, OwnerSetup, Return
  <2> QED BY <2>1, <2>2, <2>3, <2>4, <2>5, <2>6
<1>2. SlotIDs'
  BY DEF SlotIDs, Increment, IsReleased, ReadAddress, Jump, RegisterDisconnect, CancelIo,
         CancelIoEx, Cancelled, Enqueue, Return
<1>3. SetupAlone'
  <2>1. CASE Increment(t)
    BY <2>1 DEF SetupAlone, Setup, Using, Increment, IsReleased
  <2>2. CASE ReadAddress(t)
    BY <2>2 DEF SetupAlone, Setup, Using, ReadAddress, Jump
  <2>3. CASE RegisterDisconnect(t)
    BY <2>3 DEF SetupAlone, Setup, Using, RegisterDisconnect
  <2>4. CASE CancelIo(t)
    BY <2>4 DEF SetupAlone, Setup, Using, CancelIo, CancelIoEx, Cancelled
  <2>5. CASE Enqueue(t)
    BY <2>5 DEF SetupAlone, Setup, Using, Enqueue
  <2>6. CASE Return(t)
    BY <2>6 DEF SetupAlone, Setup, Using, Return
  <2> QED BY <2>1, <2>2, <2>3, <2>4, <2>5, <2>6
<1>4. LiveSlots'
  <2>1. /\ UNCHANGED <<ID, bDisconnected, releaseNotices, issued, released>>
        /\ \A u \in Threads : \/ pc'[u] = pc[u] /\ ses'[u] = ses[u]
                              \/ pc[u] \notin LiveLabels /\ pc'[u] \notin LiveLabels
    BY DEF LiveLabels, Increment, IsReleased, ReadAddress, Jump, RegisterDisconnect,
           CancelIo, CancelIoEx, Cancelled, Enqueue, Return
  <2> QED BY <2>1, LiveSlotsKept
<1>5. RegisteredInv'
  <2>1. CASE Increment(t)
    BY <2>1 DEF RegisteredInv, Setup, Increment, IsReleased
  <2>2. CASE ReadAddress(t)
    BY <2>2 DEF RegisteredInv, Setup, ReadAddress, Jump
  <2>3. CASE RegisterDisconnect(t)
    BY <2>3 DEF RegisteredInv, Setup, RegisterDisconnect
  <2>4. CASE CancelIo(t)
    BY <2>4 DEF RegisteredInv, Setup, CancelIo, CancelIoEx, Cancelled
  <2>5. CASE Enqueue(t)
    BY <2>5 DEF RegisteredInv, Setup, Enqueue
  <2>6. CASE Return(t)
    BY <2>6 DEF RegisteredInv, Setup, Return
  <2> QED BY <2>1, <2>2, <2>3, <2>4, <2>5, <2>6
<1>6. OwnedKeys'
  <2>1. /\ UNCHANGED <<releaseFlag, unusedKeys>>
        /\ ioCount' = ioCount \/ ioCount' = [ioCount EXCEPT ![ses[t]] = @ + 1]
        /\ pc[t] \notin ReleaseLabels \cup {"dec_undo"}
        /\ t = Acceptor => pc[t] \notin OwnerSetup \ {"on_accept"}
        /\ \A u \in Threads \ {t} : pc'[u] = pc[u] /\ ses'[u] = ses[u]
    BY DEF Roles, OwnerSetup, SetupLabels, ReleaseLabels, Increment, IsReleased,
           ReadAddress, Jump, RegisterDisconnect, CancelIo, CancelIoEx, Cancelled, Enqueue,
           Return
  <2>2. \A j \in Keys : ioCount[j] > 0 => ioCount'[j] > 0
    BY <2>1, StaysPositive
  <2> QED BY <2>1, <2>2, OwnedKeysKept DEF Threads
<1> QED BY <1>1, <1>2, <1>3, <1>4, <1>5, <1>6 DEF OrderInv

\* A call gets past the checks only on the session it was called for, never on one
\* that is still being set up: its ID is not known yet.
LEMMA CheckOrder ==
  ASSUME SessionInv, OrderInv, NEW t \in Threads, Check(t)
  PROVE  OrderInv'
<1> USE ThreadsAssumption DEF SessionInv, OrderInv, TypeOK, Threads, Goto, At, vars,
       countVars, stateVars, sendVars, kernelVars, serverVars, noticeVars, localVars
<1>a. PICK l \in {"dec_cas", "chk_reg", "chk_id", "enqueue", "read_addr", "set_reg"} :
        /\ pc' = [pc EXCEPT ![t] = l]
        /\ l \in {"enqueue", "read_addr", "set_reg"} => ID[ses[t]] = arg[t]
  BY DEF Check, CheckFails, AfterChecks, Jump
<1>b. /\ pc[t] \in CheckLabels /\ t \in AppThreads /\ t # Acceptor /\ ses[t] \in Keys
      /\ UNCHANGED <<countVars, stateVars, sendVars, kernelVars, serverVars, noticeVars, localVars>>
  BY DEF Check, Jump, Roles, CheckLabels
<1>c. pc'[t] = l /\ \A u \in Threads \ {t} : pc'[u] = pc[u]
  BY <1>a
<1>1. FreshIDs'
  BY <1>a, <1>b, <1>c DEF FreshIDs, CheckLabels
<1>2. SlotIDs'
  BY <1>a, <1>b, <1>c DEF SlotIDs
<1>3. SetupAlone'
  BY <1>a, <1>b, <1>c DEF SetupAlone, FreshIDs, IdMatches, Setup, SetupLabels, OwnerSetup,
         Using, CheckLabels
<1>4. LiveSlots'
  BY <1>a, <1>b, <1>c, LiveSlotsKept DEF LiveLabels, CheckLabels
<1>5. RegisteredInv'
  BY <1>a, <1>b, <1>c DEF RegisteredInv, Setup
<1>6. OwnedKeys'
  <2>1. /\ UNCHANGED <<releaseFlag, unusedKeys>>
        /\ \A j \in Keys : ioCount[j] > 0 => ioCount'[j] > 0
        /\ pc[t] \notin ReleaseLabels \cup {"dec_undo"}
        /\ \A u \in Threads \ {t} : pc'[u] = pc[u] /\ ses'[u] = ses[u]
    BY <1>b, <1>c DEF CheckLabels, ReleaseLabels
  <2> QED BY <1>b, <2>1, OwnedKeysKept
<1> QED BY <1>1, <1>2, <1>3, <1>4, <1>5, <1>6 DEF OrderInv

\* PostRecv and PostSend up to the kernel call.
LEMMA PostOrder ==
  ASSUME SessionInv, OrderInv, NEW t \in Threads,
         \/ PostRecv(t)
         \/ PostSend(t)
         \/ TakeSendFlag(t)
         \/ NothingToSend(t)
         \/ CancelIfRegistered(t)
  PROVE  OrderInv'
<1> USE ThreadsAssumption DEF SessionInv, OrderInv, TypeOK, Threads, Goto, At, vars,
       countVars, stateVars, sendVars, kernelVars, serverVars, noticeVars, localVars
<1>1. FreshIDs'
  BY DEF FreshIDs, SetupLabels, OwnerSetup, PostRecv, Jump, NoNewIo, PostSend, TakeSendFlag,
         SendFlagTaken, NothingToSend, DropSendFlag, AssertLive, CancelIfRegistered,
         CancelIoEx, Cancelled
<1>2. SlotIDs'
  BY DEF SlotIDs, PostRecv, Jump, NoNewIo, PostSend, TakeSendFlag, SendFlagTaken,
         NothingToSend, DropSendFlag, AssertLive, CancelIfRegistered, CancelIoEx, Cancelled
<1>3. SetupAlone'
  BY DEF SetupAlone, Setup, Using, PostRecv, Jump, NoNewIo, PostSend, TakeSendFlag,
         SendFlagTaken, NothingToSend, DropSendFlag, AssertLive, CancelIfRegistered,
         CancelIoEx, Cancelled
<1>4. LiveSlots'
  <2>1. /\ UNCHANGED <<ID, bDisconnected, releaseNotices, issued, released>>
        /\ \A u \in Threads : \/ pc'[u] = pc[u] /\ ses'[u] = ses[u]
                              \/ pc[u] \notin LiveLabels /\ pc'[u] \notin LiveLabels
    BY DEF LiveLabels, PostRecv, Jump, NoNewIo, PostSend, TakeSendFlag, SendFlagTaken,
           NothingToSend, DropSendFlag, AssertLive, CancelIfRegistered, CancelIoEx,
           Cancelled
  <2> QED BY <2>1, LiveSlotsKept
<1>5. RegisteredInv'
  <2>1. CASE PostRecv(t)
    BY <2>1 DEF RegisteredInv, Setup, PostRecv, Jump, NoNewIo
  <2>2. CASE PostSend(t)
    BY <2>2 DEF RegisteredInv, Setup, PostSend, Jump, NoNewIo
  <2>3. CASE TakeSendFlag(t)
    BY <2>3 DEF RegisteredInv, SetupAlone, Roles, DisconnectedMeansClosed, Setup, Using,
           TakeSendFlag, SendFlagTaken
  <2>4. CASE NothingToSend(t)
    BY <2>4 DEF RegisteredInv, Setup, NothingToSend, DropSendFlag, AssertLive
  <2>5. CASE CancelIfRegistered(t)
    BY <2>5 DEF RegisteredInv, Setup, CancelIfRegistered, CancelIoEx, Cancelled
  <2> QED BY <2>1, <2>2, <2>3, <2>4, <2>5
<1>6. OwnedKeys'
  <2>1. /\ UNCHANGED <<releaseFlag, unusedKeys>>
        /\ ioCount' = ioCount \/ ioCount' = [ioCount EXCEPT ![ses[t]] = @ + 1]
        /\ pc[t] \notin ReleaseLabels \cup {"dec_undo"}
        /\ t = Acceptor => pc[t] \notin OwnerSetup \ {"on_accept"}
        /\ \A u \in Threads \ {t} : pc'[u] = pc[u] /\ ses'[u] = ses[u]
    BY DEF Roles, OwnerSetup, SetupLabels, ReleaseLabels, PostRecv, Jump, NoNewIo, PostSend,
           TakeSendFlag, SendFlagTaken, NothingToSend, DropSendFlag, AssertLive,
           CancelIfRegistered, CancelIoEx, Cancelled
  <2>2. \A j \in Keys : ioCount[j] > 0 => ioCount'[j] > 0
    BY <2>1, StaysPositive
  <2> QED BY <2>1, <2>2, OwnedKeysKept DEF Threads
<1> QED BY <1>1, <1>2, <1>3, <1>4, <1>5, <1>6 DEF OrderInv

\* At most MAX_WSA_BUF_COUNT packets go from the queue to the empty array.
LEMMA RegisterPacketsOrder ==
  ASSUME SessionInv, OrderInv, NEW t \in Threads, RegisterPackets(t)
  PROVE  OrderInv'
<1> USE ThreadsAssumption DEF SessionInv, OrderInv, TypeOK, Threads, Goto, At, vars,
       countVars, stateVars, sendVars, kernelVars, serverVars, noticeVars, localVars
<1>1. FreshIDs'
  BY DEF FreshIDs, SetupLabels, OwnerSetup, RegisterPackets, SendBatch
<1>2. SlotIDs'
  BY DEF SlotIDs, RegisterPackets, SendBatch
<1>3. SetupAlone'
  BY DEF SetupAlone, Setup, Using, RegisterPackets, SendBatch
<1>4. LiveSlots'
  BY DEF LiveSlots, Live, Setup, RegisterPackets, SendBatch
<1>5. RegisteredInv'
  <2> DEFINE j == ses[t]
             n == SendBatch(sendQueue[j])
  <2>1. j \in Keys /\ pc[t] = "ps_recount" /\ registered[j] = <<>> /\ sendQueue[j] \in Seq(Packets)
    BY DEF RegisterPackets, Roles, RegisteredInv
  <2>2. n \in 0 .. Len(sendQueue[j]) /\ n <= MaxWsaBuf
    BY <2>1, SendBatchType, BoundsAssumption DEF SendBatch
  <2>3. /\ registered' = [registered EXCEPT ![j] = registered[j] \o SubSeq(sendQueue[j], 1, n)]
        /\ pc' = [pc EXCEPT ![t] = IF n = 0 THEN "ps_unflag" ELSE "ps_send"]
        /\ UNCHANGED <<ses, sendIo, bSendFlag, bDisconnected>>
    BY DEF RegisterPackets
  <2>4. /\ registered'[j] \in Seq(Packets) /\ Len(registered'[j]) = n
        /\ n = 0 <=> registered'[j] = <<>>
    <3>1. SubSeq(sendQueue[j], 1, n) \in Seq(Packets) /\ Len(SubSeq(sendQueue[j], 1, n)) = n
      <4> HIDE DEF n
      <4> QED BY <2>1, <2>2
    <3>2. registered'[j] = SubSeq(sendQueue[j], 1, n)
      <4>1. registered[j] \o SubSeq(sendQueue[j], 1, n) = SubSeq(sendQueue[j], 1, n)
        BY <2>1, <3>1
      <4> QED BY <2>1, <2>3, <4>1
    <3>3. \A q \in Seq(Packets) : Len(q) = 0 <=> q = <<>>
      OBVIOUS
    <3> HIDE DEF n
    <3> QED BY <3>1, <3>2, <3>3
  <2>5. bSendFlag[j] /\ sendIo[j] = "none"
    BY <2>1 DEF SendOwned, SendLabels
  <2>6. \A u \in Threads \ {t} : ses[u] = j => pc[u] \notin SendLabels
    BY <2>1 DEF SendOwned, SendLabels
  <2> HIDE DEF n
  <2>7. ASSUME NEW k \in Keys
        PROVE  /\ Len(registered'[k]) <= MaxWsaBuf
               /\ sendIo'[k] # "none" => registered'[k] # <<>>
               /\ ~bSendFlag'[k] /\ ~bDisconnected'[k] =>
                    registered'[k] = <<>> \/ Setup(k, {"init_reg"})'
    <3>1. CASE k = j
      BY <3>1, <2>2, <2>3, <2>4, <2>5
    <3>2. CASE k # j
      BY <3>2, <2>1, <2>3 DEF RegisteredInv, Setup
    <3> QED BY <3>1, <3>2
  <2>8. ASSUME NEW u \in Threads
        PROVE  /\ pc'[u] = "ps_send" => registered'[ses'[u]] # <<>>
               /\ pc'[u] \in {"ps_recount", "ps_unflag", "s_unflag"} => registered'[ses'[u]] = <<>>
    <3>1. CASE u = t
      BY <3>1, <2>2, <2>3, <2>4
    <3>2. CASE u # t
      BY <3>2, <2>3, <2>6 DEF RegisteredInv, SendLabels, Roles
    <3> QED BY <3>1, <3>2
  <2> QED BY <2>7, <2>8 DEF RegisteredInv
<1>6. OwnedKeys'
  <2>1. /\ UNCHANGED <<releaseFlag, unusedKeys>>
        /\ ioCount' = ioCount \/ ioCount' = [ioCount EXCEPT ![ses[t]] = @ + 1]
        /\ pc[t] \notin ReleaseLabels \cup {"dec_undo"}
        /\ t = Acceptor => pc[t] \notin OwnerSetup \ {"on_accept"}
        /\ \A u \in Threads \ {t} : pc'[u] = pc[u] /\ ses'[u] = ses[u]
    BY DEF Roles, OwnerSetup, SetupLabels, ReleaseLabels, RegisterPackets, SendBatch
  <2>2. \A j \in Keys : ioCount[j] > 0 => ioCount'[j] > 0
    BY <2>1, StaysPositive
  <2> QED BY <2>1, <2>2, OwnedKeysKept DEF Threads
<1> QED BY <1>1, <1>2, <1>3, <1>4, <1>5, <1>6 DEF OrderInv

\* WSARecv and WSASend.
LEMMA SubmitOrder ==
  ASSUME SessionInv, OrderInv, NEW t \in Threads, NEW result,
         WSARecv(t, result) \/ WSASend(t, result)
  PROVE  OrderInv'
<1> USE ThreadsAssumption DEF SessionInv, OrderInv, TypeOK, Threads, Goto, At, vars,
       countVars, stateVars, sendVars, kernelVars, serverVars, noticeVars, localVars
<1>1. FreshIDs'
  BY DEF FreshIDs, SetupLabels, OwnerSetup, WSARecv, Submit, AssertLive, WSASend
<1>2. SlotIDs'
  BY DEF SlotIDs, WSARecv, Submit, AssertLive, WSASend
<1>3. SetupAlone'
  BY DEF SetupAlone, Setup, Using, WSARecv, Submit, AssertLive, WSASend
<1>4. LiveSlots'
  <2>1. /\ UNCHANGED <<ID, bDisconnected, releaseNotices, issued, released>>
        /\ \A u \in Threads : \/ pc'[u] = pc[u] /\ ses'[u] = ses[u]
                              \/ pc[u] \notin LiveLabels /\ pc'[u] \notin LiveLabels
    BY DEF LiveLabels, WSARecv, Submit, AssertLive, WSASend
  <2> QED BY <2>1, LiveSlotsKept
<1>5. RegisteredInv'
  <2>1. CASE WSARecv(t, result)
    BY <2>1 DEF RegisteredInv, Setup, WSARecv, Submit, AssertLive
  <2>2. CASE WSASend(t, result)
    BY <2>2 DEF RegisteredInv, Setup, WSASend, Submit, AssertLive
  <2> QED BY <2>1, <2>2
<1>6. OwnedKeys'
  <2>1. /\ UNCHANGED <<releaseFlag, unusedKeys>>
        /\ ioCount' = ioCount \/ ioCount' = [ioCount EXCEPT ![ses[t]] = @ + 1]
        /\ pc[t] \notin ReleaseLabels \cup {"dec_undo"}
        /\ t = Acceptor => pc[t] \notin OwnerSetup \ {"on_accept"}
        /\ \A u \in Threads \ {t} : pc'[u] = pc[u] /\ ses'[u] = ses[u]
    BY DEF Roles, OwnerSetup, SetupLabels, ReleaseLabels, WSARecv, Submit, AssertLive,
           WSASend
  <2>2. \A j \in Keys : ioCount[j] > 0 => ioCount'[j] > 0
    BY <2>1, StaysPositive
  <2> QED BY <2>1, <2>2, OwnedKeysKept DEF Threads
<1> QED BY <1>1, <1>2, <1>3, <1>4, <1>5, <1>6 DEF OrderInv

\* The last reference is given back, the socket closed and the key pushed.
LEMMA ReleaseOrder ==
  ASSUME SessionInv, OrderInv, NEW t \in Threads,
         \/ DecrementCas(t)
         \/ DecrementUndo(t)
         \/ ReleaseClose(t)
         \/ ReleasePush(t)
  PROVE  OrderInv'
<1> USE ThreadsAssumption DEF SessionInv, OrderInv, TypeOK, Threads, Goto, At, vars,
       countVars, stateVars, sendVars, kernelVars, serverVars, noticeVars, localVars
<1>1. FreshIDs'
  BY DEF FreshIDs, SetupLabels, OwnerSetup, DecrementCas, IsLastReference, DecrementUndo,
         ReleaseClose, AssertLive, ReleasePush
<1>2. SlotIDs'
  BY DEF SlotIDs, DecrementCas, IsLastReference, DecrementUndo, ReleaseClose, AssertLive,
         ReleasePush
<1>3. SetupAlone'
  <2>1. CASE DecrementCas(t)
    BY <2>1 DEF SetupAlone, Setup, Using, DecrementCas, IsLastReference
  <2>2. CASE DecrementUndo(t)
    BY <2>2 DEF SetupAlone, Setup, Using, DecrementUndo
  <2>3. CASE ReleaseClose(t)
    BY <2>3 DEF SetupAlone, Setup, Using, ReleaseClose, AssertLive
  <2>4. CASE ReleasePush(t)
    BY <2>4 DEF SetupAlone, Setup, Using, ReleasePush
  <2> QED BY <2>1, <2>2, <2>3, <2>4
<1>4. LiveSlots'
  <2>1. CASE DecrementCas(t)
    BY <2>1 DEF LiveSlots, Live, DisconnectedMeansClosed, OneOwner, IdMatches, Setup,
           DecrementCas, IsLastReference
  <2>2. CASE DecrementUndo(t)
    BY <2>2 DEF LiveSlots, Live, Setup, DecrementUndo
  <2>3. CASE ReleaseClose(t)
    BY <2>3 DEF LiveSlots, Live, Roles, DisconnectedMeansClosed, IdIsKnown, OneOwner, Setup,
           SetupLabels, ReleaseLabels, ReleaseClose, AssertLive
  <2>4. CASE ReleasePush(t)
    BY <2>4 DEF LiveSlots, Live, Setup, ReleasePush
  <2> QED BY <2>1, <2>2, <2>3, <2>4
<1>5. RegisteredInv'
  <2>1. CASE DecrementCas(t)
    BY <2>1 DEF RegisteredInv, Setup, DecrementCas, IsLastReference
  <2>2. CASE DecrementUndo(t)
    BY <2>2 DEF RegisteredInv, Setup, DecrementUndo
  <2>3. CASE ReleaseClose(t)
    BY <2>3 DEF RegisteredInv, Setup, ReleaseClose, AssertLive
  <2>4. CASE ReleasePush(t)
    BY <2>4 DEF RegisteredInv, Setup, ReleasePush
  <2> QED BY <2>1, <2>2, <2>3, <2>4
<1>6. OwnedKeys'
  <2>2. CASE ReleaseClose(t)
    BY <2>2 DEF Owned, OwnedKeys, Setup, ReleaseLabels, ReleaseClose, AssertLive
  <2>3. CASE ReleasePush(t)
    BY <2>3 DEF Owned, OwnedKeys, Setup, ReleasePush
  <2>1. CASE DecrementUndo(t)
    <3>1. /\ ses[t] \in Keys /\ pc[t] = "dec_undo" /\ UNCHANGED <<releaseFlag, unusedKeys, ses>>
          /\ ioCount' = [ioCount EXCEPT ![ses[t]] = @ + 1] /\ pc' = [pc EXCEPT ![t] = "dec_cas"]
      BY <2>1 DEF DecrementUndo, Roles
    <3>2. ioCount'[ses[t]] > 0 /\ \A k \in Keys \ {ses[t]} : ioCount'[k] = ioCount[k]
      BY <3>1
    <3>3. \A k \in Keys : Owned(k) => Owned(k)'
      BY <3>1 DEF Owned, Setup, ReleaseLabels
    <3>4. \A u \in Threads : pc[u] = "dec_undo" /\ ses[u] # ses[t] => pc'[u] = "dec_undo"
      BY <3>1
    <3> QED BY <3>1, <3>2, <3>3, <3>4 DEF OwnedKeys
  <2>4. CASE DecrementCas(t) /\ ~IsLastReference(ses[t])
    <3>1. /\ UNCHANGED <<releaseFlag, unusedKeys, ioCount, ses>>
          /\ pc[t] = "dec_cas" /\ pc' = [pc EXCEPT ![t] = "dec_sub"]
      BY <2>4 DEF DecrementCas
    <3>2. \A k \in Keys : ioCount[k] > 0 => ioCount'[k] > 0
      BY <3>1
    <3> QED BY <3>1, <3>2, OwnedKeysKept DEF ReleaseLabels, OwnerSetup, SetupLabels
  <2>5. CASE DecrementCas(t) /\ IsLastReference(ses[t])
    <3>1. /\ ses[t] \in Keys /\ pc[t] = "dec_cas" /\ pc' = [pc EXCEPT ![t] = "rel_close"]
          /\ releaseFlag' = [releaseFlag EXCEPT ![ses[t]] = TRUE] /\ UNCHANGED <<ses, unusedKeys>>
          /\ ioCount' = [ioCount EXCEPT ![ses[t]] = 0]
      BY <2>5 DEF DecrementCas, Roles
    <3>2. Owned(ses[t])'
      BY <3>1 DEF Owned, ReleaseLabels
    <3>3. \A k \in Keys : Owned(k) => Owned(k)'
      BY <3>1 DEF Owned, Setup, ReleaseLabels
    <3>4. \A u \in Threads : pc[u] = "dec_undo" => pc'[u] = "dec_undo"
      BY <3>1
    <3> QED BY <3>1, <3>2, <3>3, <3>4 DEF OwnedKeys
  <2> QED BY <2>1, <2>2, <2>3, <2>4, <2>5
<1> QED BY <1>1, <1>2, <1>3, <1>4, <1>5, <1>6 DEF OrderInv

\* A reference is given back that was not the last, or a zero is about to be taken back.
LEMMA DecrementSubOrder ==
  ASSUME SessionInv, OrderInv, NEW t \in Threads, DecrementSub(t)
  PROVE  OrderInv'
<1> USE ThreadsAssumption DEF SessionInv, OrderInv, TypeOK, Threads, Goto, At, vars,
       countVars, stateVars, sendVars, kernelVars, serverVars, noticeVars, localVars
<1>a. PICK l \in {"dec_undo", "dec_cas", "return"} :
        /\ pc' = [pc EXCEPT ![t] = l]
        /\ ioCount[ses[t]] = 1 /\ ~releaseFlag[ses[t]] => l = "dec_undo"
  <2> DEFINE reachedZero == ioCount[ses[t]] = 1 /\ ~releaseFlag[ses[t]]
  <2>1. pc' = [pc EXCEPT ![t] = CASE reachedZero -> "dec_undo"
                                 [] ~reachedZero /\ refs[t] > 1 -> "dec_cas"
                                 [] ~reachedZero /\ refs[t] <= 1 -> "return"]
    BY DEF DecrementSub
  <2>2. refs[t] \in {1, 2}
    BY DEF DecrementSub, RefsByLabel
  <2> HIDE DEF reachedZero
  <2>3. CASE reachedZero
    BY <2>1, <2>3
  <2>4. CASE ~reachedZero /\ refs[t] = 1
    <3>1. pc' = [pc EXCEPT ![t] = "return"]
      BY <2>1, <2>4
    <3> QED BY <2>4, <3>1 DEF reachedZero
  <2>5. CASE ~reachedZero /\ refs[t] = 2
    <3>1. pc' = [pc EXCEPT ![t] = "dec_cas"]
      BY <2>1, <2>5
    <3> QED BY <2>5, <3>1 DEF reachedZero
  <2> QED BY <2>2, <2>3, <2>4, <2>5
<1>b. /\ pc[t] = "dec_sub" /\ ses[t] \in Keys /\ ioCount' = [ioCount EXCEPT ![ses[t]] = @ - 1]
      /\ UNCHANGED <<releaseFlag, stateVars, sendVars, kernelVars, serverVars, noticeVars,
                     localVars>>
  BY DEF DecrementSub, Roles
<1>c. pc'[t] = l /\ \A u \in Threads \ {t} : pc'[u] = pc[u]
  BY <1>a
<1>1. FreshIDs'
  BY <1>a, <1>b, <1>c DEF FreshIDs, SetupLabels, OwnerSetup
<1>2. SlotIDs'
  BY <1>a, <1>b, <1>c DEF SlotIDs
<1>3. SetupAlone'
  BY <1>a, <1>b, <1>c DEF SetupAlone, Setup, Using
<1>4. LiveSlots'
  BY <1>a, <1>b, <1>c, LiveSlotsKept DEF LiveLabels, CheckLabels
<1>5. RegisteredInv'
  BY <1>a, <1>b, <1>c DEF RegisteredInv, Setup
<1>6. OwnedKeys'
  <2> DEFINE j == ses[t]
  <2>1. ioCount[j] \in Nat /\ ioCount[j] >= 1
    <3>0. refs[t] \in {1, 2}
      BY <1>b DEF RefsByLabel
    <3>1. <<t, 1>> \in Holders(j)
      BY <3>0 DEF Holders
    <3> QED BY <1>b, <3>1, HeldIsCounted
  <2>2. \A k \in Keys : Owned(k) => Owned(k)'
    BY <1>b, <1>c DEF Owned, Setup, ReleaseLabels
  <2>3. \A u \in Threads : pc[u] = "dec_undo" => pc'[u] = "dec_undo" /\ ses'[u] = ses[u]
    BY <1>b, <1>c
  <2>4. ASSUME NEW k \in Keys, k # j
        PROVE  Owned(k)' \/ ioCount'[k] > 0 \/ \E u \in Threads : ses'[u] = k /\ pc'[u] = "dec_undo"
    <3>1. ioCount'[k] = ioCount[k]
      BY <1>b, <2>4
    <3> QED BY <3>1, <2>2, <2>3 DEF OwnedKeys
  <2>5. ASSUME NEW k \in Keys, k = j
        PROVE  Owned(k)' \/ ioCount'[k] > 0 \/ \E u \in Threads : ses'[u] = k /\ pc'[u] = "dec_undo"
    <3>1. CASE releaseFlag[k]
      BY <3>1, <1>b, <2>2 DEF OwnedKeys
    <3>2. CASE ~releaseFlag[k] /\ ioCount[k] = 1
      BY <3>2, <2>5, <1>a, <1>b, <1>c
    <3>3. CASE ioCount[k] > 1
      <4>1. ioCount'[k] = ioCount[k] - 1
        BY <1>b, <2>5
      <4> QED BY <3>3, <2>1, <2>5, <4>1
    <3> QED BY <3>1, <3>2, <3>3, <2>1, <2>5
  <2>6. \A k \in Keys : releaseFlag'[k] => Owned(k)'
    BY <1>b, <2>2 DEF OwnedKeys
  <2>7. ASSUME NEW k \in Keys
        PROVE  Owned(k)' \/ ioCount'[k] > 0 \/ \E u \in Threads : ses'[u] = k /\ pc'[u] = "dec_undo"
    <3>1. CASE k = j
      BY <3>1, <2>5
    <3>2. CASE k # j
      BY <3>2, <2>4
    <3> QED BY <3>1, <3>2
  <2> QED BY <2>6, <2>7 DEF OwnedKeys
<1> QED BY <1>1, <1>2, <1>3, <1>4, <1>5, <1>6 DEF OrderInv

\* The notice is posted: the ID is live no longer, and no other ID is touched.
LEMMA ReleasePostOrder ==
  ASSUME SessionInv, OrderInv, NEW t \in Threads, ReleasePost(t)
  PROVE  OrderInv'
<1> USE ThreadsAssumption DEF SessionInv, OrderInv, TypeOK, Threads, Goto, At, vars,
       countVars, stateVars, sendVars, kernelVars, serverVars, noticeVars, localVars
<1>1. FreshIDs'
  BY DEF FreshIDs, SetupLabels, OwnerSetup, ReleasePost
<1>2. SlotIDs'
  BY DEF SlotIDs, ReleasePost
<1>3. SetupAlone'
  BY DEF SetupAlone, Setup, Using, ReleasePost
<1>4. LiveSlots'
  <2> DEFINE j == ses[t]
             id == ID[j]
  <2>1. /\ j \in Keys /\ pc[t] = "rel_post" /\ id \in Live /\ id \in IDs /\ id[1] = j
           /\ bDisconnected[j]
        /\ pc' = [pc EXCEPT ![t] = "rel_push"] /\ releaseNotices' = releaseNotices \cup {id}
        /\ UNCHANGED <<ID, bDisconnected, ses, issued, released>>
    BY NoIDAssumption DEF ReleasePost, Roles, LiveSlots, Live, SlotIDs,
           DisconnectedMeansClosed
  <2>2. Live' = Live \ {id}
    BY <2>1 DEF Live
  <2>3. \A k \in Keys \ {j} : ID[k] # id
    BY <2>1, NoIDAssumption DEF SlotIDs
  <2>4. \A u \in Threads \ {t} : pc[u] = "rel_post" => ses[u] \in Keys \ {j}
    BY <2>1 DEF OneOwner, ReleaseLabels, Roles
  <2>5. /\ releaseNotices' \cup released' \subseteq issued' /\ releaseNotices' \cap released' = {}
        /\ \A x \in Live' : ID'[x[1]] = x
    BY <2>1, <2>2 DEF LiveSlots, Live
  <2>6. \A u \in Threads : pc'[u] = "rel_post" => ID'[ses'[u]] \in Live'
    BY <2>1, <2>2, <2>3, <2>4 DEF LiveSlots
  <2>7. ASSUME NEW k \in Keys
        PROVE  /\ ID'[k] # NoID /\ ~bDisconnected'[k] =>
                    ID'[k] \in Live' \/ Setup(k, {"init_reg", "on_accept"})'
               /\ ID'[k] \in Live' =>
                    ~bDisconnected'[k] \/ \E u \in Threads : ses'[u] = k /\ pc'[u] = "rel_post"
    <3>1. CASE k = j
      BY <3>1, <2>1, <2>2
    <3>2. CASE k # j
      <4>1. Setup(k, {"init_reg", "on_accept"}) => Setup(k, {"init_reg", "on_accept"})'
        BY <2>1 DEF Setup
      <4>2. \A u \in Threads : ses[u] = k /\ pc[u] = "rel_post" =>
              ses'[u] = k /\ pc'[u] = "rel_post"
        BY <3>2, <2>1
      <4> QED BY <3>2, <4>1, <4>2, <2>1, <2>2, <2>3 DEF LiveSlots
    <3> QED BY <3>1, <3>2
  <2> QED BY <2>5, <2>6, <2>7 DEF LiveSlots
<1>5. RegisteredInv'
  BY DEF RegisteredInv, Setup, ReleasePost
<1>6. OwnedKeys'
  BY DEF Owned, OwnedKeys, Setup, ReleaseLabels, ReleasePost
<1> QED BY <1>1, <1>2, <1>3, <1>4, <1>5, <1>6 DEF OrderInv

\* A worker handles a completion.
LEMMA CompletionOrder ==
  ASSUME SessionInv, OrderInv, NEW t \in Threads, NEW b \in BOOLEAN,
         SendAgain(t) \/ ReceiveDone(t, b)
  PROVE  OrderInv'
<1> USE ThreadsAssumption DEF SessionInv, OrderInv, TypeOK, Threads, Goto, At, vars,
       countVars, stateVars, sendVars, kernelVars, serverVars, noticeVars, localVars
<1>1. FreshIDs'
  BY DEF FreshIDs, SetupLabels, OwnerSetup, SendAgain, DropSendFlag, AssertLive,
         ReceiveDone, Jump
<1>2. SlotIDs'
  BY DEF SlotIDs, SendAgain, DropSendFlag, AssertLive, ReceiveDone, Jump
<1>3. SetupAlone'
  BY DEF SetupAlone, Setup, Using, SendAgain, DropSendFlag, AssertLive, ReceiveDone, Jump
<1>4. LiveSlots'
  <2>1. /\ UNCHANGED <<ID, bDisconnected, releaseNotices, issued, released>>
        /\ \A u \in Threads : \/ pc'[u] = pc[u] /\ ses'[u] = ses[u]
                              \/ pc[u] \notin LiveLabels /\ pc'[u] \notin LiveLabels
    BY DEF LiveLabels, SendAgain, DropSendFlag, AssertLive, ReceiveDone, Jump
  <2> QED BY <2>1, LiveSlotsKept
<1>5. RegisteredInv'
  <2>1. CASE SendAgain(t)
    BY <2>1 DEF RegisteredInv, Setup, SendAgain, DropSendFlag, AssertLive
  <2>2. CASE ReceiveDone(t, b)
    BY <2>2 DEF RegisteredInv, Setup, ReceiveDone, Jump
  <2> QED BY <2>1, <2>2
<1>6. OwnedKeys'
  <2>1. /\ UNCHANGED <<releaseFlag, unusedKeys>>
        /\ ioCount' = ioCount \/ ioCount' = [ioCount EXCEPT ![ses[t]] = @ + 1]
        /\ pc[t] \notin ReleaseLabels \cup {"dec_undo"}
        /\ t = Acceptor => pc[t] \notin OwnerSetup \ {"on_accept"}
        /\ \A u \in Threads \ {t} : pc'[u] = pc[u] /\ ses'[u] = ses[u]
    BY DEF Roles, ReleaseLabels, SendAgain, DropSendFlag, AssertLive, ReceiveDone, Jump
  <2>2. \A j \in Keys : ioCount[j] > 0 => ioCount'[j] > 0
    BY <2>1, StaysPositive
  <2> QED BY <2>1, <2>2, OwnedKeysKept DEF Threads
<1> QED BY <1>1, <1>2, <1>3, <1>4, <1>5, <1>6 DEF OrderInv

\* The packets of a finished send are let go.
LEMMA SendDoneOrder ==
  ASSUME SessionInv, OrderInv, NEW t \in Threads, SendDone(t)
  PROVE  OrderInv'
<1> USE ThreadsAssumption DEF SessionInv, OrderInv, TypeOK, Threads, Goto, At, vars,
       countVars, stateVars, sendVars, kernelVars, serverVars, noticeVars, localVars
<1>1. FreshIDs'
  BY DEF FreshIDs, SetupLabels, OwnerSetup, SendDone
<1>2. SlotIDs'
  BY DEF SlotIDs, SendDone
<1>3. SetupAlone'
  BY DEF SetupAlone, Setup, Using, SendDone
<1>4. LiveSlots'
  BY DEF LiveSlots, Live, Setup, SendDone
<1>5. RegisteredInv'
  <2> DEFINE j == ses[t]
  <2>1. /\ j \in Keys /\ registered' = [registered EXCEPT ![j] = <<>>] /\ pc[t] = "s_release"
        /\ UNCHANGED <<ses, sendIo, bSendFlag, bDisconnected>> /\ pc'[t] \in {"dec_cas", "s_unflag"}
        /\ \A u \in Threads \ {t} : pc'[u] = pc[u]
    BY DEF SendDone, Roles
  <2>2. sendIo[j] = "none" /\ \A u \in Threads \ {t} : ses[u] = j => pc[u] \notin SendLabels
    BY <2>1 DEF SendOwned, SendLabels
  <2>3. \A k \in Keys : Setup(k, {"init_reg"}) => Setup(k, {"init_reg"})'
    BY <2>1 DEF Setup
  <2>4. ASSUME NEW k \in Keys
        PROVE  /\ Len(registered'[k]) <= MaxWsaBuf
               /\ sendIo'[k] # "none" => registered'[k] # <<>>
               /\ ~bSendFlag'[k] /\ ~bDisconnected'[k] =>
                    registered'[k] = <<>> \/ Setup(k, {"init_reg"})'
    BY <2>1, <2>2, <2>3, BoundsAssumption DEF RegisteredInv
  <2>5. ASSUME NEW u \in Threads
        PROVE  /\ pc'[u] = "ps_send" => registered'[ses'[u]] # <<>>
               /\ pc'[u] \in {"ps_recount", "ps_unflag", "s_unflag"} => registered'[ses'[u]] = <<>>
    <3>1. CASE u = t
      BY <3>1, <2>1
    <3>2. CASE u # t
      BY <3>2, <2>1, <2>2 DEF RegisteredInv, SendLabels, Roles
    <3> QED BY <3>1, <3>2
  <2> QED BY <2>4, <2>5 DEF RegisteredInv
<1>6. OwnedKeys'
  <2>1. /\ UNCHANGED <<releaseFlag, unusedKeys>>
        /\ ioCount' = ioCount \/ ioCount' = [ioCount EXCEPT ![ses[t]] = @ + 1]
        /\ pc[t] \notin ReleaseLabels \cup {"dec_undo"}
        /\ t = Acceptor => pc[t] \notin OwnerSetup \ {"on_accept"}
        /\ \A u \in Threads \ {t} : pc'[u] = pc[u] /\ ses'[u] = ses[u]
    BY DEF Roles, ReleaseLabels, SendDone
  <2>2. \A j \in Keys : ioCount[j] > 0 => ioCount'[j] > 0
    BY <2>1, StaysPositive
  <2> QED BY <2>1, <2>2, OwnedKeysKept DEF Threads
<1> QED BY <1>1, <1>2, <1>3, <1>4, <1>5, <1>6 DEF OrderInv

\* A worker takes a completed operation.
LEMMA TakeOrder ==
  ASSUME SessionInv, OrderInv, NEW w \in Workers, NEW k \in Keys,
         CompleteSend(w, k) \/ CompleteRecv(w, k)
  PROVE  OrderInv'
<1> USE ThreadsAssumption DEF SessionInv, OrderInv, TypeOK, Threads, Goto, At, vars,
       countVars, stateVars, sendVars, kernelVars, serverVars, noticeVars, localVars
<1>1. FreshIDs'
  BY DEF FreshIDs, SetupLabels, OwnerSetup, CompleteSend, Complete, CompleteRecv
<1>2. SlotIDs'
  BY DEF SlotIDs, CompleteSend, Complete, CompleteRecv
<1>3. SetupAlone'
  <2>1. CASE CompleteSend(w, k)
    BY <2>1 DEF SetupAlone, Setup, CompleteSend, Complete
  <2>2. CASE CompleteRecv(w, k)
    BY <2>2 DEF SetupAlone, Setup, CompleteRecv, Complete
  <2> QED BY <2>1, <2>2
<1>4. LiveSlots'
  <2>1. CASE CompleteSend(w, k)
    BY <2>1 DEF LiveSlots, Live, Setup, CompleteSend, Complete
  <2>2. CASE CompleteRecv(w, k)
    BY <2>2 DEF LiveSlots, Live, Setup, CompleteRecv, Complete
  <2> QED BY <2>1, <2>2
<1>5. RegisteredInv'
  <2>1. CASE CompleteSend(w, k)
    BY <2>1 DEF RegisteredInv, Setup, CompleteSend, Complete
  <2>2. CASE CompleteRecv(w, k)
    BY <2>2 DEF RegisteredInv, Setup, CompleteRecv, Complete
  <2> QED BY <2>1, <2>2
<1>6. OwnedKeys'
  <2>1. /\ UNCHANGED <<releaseFlag, unusedKeys>>
        /\ ioCount' = ioCount \/ ioCount' = [ioCount EXCEPT ![ses[w]] = @ + 1]
        /\ pc[w] \notin ReleaseLabels \cup {"dec_undo"}
        /\ w = Acceptor => pc[w] \notin OwnerSetup \ {"on_accept"}
        /\ \A u \in Threads \ {w} : pc'[u] = pc[u] /\ ses'[u] = ses[u]
    BY DEF Roles, ReleaseLabels, CompleteSend, Complete, CompleteRecv
  <2>2. \A j \in Keys : ioCount[j] > 0 => ioCount'[j] > 0
    BY <2>1, StaysPositive
  <2> QED BY <2>1, <2>2, OwnedKeysKept DEF Threads
<1> QED BY <1>1, <1>2, <1>3, <1>4, <1>5, <1>6 DEF OrderInv

\* OnRelease is called: the notice becomes a released ID.
LEMMA OnReleaseOrder ==
  ASSUME SessionInv, OrderInv, NEW w \in Workers, NEW id \in releaseNotices, OnRelease(w, id)
  PROVE  OrderInv'
<1> USE ThreadsAssumption DEF SessionInv, OrderInv, TypeOK, Threads, Goto, At, vars,
       countVars, stateVars, sendVars, kernelVars, serverVars, noticeVars, localVars
<1>1. FreshIDs'
  BY DEF FreshIDs, OnRelease
<1>2. SlotIDs'
  BY DEF SlotIDs, OnRelease
<1>3. SetupAlone'
  BY DEF SetupAlone, Setup, OnRelease
<1>4. LiveSlots'
  BY DEF LiveSlots, Live, Setup, OnRelease
<1>5. RegisteredInv'
  BY DEF RegisteredInv, Setup, OnRelease
<1>6. OwnedKeys'
  BY DEF Owned, OwnedKeys, Setup, OnRelease
<1> QED BY <1>1, <1>2, <1>3, <1>4, <1>5, <1>6 DEF OrderInv

\* The kernel and the peer.
LEMMA KernelOrder ==
  ASSUME SessionInv, OrderInv, NEW k \in Keys, NEW result,
         RecvCompletes(k, result) \/ SendCompletes(k, result) \/ PeerReset(k)
  PROVE  OrderInv'
<1> USE ThreadsAssumption DEF SessionInv, OrderInv, TypeOK, Threads, Goto, At, vars,
       countVars, stateVars, sendVars, kernelVars, serverVars, noticeVars, localVars
<1>1. FreshIDs'
  BY DEF FreshIDs, RecvCompletes, KernelCompletes, SendCompletes, PeerReset
<1>2. SlotIDs'
  BY DEF SlotIDs, RecvCompletes, KernelCompletes, SendCompletes, PeerReset
<1>3. SetupAlone'
  BY DEF SetupAlone, Setup, RecvCompletes, KernelCompletes, SendCompletes, PeerReset
<1>4. LiveSlots'
  <2>1. /\ UNCHANGED <<ID, bDisconnected, releaseNotices, issued, released>>
        /\ \A u \in Threads : \/ pc'[u] = pc[u] /\ ses'[u] = ses[u]
                              \/ pc[u] \notin LiveLabels /\ pc'[u] \notin LiveLabels
    BY DEF LiveLabels, RecvCompletes, KernelCompletes, SendCompletes, PeerReset
  <2> QED BY <2>1, LiveSlotsKept
<1>5. RegisteredInv'
  BY DEF RegisteredInv, Setup, RecvCompletes, KernelCompletes, SendCompletes, PeerReset
<1>6. OwnedKeys'
  <2>1. UNCHANGED <<releaseFlag, unusedKeys, ioCount, pc, ses>>
    BY DEF RecvCompletes, KernelCompletes, SendCompletes, PeerReset
  <2> QED BY <2>1 DEF OwnedKeys, Owned, Setup
<1> QED BY <1>1, <1>2, <1>3, <1>4, <1>5, <1>6 DEF OrderInv

----------------------------------------------------------------------------
\* The stack is full and nobody is at work.
LEMMA OrderInit == Init => OrderInv
<1> SUFFICES ASSUME Init PROVE OrderInv
  OBVIOUS
<1>1. /\ ioCount = [k \in Keys |-> 0] /\ releaseFlag = [k \in Keys |-> FALSE]
      /\ ID = [k \in Keys |-> NoID] /\ registered = [k \in Keys |-> <<>>]
      /\ recvIo = [k \in Keys |-> "none"] /\ sendIo = [k \in Keys |-> "none"]
      /\ unusedKeys = Keys /\ issued = {} /\ releaseNotices = {} /\ released = {}
      /\ pc = [t \in Threads |-> "idle"]
  BY DEF Init
<1>2. Acceptor \in Threads
  BY DEF Threads
<1>3. FreshIDs /\ SlotIDs /\ SetupAlone
  BY <1>1, <1>2 DEF FreshIDs, SlotIDs, SetupAlone, OwnerSetup, SetupLabels, Setup, Threads
<1>4. LiveSlots
  BY <1>1 DEF LiveSlots, Live
<1>5. RegisteredInv
  BY <1>1, BoundsAssumption DEF RegisteredInv
<1>6. OwnedKeys
  BY <1>1 DEF OwnedKeys, Owned
<1> QED BY <1>3, <1>4, <1>5, <1>6 DEF OrderInv

LEMMA OrderStutter == OrderInv /\ UNCHANGED vars => OrderInv'
  BY DEF OrderInv, FreshIDs, SlotIDs, SetupAlone, LiveSlots, RegisteredInv, OwnedKeys,
         Owned, Live, Setup, vars, countVars, stateVars, sendVars, kernelVars, serverVars,
         noticeVars, localVars

LEMMA ThreadStepOrder ==
  ASSUME SessionInv, OrderInv, NEW t \in Threads, ThreadStep(t)
  PROVE  OrderInv'
<1>1. CASE t = Acceptor /\ AcceptStep
  BY <1>1, SetupOrder, OnAcceptOrder DEF AcceptStep
<1>2. CASE t \in Workers /\ CompletionStep(t)
  BY <1>2, SendDoneOrder, CompletionOrder DEF CompletionStep
<1>3. CASE ApiStep(t)
  BY <1>3, ApiOrder, CheckOrder DEF ApiStep
<1>4. CASE PostStep(t)
  BY <1>4, PostOrder, RegisterPacketsOrder, SubmitOrder DEF PostStep
<1>5. CASE DecrementStep(t)
  BY <1>5, ReleaseOrder, DecrementSubOrder, ReleasePostOrder DEF DecrementStep
<1> QED BY <1>1, <1>2, <1>3, <1>4, <1>5 DEF ThreadStep

\* The second invariant is inductive on top of the first.
LEMMA OrderNext == SessionInv /\ OrderInv /\ [Next]_vars => OrderInv'
<1> SUFFICES ASSUME SessionInv, OrderInv, [Next]_vars PROVE OrderInv'
  OBVIOUS
<1>1. CASE UNCHANGED vars
  BY <1>1, OrderStutter
<1>2. ASSUME NEW k \in Keys, AcceptPop(k) \/ KernelStep(k) \/ PeerReset(k)
      PROVE  OrderInv'
  BY <1>2, AcceptPopOrder, KernelOrder DEF KernelStep
<1>3. ASSUME NEW t \in AppThreads, NEW o \in Ops, NEW id \in issued,
             NEW p \in Packets \cup {NoPacket}, Call(t, o, id, p)
      PROVE  OrderInv'
  BY <1>3, CallOrder
<1>4. ASSUME NEW t \in Threads, ThreadStep(t)
      PROVE  OrderInv'
  BY <1>4, ThreadStepOrder
<1>5. ASSUME NEW w \in Workers, NEW k \in Keys, CompleteSend(w, k) \/ CompleteRecv(w, k)
      PROVE  OrderInv'
  BY <1>5, TakeOrder
<1>6. ASSUME NEW w \in Workers, NEW id \in releaseNotices, OnRelease(w, id)
      PROVE  OrderInv'
  BY <1>6, OnReleaseOrder
<1>7. CASE Terminated
  BY <1>7, OrderStutter DEF Terminated
<1> QED BY <1>1, <1>2, <1>3, <1>4, <1>5, <1>6, <1>7 DEF Next

\* Both invariants hold in every reachable state, for every number of keys, threads,
\* packets, accepts and calls.
THEOREM OrderInvariant == Spec => [](SessionInv /\ OrderInv)
<1>1. Init => SessionInv /\ OrderInv
  BY InvInit, OrderInit
<1>2. SessionInv /\ OrderInv /\ [Next]_vars => (SessionInv /\ OrderInv)'
  BY InvNext, OrderNext
<1> QED BY <1>1, <1>2, PTL DEF Spec

----------------------------------------------------------------------------
\* One WSASend at a time per session, whose packets are still registered when it
\* completes (bSendFlag; PostSend and the send completion).
THEOREM SenderIsAlone == Spec => []OneSender
<1>1. SessionInv /\ OrderInv => OneSender
  <2> SUFFICES ASSUME SessionInv, OrderInv, NEW k \in Keys
               PROVE  OneSender!(k)
    BY DEF OneSender
  <2> DEFINE busy   == { t \in Threads : /\ ses[t] = k
                                         /\ pc[t] \in {"ps_recount", "ps_unflag", "ps_send",
                                                       "s_release", "s_unflag"} }
             posted == { h \in {"posted"} : sendIo[k] # "none" }
  <2>1. \A t \in busy : pc[t] \in SendLabels /\ sendIo[k] = "none"
    BY DEF SessionInv, SendOwned, SendLabels
  <2>2. \A t, u \in busy : t = u
    BY <2>1 DEF SessionInv, SendOwned
  <2>3. \A x, y \in busy \cup posted : x = y
    BY <2>1, <2>2
  <2>4. Len(registered[k]) <= MaxWsaBuf /\ (sendIo[k] = "pending" => registered[k] # <<>>)
    BY DEF OrderInv, RegisteredInv
  <2> HIDE DEF busy, posted
  <2>5. Cardinality(busy \cup posted) <= 1
    BY <2>3, AtMostOne
  <2> QED BY <2>4, <2>5 DEF busy, posted
<1> QED BY <1>1, OrderInvariant, PTL

\* A key is never given to two connections and never lost (mUnusedSessionKeys, Init,
\* releaseSession).
THEOREM KeysAreKept == Spec => []KeyHasOneOwner
<1>1. SessionInv /\ OrderInv => KeyHasOneOwner
  <2> SUFFICES ASSUME SessionInv, OrderInv, NEW k \in Keys
               PROVE  KeyHasOneOwner!(k)
    BY DEF KeyHasOneOwner
  <2> USE DEF SetupLabels, ReleaseLabels
  <2> DEFINE stack == { o \in {"stack"} : k \in unusedKeys }
             busy  == { t \in Threads : /\ ses[t] = k
                                        /\ pc[t] \in {"pop", "init_and", "init_id", "init_disc",
                                             "init_reg", "rel_close", "rel_post", "rel_push"} }
  <2>1. Owners(k) = stack \cup busy
    BY DEF Owners
  <2>2. \A t \in busy : stack = {}
    BY DEF SessionInv, OneOwner
  <2>3. \A t, u \in busy : t = u
    BY DEF SessionInv, OneOwner, Roles
  <2>4. \A x, y \in stack \cup busy : x = y
    BY <2>2, <2>3
  <2>5. stack \cup busy = {} => ~Owned(k)
    BY ThreadsAssumption DEF Owned, Setup, Threads
  <2> HIDE DEF stack, busy
  <2>6. Cardinality(Owners(k)) <= 1
    BY <2>1, <2>4, AtMostOne
  <2>7. Owners(k) = {} =>
          /\ ~releaseFlag[k]
          /\ ioCount[k] > 0 \/ \E t \in Threads : ses[t] = k /\ At(t, "dec_undo")
    BY <2>1, <2>5 DEF OrderInv, OwnedKeys, At
  <2> QED BY <2>6, <2>7
<1> QED BY <1>1, OrderInvariant, PTL

\* OnReceive runs only between OnAccept and the release of its ID; one notice per ID.
THEOREM HandlerOrder == Spec => []HandlersInOrder
<1>1. SessionInv /\ OrderInv => HandlersInOrder
  <2> SUFFICES ASSUME SessionInv, OrderInv, NEW t \in Threads, pc[t] = "on_recv"
               PROVE  ID[ses[t]] \in Live
    BY DEF OrderInv, LiveSlots, HandlersInOrder
  <2>1. ses[t] \in Keys /\ t # Acceptor
    BY ThreadsAssumption DEF SessionInv, Roles
  <2>2. ID[ses[t]] # NoID /\ ~bDisconnected[ses[t]]
    BY DEF SessionInv, IdIsKnown, DisconnectedMeansClosed, Using
  <2>3. ~Setup(ses[t], {"init_reg", "on_accept"})
    BY <2>1 DEF OrderInv, SetupAlone, Using
  <2> QED BY <2>1, <2>2, <2>3 DEF OrderInv, LiveSlots
<1> QED BY <1>1, OrderInvariant, PTL

----------------------------------------------------------------------------
\* The application hears of a session in OnAccept, releaseSession's post and OnRelease only.
LEMMA SilentThreadStep ==
  ASSUME NEW t \in Threads, ThreadStep(t)
  PROVE  OnAccept \/ ReleasePost(t) \/ UNCHANGED noticeVars
<1> USE DEF countVars, stateVars, sendVars, kernelVars, serverVars
<1>1. CASE t = Acceptor /\ AcceptStep
  BY <1>1 DEF AcceptStep, AcceptIncrement, InitClearFlag, InitId, InitConnected, InitBuffers
<1>2. CASE t \in Workers /\ CompletionStep(t)
  BY <1>2 DEF CompletionStep, SendDone, SendAgain, DropSendFlag, ReceiveDone, Jump
<1>3. CASE ApiStep(t)
  BY <1>3 DEF ApiStep, Increment, Check, ReadAddress, RegisterDisconnect, CancelIo, Enqueue,
         Return, Jump
<1>4. CASE PostStep(t)
  BY <1>4 DEF PostStep, PostRecv, PostSend, TakeSendFlag, RegisterPackets, NothingToSend,
         CancelIfRegistered, WSARecv, WSASend, Submit, DropSendFlag, Jump
<1>5. CASE DecrementStep(t)
  BY <1>5 DEF DecrementStep, DecrementCas, DecrementSub, DecrementUndo, ReleaseClose,
         ReleasePush, Jump
<1> QED BY <1>1, <1>2, <1>3, <1>4, <1>5 DEF ThreadStep

\* OnAccept gives the application an ID it has never had, on a key no live ID has.
LEMMA AcceptRefines ==
  ASSUME SessionInv, OrderInv, OnAccept
  PROVE  \E id \in IDs : Service!Accept(id)
<1> DEFINE j == ses[Acceptor]
           id == ID[j]
<1>1. j \in Keys /\ id = arg[Acceptor] /\ id \in IDs /\ id[1] = j /\ id \notin issued
  BY ThreadsAssumption DEF OnAccept, At, SessionInv, Roles, IdMatches, OrderInv, FreshIDs,
         SetupLabels, OwnerSetup, Threads
<1>2. issued' = issued \cup {id} /\ UNCHANGED <<releaseNotices, released>>
  BY DEF OnAccept
<1>3. releaseNotices \cup released \subseteq issued /\ \A x \in Live : ID[x[1]] = x
  BY DEF OrderInv, LiveSlots
<1>4. Live' = Live \cup {id}
  BY <1>1, <1>2, <1>3 DEF Live
<1>5. id \notin Live \cup releaseNotices \cup released
  BY <1>1, <1>3 DEF Live
<1>6. \A other \in Live : other[1] # id[1]
  BY <1>1, <1>3, <1>5
<1> HIDE DEF id
<1> QED BY <1>1, <1>2, <1>4, <1>5, <1>6 DEF Service!Accept

\* The post of the notice closes the ID.
LEMMA CloseRefines ==
  ASSUME SessionInv, OrderInv, NEW t \in Threads, ReleasePost(t)
  PROVE  \E id \in IDs : Service!Close(id)
<1> DEFINE id == ID[ses[t]]
<1>1. id \in Live /\ id \in IDs
  BY DEF ReleasePost, At, OrderInv, LiveSlots, Live, SessionInv, TypeOK
<1>2. releaseNotices' = releaseNotices \cup {id} /\ UNCHANGED <<issued, released>>
  BY DEF ReleasePost
<1>3. Live' = Live \ {id}
  BY <1>2 DEF Live
<1> HIDE DEF id
<1> QED BY <1>1, <1>2, <1>3 DEF Service!Close

\* A worker that takes the notice calls OnRelease.
LEMMA ReleaseRefines ==
  ASSUME SessionInv, NEW w \in Workers, NEW id \in releaseNotices, OnRelease(w, id)
  PROVE  \E x \in IDs : Service!Release(x)
<1>1. id \in IDs
  BY DEF SessionInv, TypeOK
<1>2. releaseNotices' = releaseNotices \ {id} /\ released' = released \cup {id} /\ UNCHANGED issued
  BY DEF OnRelease
<1>3. Live' = Live
  BY <1>2 DEF Live
<1> QED BY <1>1, <1>2, <1>3 DEF Service!Release

\* The session protocol implements SessionService: each ID is accepted once, on a key no
\* live ID uses, closed once and released once.
THEOREM Refinement == Spec => ImplementsService
<1>1. Init => Service!Init
  BY DEF Init, Service!Init, Live
<1>2. SessionInv /\ OrderInv /\ [Next]_vars => [Service!Next]_(Service!vars)
  <2> SUFFICES ASSUME SessionInv, OrderInv, [Next]_vars
               PROVE  Service!Next \/ UNCHANGED noticeVars
    BY DEF noticeVars, Service!vars, Live
  <2>1. CASE UNCHANGED vars \/ Terminated
    BY <2>1 DEF vars, Terminated
  <2>2. ASSUME NEW k \in Keys, AcceptPop(k) \/ KernelStep(k) \/ PeerReset(k)
        PROVE  UNCHANGED noticeVars
    BY <2>2 DEF AcceptPop, KernelStep, RecvCompletes, SendCompletes, KernelCompletes,
           PeerReset
  <2>3. ASSUME NEW t \in AppThreads, NEW o \in Ops, NEW id \in issued,
               NEW p \in Packets \cup {NoPacket}, Call(t, o, id, p)
        PROVE  UNCHANGED noticeVars
    BY <2>3 DEF Call
  <2>4. ASSUME NEW t \in Threads, ThreadStep(t)
        PROVE  Service!Next \/ UNCHANGED noticeVars
    BY <2>4, SilentThreadStep, AcceptRefines, CloseRefines DEF Service!Next
  <2>5. ASSUME NEW w \in Workers, NEW k \in Keys, CompleteSend(w, k) \/ CompleteRecv(w, k)
        PROVE  UNCHANGED noticeVars
    BY <2>5 DEF CompleteSend, CompleteRecv, Complete
  <2>6. ASSUME NEW w \in Workers, NEW id \in releaseNotices, OnRelease(w, id)
        PROVE  Service!Next
    BY <2>6, ReleaseRefines DEF Service!Next
  <2> QED BY <2>1, <2>2, <2>3, <2>4, <2>5, <2>6 DEF Next
<1> QED BY <1>1, <1>2, OrderInvariant, PTL DEF Spec, ImplementsService, Service!Spec

----------------------------------------------------------------------------
\* What a released session keeps; the fields a step of ThreadStep may change belong to
\* a session whose flag is clear.
Frozen(k) ==
  UNCHANGED <<ID[k], bDisconnectRegistered[k], bSendFlag[k], sendQueue[k], registered[k]>>

\* A step of a thread that holds a reference changes its own session, whose flag is clear.
LEMMA ThreadStepFreezes ==
  ASSUME SessionInv, NEW t \in Threads, ThreadStep(t), NEW k \in Keys, releaseFlag[k]
  PROVE  Frozen(k)
<1> USE DEF Frozen, countVars, stateVars, sendVars, kernelVars, serverVars
<1>1. /\ pc[t] \in HoldingLabels => ses[t] # k
      /\ ID \in [Keys -> IDs \cup {NoID}] /\ bDisconnectRegistered \in [Keys -> BOOLEAN]
      /\ bSendFlag \in [Keys -> BOOLEAN] /\ sendQueue \in [Keys -> Seq(Packets)]
      /\ registered \in [Keys -> Seq(Packets)] /\ t \in Threads
  BY DEF SessionInv, TypeOK, FlagMeansReleased
<1> USE DEF HoldingLabels
<1>2. CASE t = Acceptor /\ AcceptStep
  BY <1>1, <1>2 DEF AcceptStep, AcceptIncrement, InitClearFlag, InitId, InitConnected,
         InitBuffers, OnAccept, SetupLabels, At
<1>3. CASE t \in Workers /\ CompletionStep(t)
  BY <1>1, <1>3 DEF CompletionStep, SendDone, SendAgain, DropSendFlag, ReceiveDone, Jump,
         Using, At
<1>4. CASE ApiStep(t)
  BY <1>1, <1>4 DEF ApiStep, Increment, Check, ReadAddress, RegisterDisconnect, CancelIo,
         Enqueue, Return, Jump, Using, At
<1>5. CASE PostStep(t)
  BY <1>1, <1>5 DEF PostStep, PostRecv, PostSend, TakeSendFlag, RegisterPackets,
         NothingToSend, CancelIfRegistered, WSARecv, WSASend, Submit, DropSendFlag, Jump,
         Using, At
<1>6. CASE DecrementStep(t)
  BY <1>1, <1>6 DEF DecrementStep, DecrementCas, DecrementSub, DecrementUndo, ReleaseClose,
         ReleasePost, ReleasePush, Jump
<1> QED BY <1>2, <1>3, <1>4, <1>5, <1>6 DEF ThreadStep

\* From the release of a session until the accept thread clears its flag nothing of it
\* changes and no I/O is posted on it, whoever still holds its ID (Session.cpp,
\* DecrementIoCount and Init).
THEOREM ReleasedIsFrozen == Spec => FrozenWhileReleased
<1>1. ASSUME SessionInv, [Next]_vars, NEW k \in Keys, releaseFlag[k]
      PROVE  Frozen(k)
  <2> USE <1>1 DEF Frozen, countVars, stateVars, sendVars, kernelVars, serverVars, noticeVars
  <2>1. CASE UNCHANGED vars
    BY <2>1 DEF vars
  <2>2. ASSUME NEW j \in Keys, AcceptPop(j) \/ KernelStep(j) \/ PeerReset(j)
        PROVE  Frozen(k)
    BY <2>2 DEF AcceptPop, KernelStep, PeerReset, RecvCompletes, SendCompletes, KernelCompletes
  <2>3. ASSUME NEW t \in AppThreads, NEW o \in Ops, NEW id \in issued,
               NEW p \in Packets \cup {NoPacket}, Call(t, o, id, p)
        PROVE  Frozen(k)
    BY <2>3 DEF Call
  <2>4. ASSUME NEW t \in Threads, ThreadStep(t)
        PROVE  Frozen(k)
    BY <2>4, ThreadStepFreezes
  <2>5. ASSUME NEW w \in Workers, NEW j \in Keys, CompleteSend(w, j) \/ CompleteRecv(w, j)
        PROVE  Frozen(k)
    BY <2>5 DEF CompleteSend, CompleteRecv, Complete
  <2>6. ASSUME NEW w \in Workers, NEW id \in releaseNotices, OnRelease(w, id)
        PROVE  Frozen(k)
    BY <2>6 DEF OnRelease
  <2>7. CASE Terminated
    BY <2>1, <2>7 DEF Terminated
  <2> QED BY <2>1, <2>2, <2>3, <2>4, <2>5, <2>6, <2>7 DEF Next
<1>2. ASSUME SessionInv', NEW k \in Keys, releaseFlag'[k]
      PROVE  recvIo'[k] = "none" /\ sendIo'[k] = "none"
  BY <1>2 DEF SessionInv, FlagMeansReleased
<1>3. SessionInv /\ SessionInv' /\ [Next]_vars =>
        [\A k \in Keys : releaseFlag[k] /\ releaseFlag'[k] =>
           /\ UNCHANGED <<ID[k], bDisconnectRegistered[k], bSendFlag[k], sendQueue[k],
                          registered[k]>>
           /\ recvIo'[k] = "none" /\ sendIo'[k] = "none"]_vars
  BY <1>1, <1>2 DEF Frozen
<1> QED BY <1>3, SessionInvariant, PTL DEF Spec, FrozenWhileReleased

----------------------------------------------------------------------------
(* Packets *)

\* A packet is in finitely many places.
LEMMA PlacesFinite ==
  ASSUME NEW seqs \in [Keys -> Seq(Packets)], NEW p
  PROVE  IsFiniteSet(Places(seqs, p)) /\ Cardinality(Places(seqs, p)) \in Nat
<1> DEFINE f == [k \in Keys |-> {k} \X PlacesOf(seqs[k], p)]
           S == { {k} \X PlacesOf(seqs[k], p) : k \in Keys }
<1>1. f \in Surjection(Keys, S)
  BY DEF Surjection
<1>2. IsFiniteSet(S)
  <2> HIDE DEF S, f
  <2> QED BY <1>1, FS_Surjection, KeysAssumption
<1>3. \A T \in S : IsFiniteSet(T)
  <2>1. ASSUME NEW k \in Keys
        PROVE  IsFiniteSet({k} \X PlacesOf(seqs[k], p))
    <3>1. seqs[k] \in Seq(Packets)
      OBVIOUS
    <3>2. IsFiniteSet({k}) /\ IsFiniteSet(PlacesOf(seqs[k], p))
      BY <3>1, FS_Singleton, OccurrencesNat
    <3> QED BY <3>2, FS_Product
  <2> QED BY <2>1
<1>4. Places(seqs, p) = UNION S
  BY DEF Places, PlacesOf
<1>5. IsFiniteSet(Places(seqs, p))
  <2> HIDE DEF S
  <2> QED BY <1>2, <1>3, <1>4, FS_UNION
<1> QED BY <1>5, FS_CardinalityType

\* The sequence of one session changes.
LEMMA PlacesChanged ==
  ASSUME NEW seqs \in [Keys -> Seq(Packets)], NEW k \in Keys, NEW s \in Seq(Packets), NEW p
  PROVE  Cardinality(Places([seqs EXCEPT ![k] = s], p))
           = Cardinality(Places(seqs, p)) - Occurrences(seqs[k], p) + Occurrences(s, p)
<1> DEFINE new == [seqs EXCEPT ![k] = s]
           rest == UNION { {j} \X PlacesOf(seqs[j], p) : j \in Keys \ {k} }
           Here(q) == {k} \X PlacesOf(q, p)
<1>1. new \in [Keys -> Seq(Packets)]
  OBVIOUS
<1>2. Places(seqs, p) = rest \cup Here(seqs[k])
  BY DEF Places, PlacesOf
<1>3. Places(new, p) = rest \cup Here(s)
  <2>1. new[k] = s /\ \A j \in Keys \ {k} : new[j] = seqs[j]
    OBVIOUS
  <2> HIDE DEF new
  <2> QED BY <2>1 DEF Places, PlacesOf
<1>4. ASSUME NEW q \in Seq(Packets)
      PROVE  /\ IsFiniteSet(Here(q)) /\ Cardinality(Here(q)) = Occurrences(q, p)
             /\ Occurrences(q, p) \in Nat /\ rest \cap Here(q) = {}
  <2>1. IsFiniteSet({k}) /\ Cardinality({k}) = 1
    BY FS_Singleton
  <2>2. IsFiniteSet(PlacesOf(q, p)) /\ Cardinality(PlacesOf(q, p)) \in Nat
    BY OccurrencesNat DEF Occurrences
  <2>3. /\ IsFiniteSet({k} \X PlacesOf(q, p))
        /\ Cardinality({k} \X PlacesOf(q, p)) = Cardinality({k}) * Cardinality(PlacesOf(q, p))
    BY <2>1, <2>2, FS_Product
  <2>4. Cardinality({k} \X PlacesOf(q, p)) = Cardinality(PlacesOf(q, p))
    BY <2>1, <2>2, <2>3
  <2>5. rest \cap Here(q) = {}
    OBVIOUS
  <2> QED BY <2>2, <2>3, <2>4, <2>5 DEF Occurrences
<1>5. IsFiniteSet(rest) /\ Cardinality(rest) \in Nat
  <2>1. rest \subseteq Places(seqs, p)
    BY <1>2
  <2>2. IsFiniteSet(rest)
    <3> HIDE DEF rest
    <3> QED BY <2>1, PlacesFinite, FS_Subset
  <2> HIDE DEF rest
  <2> QED BY <2>2, FS_CardinalityType
<1>6. ASSUME NEW q \in Seq(Packets)
      PROVE  Cardinality(rest \cup Here(q)) = Cardinality(rest) + Occurrences(q, p)
  <2>1. /\ IsFiniteSet(Here(q)) /\ Cardinality(Here(q)) = Occurrences(q, p)
        /\ Occurrences(q, p) \in Nat /\ rest \cap Here(q) = {}
    BY <1>4
  <2> HIDE DEF rest, Here
  <2>2. Cardinality(rest \cap Here(q)) = 0
    BY <2>1, FS_EmptySet
  <2>3. Cardinality(rest \cup Here(q)) = Cardinality(rest) + Cardinality(Here(q))
                                          - Cardinality(rest \cap Here(q))
    BY <1>5, <2>1, FS_Union
  <2> QED BY <1>5, <2>1, <2>2, <2>3
<1>7. seqs[k] \in Seq(Packets)
  OBVIOUS
<1>8. /\ Cardinality(Places(seqs, p)) = Cardinality(rest) + Occurrences(seqs[k], p)
      /\ Cardinality(Places(new, p)) = Cardinality(rest) + Occurrences(s, p)
      /\ Occurrences(seqs[k], p) \in Nat /\ Occurrences(s, p) \in Nat
  <2> HIDE DEF rest, Here, new
  <2> QED BY <1>2, <1>3, <1>4, <1>6, <1>7
<1> HIDE DEF rest, new
<1>9. Cardinality(Places(new, p))
        = Cardinality(Places(seqs, p)) - Occurrences(seqs[k], p) + Occurrences(s, p)
  BY <1>5, <1>8
<1> QED BY <1>9 DEF new

\* Who has called with packet p and not returned.
CallersOf(p) == { t \in Threads : pkt[t] = p }

\* A thread without a call has no packet.
IdleHasNoPacket == \A t \in Threads : At(t, "idle") => pkt[t] = NoPacket

AccountInv == PacketAccounting /\ IdleHasNoPacket

LEMMA CallersFinite ==
  ASSUME NEW S, S \subseteq Threads
  PROVE  IsFiniteSet(S) /\ Cardinality(S) \in Nat
<1>1. IsFiniteSet(Threads)
  BY ThreadsAssumption, FS_Singleton, FS_Union DEF Threads
<1> QED BY <1>1, FS_Subset, FS_CardinalityType

\* The count of a packet, and what its parts are.
LEMMA AccountOf ==
  ASSUME TypeOK, PacketAccounting, NEW p \in Packets
  PROVE  /\ refCount[p] = Cardinality(CallersOf(p)) + Cardinality(Places(sendQueue, p))
                            + Cardinality(Places(registered, p))
         /\ Cardinality(CallersOf(p)) \in Nat /\ Cardinality(Places(sendQueue, p)) \in Nat
         /\ Cardinality(Places(registered, p)) \in Nat
<1>1. sendQueue \in [Keys -> Seq(Packets)] /\ registered \in [Keys -> Seq(Packets)]
  BY DEF TypeOK
<1>2. CallersOf(p) \subseteq Threads
  BY DEF CallersOf
<1>3. /\ Cardinality(CallersOf(p)) \in Nat /\ Cardinality(Places(sendQueue, p)) \in Nat
      /\ Cardinality(Places(registered, p)) \in Nat
  BY <1>1, <1>2, CallersFinite, PlacesFinite
<1>4. refCount[p] = Cardinality(CallersOf(p)) + (Cardinality(Places(sendQueue, p))
                            + Cardinality(Places(registered, p)))
  BY DEF PacketAccounting, Stored, CallersOf
<1> QED BY <1>3, <1>4

\* It is enough to look at one packet at a time.
LEMMA AccountNext ==
  ASSUME TypeOK',
         \A p \in Packets :
           refCount'[p] = Cardinality(CallersOf(p)') + Cardinality(Places(sendQueue', p))
                            + Cardinality(Places(registered', p))
  PROVE  PacketAccounting'
<1> SUFFICES ASSUME NEW p \in Packets
             PROVE  refCount'[p] = Cardinality({ t \in Threads : pkt'[t] = p })
                                     + (Cardinality(Places(sendQueue', p))
                                        + Cardinality(Places(registered', p)))
  BY DEF PacketAccounting, Stored, Places
<1>1. sendQueue' \in [Keys -> Seq(Packets)] /\ registered' \in [Keys -> Seq(Packets)]
  BY DEF TypeOK
<1>2. { t \in Threads : pkt'[t] = p } = CallersOf(p)'
  BY DEF CallersOf
<1>3. CallersOf(p)' \subseteq Threads
  BY DEF CallersOf
<1>4. /\ Cardinality(CallersOf(p)') \in Nat /\ Cardinality(Places(sendQueue', p)) \in Nat
      /\ Cardinality(Places(registered', p)) \in Nat
  BY <1>1, <1>3, CallersFinite, PlacesFinite
<1> HIDE DEF CallersOf
<1> QED BY <1>2, <1>4

LEMMA ReleasedCount ==
  ASSUME NEW seq \in Seq(Packets), NEW p \in Packets
  PROVE  ReleasePackets(seq)[p] = refCount[p] - Occurrences(seq, p)
BY DEF ReleasePackets, Occurrences, PlacesOf

----------------------------------------------------------------------------
\* A call begins: nobody knows its packet yet.
LEMMA CallAccount ==
  ASSUME SessionInv, TypeOK', AccountInv, NEW t \in AppThreads, NEW o \in Ops, NEW id \in issued,
         NEW q \in Packets \cup {NoPacket}, Call(t, o, id, q)
  PROVE  AccountInv'
<1>1. t \in Threads /\ pkt[t] = NoPacket /\ pkt \in [Threads -> Packets \cup {NoPacket}]
      /\ refCount \in [Packets -> Int]
  BY DEF Call, At, IdleHasNoPacket, TypeOK, Threads, SessionInv, AccountInv
<1>2. /\ pkt' = [pkt EXCEPT ![t] = q] /\ sendQueue' = sendQueue /\ registered' = registered
      /\ \/ q \in Packets /\ refCount[q] = 0 /\ refCount' = [refCount EXCEPT ![q] = 1]
         \/ q = NoPacket /\ refCount' = refCount
  BY DEF Call
<1>3. IdleHasNoPacket'
  BY <1>1, <1>2 DEF IdleHasNoPacket, AccountInv, SessionInv, Call, At, Goto, TypeOK, Threads
<1>4. ASSUME NEW p \in Packets
      PROVE  refCount'[p] = Cardinality(CallersOf(p)') + Cardinality(Places(sendQueue', p))
                              + Cardinality(Places(registered', p))
  <2>1. /\ refCount[p] = Cardinality(CallersOf(p)) + Cardinality(Places(sendQueue, p))
                            + Cardinality(Places(registered, p))
        /\ Cardinality(CallersOf(p)) \in Nat /\ Cardinality(Places(sendQueue, p)) \in Nat
        /\ Cardinality(Places(registered, p)) \in Nat
    BY AccountOf DEF AccountInv, SessionInv
  <2>2. CASE p = q
    <3>1. refCount[p] = 0 /\ refCount'[p] = 1
      BY <1>1, <1>2, <2>2, PacketsAssumption
    <3>2. \A a, b, c \in Nat : a + b + c = 0 => a = 0 /\ b = 0 /\ c = 0
      OBVIOUS
    <3>3. /\ Cardinality(CallersOf(p)) = 0 /\ Cardinality(Places(sendQueue, p)) = 0
          /\ Cardinality(Places(registered, p)) = 0
      BY <2>1, <3>1, <3>2
    <3>4. IsFiniteSet(CallersOf(p))
      BY CallersFinite DEF CallersOf
    <3>5. CallersOf(p) = {}
      BY <3>3, <3>4, FS_EmptySet
    <3>6. CallersOf(p)' = {t}
      BY <1>1, <1>2, <2>2, <3>5 DEF CallersOf
    <3>7. Cardinality(CallersOf(p)') = 1
      BY <3>6, FS_Singleton
    <3> QED BY <1>2, <3>1, <3>3, <3>7
  <2>3. CASE p # q
    <3>1. CallersOf(p)' = CallersOf(p)
      BY <1>1, <1>2, <2>3, PacketsAssumption DEF CallersOf
    <3>2. refCount'[p] = refCount[p]
      BY <1>1, <1>2, <2>3
    <3> QED BY <1>2, <2>1, <3>1, <3>2
  <2> QED BY <2>2, <2>3
<1> QED BY <1>3, <1>4, AccountNext DEF AccountInv

\* It ends: the caller gives back its reference.
LEMMA ReturnAccount ==
  ASSUME SessionInv, TypeOK', AccountInv, NEW t \in Threads, Return(t)
  PROVE  AccountInv'
<1>1. pkt \in [Threads -> Packets \cup {NoPacket}] /\ refCount \in [Packets -> Int]
  BY DEF TypeOK, SessionInv
<1>2. /\ pkt' = [pkt EXCEPT ![t] = NoPacket] /\ sendQueue' = sendQueue /\ registered' = registered
      /\ refCount' = IF pkt[t] = NoPacket THEN refCount
                     ELSE [refCount EXCEPT ![pkt[t]] = @ - 1]
  BY DEF Return
<1>3. IdleHasNoPacket'
  BY <1>1, <1>2 DEF IdleHasNoPacket, AccountInv, SessionInv, Return, At, Goto, TypeOK, Threads
<1>4. ASSUME NEW p \in Packets
      PROVE  refCount'[p] = Cardinality(CallersOf(p)') + Cardinality(Places(sendQueue', p))
                              + Cardinality(Places(registered', p))
  <2>1. /\ refCount[p] = Cardinality(CallersOf(p)) + Cardinality(Places(sendQueue, p))
                            + Cardinality(Places(registered, p))
        /\ Cardinality(CallersOf(p)) \in Nat /\ Cardinality(Places(sendQueue, p)) \in Nat
        /\ Cardinality(Places(registered, p)) \in Nat
    BY AccountOf DEF AccountInv, SessionInv
  <2>2. CASE p = pkt[t]
    <3>1. refCount'[p] = refCount[p] - 1
      BY <1>1, <1>2, <2>2, PacketsAssumption
    <3>2. t \in CallersOf(p) /\ CallersOf(p)' = CallersOf(p) \ {t}
      BY <1>1, <1>2, <2>2, PacketsAssumption DEF CallersOf
    <3>3. IsFiniteSet(CallersOf(p))
      BY CallersFinite DEF CallersOf
    <3>4. Cardinality(CallersOf(p)') = Cardinality(CallersOf(p)) - 1
      BY <3>2, <3>3, FS_RemoveElement
    <3> QED BY <1>2, <2>1, <3>1, <3>4
  <2>3. CASE p # pkt[t]
    <3>1. CallersOf(p)' = CallersOf(p)
      BY <1>1, <1>2, <2>3, PacketsAssumption DEF CallersOf
    <3>2. refCount'[p] = refCount[p]
      BY <1>1, <1>2, <2>3
    <3> QED BY <1>2, <2>1, <3>1, <3>2
  <2> QED BY <2>2, <2>3
<1> QED BY <1>3, <1>4, AccountNext DEF AccountInv

\* A packet is queued, with a reference of its own.
LEMMA EnqueueAccount ==
  ASSUME SessionInv, TypeOK', AccountInv, NEW t \in Threads, Enqueue(t)
  PROVE  AccountInv'
<1> DEFINE k == ses[t]
           e == pkt[t]
           s == Append(sendQueue[k], e)
<1>1. /\ k \in Keys /\ e \in Packets /\ refCount \in [Packets -> Int]
      /\ sendQueue \in [Keys -> Seq(Packets)]
  BY DEF Enqueue, At, Roles, TypeOK, SessionInv
<1>2. sendQueue[k] \in Seq(Packets) /\ s \in Seq(Packets)
  BY <1>1
<1>3. /\ pkt' = pkt /\ sendQueue' = [sendQueue EXCEPT ![k] = s] /\ registered' = registered
      /\ refCount' = [refCount EXCEPT ![e] = @ + 1]
  BY DEF Enqueue, localVars
<1>4. IdleHasNoPacket'
  BY <1>3 DEF IdleHasNoPacket, AccountInv, SessionInv, Enqueue, At, Goto, TypeOK
<1>5. ASSUME NEW p \in Packets
      PROVE  refCount'[p] = Cardinality(CallersOf(p)') + Cardinality(Places(sendQueue', p))
                              + Cardinality(Places(registered', p))
  <2>1. /\ refCount[p] = Cardinality(CallersOf(p)) + Cardinality(Places(sendQueue, p))
                            + Cardinality(Places(registered, p))
        /\ Cardinality(CallersOf(p)) \in Nat /\ Cardinality(Places(sendQueue, p)) \in Nat
        /\ Cardinality(Places(registered, p)) \in Nat
    BY AccountOf DEF AccountInv, SessionInv
  <2>2. CallersOf(p)' = CallersOf(p)
    BY <1>3 DEF CallersOf
  <2>3. Occurrences(s, p) = Occurrences(sendQueue[k], p) + (IF e = p THEN 1 ELSE 0)
        /\ Occurrences(sendQueue[k], p) \in Nat
    BY <1>1, <1>2, OccurrencesAppend, OccurrencesNat
  <2> HIDE DEF s, k, e
  <2>4. Cardinality(Places(sendQueue', p))
          = Cardinality(Places(sendQueue, p)) - Occurrences(sendQueue[k], p) + Occurrences(s, p)
    <3>1. sendQueue \in [Keys -> Seq(Packets)] /\ k \in Keys /\ s \in Seq(Packets)
      BY <1>1, <1>2
    <3>2. Cardinality(Places([sendQueue EXCEPT ![k] = s], p))
            = Cardinality(Places(sendQueue, p)) - Occurrences(sendQueue[k], p) + Occurrences(s, p)
      BY <3>1, PlacesChanged
    <3> QED BY <1>3, <3>2
  <2>5. refCount'[p] = refCount[p] + (IF e = p THEN 1 ELSE 0)
    BY <1>1, <1>3
  <2>6. CASE e = p
    <3>1. refCount'[p] = refCount[p] + 1 /\ Occurrences(s, p) = Occurrences(sendQueue[k], p) + 1
      BY <2>3, <2>5, <2>6
    <3> QED BY <1>3, <2>1, <2>2, <2>3, <2>4, <3>1
  <2>7. CASE e # p
    <3>1. refCount'[p] = refCount[p] /\ Occurrences(s, p) = Occurrences(sendQueue[k], p)
      BY <1>1, <2>1, <2>3, <2>5, <2>7
    <3> QED BY <1>3, <2>1, <2>2, <2>3, <2>4, <3>1
  <2> QED BY <2>6, <2>7
<1> QED BY <1>4, <1>5, AccountNext DEF AccountInv

\* Init frees what the last connection of the slot left in its queue and unsent.
LEMMA InitBuffersAccount ==
  ASSUME SessionInv, TypeOK', AccountInv, InitBuffers
  PROVE  AccountInv'
<1> DEFINE k == ses[Acceptor]
           s == sendQueue[k] \o registered[k]
<1>1. /\ k \in Keys /\ Acceptor \in Threads /\ sendQueue \in [Keys -> Seq(Packets)]
      /\ registered \in [Keys -> Seq(Packets)] /\ refCount \in [Packets -> Int]
  BY DEF InitBuffers, At, Roles, TypeOK, SessionInv, Threads
<1>2. sendQueue[k] \in Seq(Packets) /\ registered[k] \in Seq(Packets) /\ s \in Seq(Packets)
      /\ <<>> \in Seq(Packets)
  BY <1>1, Concatenated
<1>3. /\ pkt' = pkt /\ sendQueue' = [sendQueue EXCEPT ![k] = <<>>]
      /\ registered' = [registered EXCEPT ![k] = <<>>] /\ refCount' = ReleasePackets(s)
  BY DEF InitBuffers, localVars
<1>4. IdleHasNoPacket'
  BY <1>3 DEF IdleHasNoPacket, AccountInv, SessionInv, InitBuffers, At, Goto, TypeOK
<1>5. ASSUME NEW p \in Packets
      PROVE  refCount'[p] = Cardinality(CallersOf(p)') + Cardinality(Places(sendQueue', p))
                              + Cardinality(Places(registered', p))
  <2>1. /\ refCount[p] = Cardinality(CallersOf(p)) + Cardinality(Places(sendQueue, p))
                            + Cardinality(Places(registered, p))
        /\ Cardinality(CallersOf(p)) \in Nat /\ Cardinality(Places(sendQueue, p)) \in Nat
        /\ Cardinality(Places(registered, p)) \in Nat
    BY AccountOf DEF AccountInv, SessionInv
  <2>2. CallersOf(p)' = CallersOf(p)
    BY <1>3 DEF CallersOf
  <2>3. /\ Occurrences(s, p) = Occurrences(sendQueue[k], p) + Occurrences(registered[k], p)
        /\ Occurrences(<<>>, p) = 0
        /\ Occurrences(sendQueue[k], p) \in Nat /\ Occurrences(registered[k], p) \in Nat
    BY <1>2, OccurrencesConcat, OccurrencesEmpty, OccurrencesNat
  <2>4. refCount'[p] = refCount[p] - Occurrences(s, p)
    BY <1>2, <1>3, ReleasedCount
  <2> HIDE DEF s, k
  <2>5. Cardinality(Places(sendQueue', p))
          = Cardinality(Places(sendQueue, p)) - Occurrences(sendQueue[k], p) + Occurrences(<<>>, p)
    <3>1. sendQueue \in [Keys -> Seq(Packets)] /\ k \in Keys /\ <<>> \in Seq(Packets)
      BY <1>1, <1>2
    <3>2. Cardinality(Places([sendQueue EXCEPT ![k] = <<>>], p))
            = Cardinality(Places(sendQueue, p)) - Occurrences(sendQueue[k], p) + Occurrences(<<>>, p)
      BY <3>1, PlacesChanged
    <3> QED BY <1>3, <3>2
  <2>6. Cardinality(Places(registered', p))
          = Cardinality(Places(registered, p)) - Occurrences(registered[k], p) + Occurrences(<<>>, p)
    <3>1. registered \in [Keys -> Seq(Packets)] /\ k \in Keys /\ <<>> \in Seq(Packets)
      BY <1>1, <1>2
    <3>2. Cardinality(Places([registered EXCEPT ![k] = <<>>], p))
            = Cardinality(Places(registered, p)) - Occurrences(registered[k], p) + Occurrences(<<>>, p)
      BY <3>1, PlacesChanged
    <3> QED BY <1>3, <3>2
  <2> QED BY <2>1, <2>2, <2>3, <2>4, <2>5, <2>6
<1> QED BY <1>4, <1>5, AccountNext DEF AccountInv

\* A batch moves from the queue to RegisteredPackets, with its references.
LEMMA RegisterPacketsAccount ==
  ASSUME SessionInv, TypeOK', AccountInv, NEW t \in Threads, RegisterPackets(t)
  PROVE  AccountInv'
<1> DEFINE k == ses[t]
           n == SendBatch(sendQueue[k])
           batch == SubSeq(sendQueue[k], 1, n)
           rest == SubSeq(sendQueue[k], n + 1, Len(sendQueue[k]))
           s == registered[k] \o batch
<1>1. /\ k \in Keys /\ sendQueue \in [Keys -> Seq(Packets)]
      /\ registered \in [Keys -> Seq(Packets)]
  BY DEF RegisterPackets, At, Roles, TypeOK, SessionInv
<1>2. sendQueue[k] \in Seq(Packets) /\ registered[k] \in Seq(Packets)
  BY <1>1
<1>3. n \in 0 .. Len(sendQueue[k])
  BY <1>2, SendBatchType
<1>4. /\ pkt' = pkt /\ sendQueue' = [sendQueue EXCEPT ![k] = rest]
      /\ registered' = [registered EXCEPT ![k] = s] /\ refCount' = refCount
  BY DEF RegisterPackets, localVars
<1>5. IdleHasNoPacket'
  BY <1>4 DEF IdleHasNoPacket, AccountInv, SessionInv, RegisterPackets, At, Goto, TypeOK
<1> HIDE DEF n
<1>6. batch \in Seq(Packets) /\ rest \in Seq(Packets) /\ s \in Seq(Packets)
  BY <1>2, <1>3
<1>7. ASSUME NEW p \in Packets
      PROVE  refCount'[p] = Cardinality(CallersOf(p)') + Cardinality(Places(sendQueue', p))
                              + Cardinality(Places(registered', p))
  <2>1. /\ refCount[p] = Cardinality(CallersOf(p)) + Cardinality(Places(sendQueue, p))
                            + Cardinality(Places(registered, p))
        /\ Cardinality(CallersOf(p)) \in Nat /\ Cardinality(Places(sendQueue, p)) \in Nat
        /\ Cardinality(Places(registered, p)) \in Nat
    BY AccountOf DEF AccountInv, SessionInv
  <2>2. CallersOf(p)' = CallersOf(p)
    BY <1>4 DEF CallersOf
  <2>3. Occurrences(sendQueue[k], p) = Occurrences(batch, p) + Occurrences(rest, p)
    BY <1>2, <1>3, OccurrencesSplit
  <2> HIDE DEF batch, rest
  <2>4. Occurrences(s, p) = Occurrences(registered[k], p) + Occurrences(batch, p)
    BY <1>2, <1>6, OccurrencesConcat
  <2>5. /\ Occurrences(batch, p) \in Nat /\ Occurrences(rest, p) \in Nat
        /\ Occurrences(registered[k], p) \in Nat
    BY <1>2, <1>6, OccurrencesNat
  <2> HIDE DEF s, k
  <2>6. Cardinality(Places(sendQueue', p))
          = Cardinality(Places(sendQueue, p)) - Occurrences(sendQueue[k], p) + Occurrences(rest, p)
    <3>1. sendQueue \in [Keys -> Seq(Packets)] /\ k \in Keys /\ rest \in Seq(Packets)
      BY <1>1, <1>6
    <3>2. Cardinality(Places([sendQueue EXCEPT ![k] = rest], p))
            = Cardinality(Places(sendQueue, p)) - Occurrences(sendQueue[k], p) + Occurrences(rest, p)
      BY <3>1, PlacesChanged
    <3> QED BY <1>4, <3>2
  <2>7. Cardinality(Places(registered', p))
          = Cardinality(Places(registered, p)) - Occurrences(registered[k], p) + Occurrences(s, p)
    <3>1. registered \in [Keys -> Seq(Packets)] /\ k \in Keys /\ s \in Seq(Packets)
      BY <1>1, <1>6
    <3>2. Cardinality(Places([registered EXCEPT ![k] = s], p))
            = Cardinality(Places(registered, p)) - Occurrences(registered[k], p) + Occurrences(s, p)
      BY <3>1, PlacesChanged
    <3> QED BY <1>4, <3>2
  <2> QED BY <1>4, <2>1, <2>2, <2>3, <2>4, <2>5, <2>6, <2>7
<1> QED BY <1>5, <1>7, AccountNext DEF AccountInv

\* A send has completed: its packets are let go.
LEMMA SendDoneAccount ==
  ASSUME SessionInv, TypeOK', AccountInv, NEW w \in Workers, SendDone(w)
  PROVE  AccountInv'
<1> DEFINE k == ses[w]
<1>1. /\ k \in Keys /\ w \in Threads /\ registered \in [Keys -> Seq(Packets)]
      /\ refCount \in [Packets -> Int]
  BY DEF SendDone, At, Roles, TypeOK, SessionInv, Threads
<1>2. registered[k] \in Seq(Packets) /\ <<>> \in Seq(Packets)
  BY <1>1
<1>3. /\ pkt' = pkt /\ sendQueue' = sendQueue /\ registered' = [registered EXCEPT ![k] = <<>>]
      /\ refCount' = ReleasePackets(registered[k])
  BY DEF SendDone, localVars
<1>4. IdleHasNoPacket'
  BY <1>3 DEF IdleHasNoPacket, AccountInv, SessionInv, SendDone, At, Goto, TypeOK
<1>5. ASSUME NEW p \in Packets
      PROVE  refCount'[p] = Cardinality(CallersOf(p)') + Cardinality(Places(sendQueue', p))
                              + Cardinality(Places(registered', p))
  <2>1. /\ refCount[p] = Cardinality(CallersOf(p)) + Cardinality(Places(sendQueue, p))
                            + Cardinality(Places(registered, p))
        /\ Cardinality(CallersOf(p)) \in Nat /\ Cardinality(Places(sendQueue, p)) \in Nat
        /\ Cardinality(Places(registered, p)) \in Nat
    BY AccountOf DEF AccountInv, SessionInv
  <2>2. CallersOf(p)' = CallersOf(p)
    BY <1>3 DEF CallersOf
  <2>3. Occurrences(<<>>, p) = 0 /\ Occurrences(registered[k], p) \in Nat
    BY <1>2, OccurrencesEmpty, OccurrencesNat
  <2>4. refCount'[p] = refCount[p] - Occurrences(registered[k], p)
    BY <1>2, <1>3, ReleasedCount
  <2> HIDE DEF k
  <2>5. Cardinality(Places(registered', p))
          = Cardinality(Places(registered, p)) - Occurrences(registered[k], p) + Occurrences(<<>>, p)
    <3>1. registered \in [Keys -> Seq(Packets)] /\ k \in Keys /\ <<>> \in Seq(Packets)
      BY <1>1, <1>2
    <3>2. Cardinality(Places([registered EXCEPT ![k] = <<>>], p))
            = Cardinality(Places(registered, p)) - Occurrences(registered[k], p) + Occurrences(<<>>, p)
      BY <3>1, PlacesChanged
    <3> QED BY <1>3, <3>2
  <2> QED BY <1>3, <2>1, <2>2, <2>3, <2>4, <2>5
<1> QED BY <1>4, <1>5, AccountNext DEF AccountInv

\* The other steps touch no packet, and end no call.
LEMMA OtherAccount ==
  ASSUME AccountInv, UNCHANGED <<sendQueue, registered, refCount, pkt>>,
         \A t \in Threads : pc'[t] = "idle" => pc[t] = "idle"
  PROVE  AccountInv'
BY DEF AccountInv, PacketAccounting, Stored, Places, IdleHasNoPacket, At

LEMMA ThreadStepAccount ==
  ASSUME SessionInv, TypeOK', AccountInv, NEW t \in Threads, ThreadStep(t)
  PROVE  AccountInv'
<1> USE DEF sendVars, localVars, Goto
<1>1. pc \in [Threads -> Labels]
  BY DEF SessionInv, TypeOK
<1>2. CASE t = Acceptor /\ AcceptStep
  <2>1. CASE InitBuffers
    BY <2>1, InitBuffersAccount
  <2>2. CASE AcceptIncrement \/ InitClearFlag \/ InitId \/ InitConnected \/ OnAccept
    BY <1>1, <2>2, OtherAccount DEF AcceptIncrement, InitClearFlag, InitId, InitConnected,
           OnAccept
  <2> QED BY <1>2, <2>1, <2>2 DEF AcceptStep
<1>3. CASE t \in Workers /\ CompletionStep(t)
  <2>1. CASE SendDone(t)
    BY <1>3, <2>1, SendDoneAccount
  <2>2. CASE SendAgain(t) \/ \E wellFormed \in BOOLEAN : ReceiveDone(t, wellFormed)
    BY <1>1, <2>2, OtherAccount DEF SendAgain, DropSendFlag, ReceiveDone, Jump
  <2> QED BY <1>3, <2>1, <2>2 DEF CompletionStep
<1>4. CASE ApiStep(t)
  <2>1. CASE Enqueue(t)
    BY <2>1, EnqueueAccount
  <2>2. CASE Return(t)
    BY <2>2, ReturnAccount
  <2>3. CASE Check(t)
    BY <1>1, <2>3, OtherAccount DEF Check, Jump, AfterChecks, At
  <2>4. CASE Increment(t) \/ ReadAddress(t) \/ RegisterDisconnect(t) \/ CancelIo(t)
    BY <1>1, <2>4, OtherAccount DEF Increment, ReadAddress, RegisterDisconnect, CancelIo, Jump
  <2> QED BY <1>4, <2>1, <2>2, <2>3, <2>4 DEF ApiStep
<1>5. CASE PostStep(t)
  <2>1. CASE RegisterPackets(t)
    BY <2>1, RegisterPacketsAccount
  <2>2. CASE PostRecv(t) \/ PostSend(t) \/ TakeSendFlag(t) \/ NothingToSend(t)
             \/ CancelIfRegistered(t)
    BY <1>1, <2>2, OtherAccount DEF PostRecv, PostSend, TakeSendFlag, NothingToSend,
           CancelIfRegistered, DropSendFlag, Jump
  <2>3. CASE \E result \in {"pending", "ok", "refused"} :
               WSARecv(t, result) \/ WSASend(t, result)
    BY <1>1, <2>3, OtherAccount DEF WSARecv, WSASend, Submit
  <2> QED BY <1>5, <2>1, <2>2, <2>3 DEF PostStep
<1>6. CASE DecrementStep(t)
  <2>1. CASE DecrementCas(t)
    BY <1>1, <2>1, OtherAccount DEF DecrementCas
  <2>2. CASE DecrementSub(t)
    <3> DEFINE reachedZero == ioCount[ses[t]] = 1 /\ ~releaseFlag[ses[t]]
    <3>1. /\ UNCHANGED <<sendQueue, registered, refCount, pkt>>
          /\ pc' = [pc EXCEPT ![t] = CASE reachedZero -> "dec_undo"
                                     [] ~reachedZero /\ refs[t] > 1 -> "dec_cas"
                                     [] ~reachedZero /\ refs[t] <= 1 -> "return"]
      BY <2>2 DEF DecrementSub
    <3>2. refs[t] \in 0 .. 2
      BY DEF SessionInv, TypeOK
    <3> HIDE DEF reachedZero
    <3>3. \E l \in {"dec_undo", "dec_cas", "return"} : pc' = [pc EXCEPT ![t] = l]
      <4>1. CASE reachedZero
        BY <3>1, <4>1
      <4>2. CASE ~reachedZero /\ refs[t] = 2
        BY <3>1, <4>2
      <4>3. CASE ~reachedZero /\ refs[t] \in {0, 1}
        <5>1. refs[t] <= 1 /\ ~(refs[t] > 1)
          BY <4>3
        <5> QED BY <3>1, <4>3, <5>1
      <4>4. refs[t] = 2 \/ refs[t] \in {0, 1}
        BY <3>2
      <4> QED BY <4>1, <4>2, <4>3, <4>4
    <3> QED BY <1>1, <3>1, <3>3, OtherAccount
  <2>3. CASE DecrementUndo(t)
    BY <1>1, <2>3, OtherAccount DEF DecrementUndo
  <2>4. CASE ReleaseClose(t) \/ ReleasePost(t) \/ ReleasePush(t)
    BY <1>1, <2>4, OtherAccount DEF ReleaseClose, ReleasePost, ReleasePush
  <2> QED BY <1>6, <2>1, <2>2, <2>3, <2>4 DEF DecrementStep
<1> QED BY <1>2, <1>3, <1>4, <1>5, <1>6 DEF ThreadStep

\* The reference count of a packet is the number of its callers and of the places that
\* store it, whatever connections come and go over the slots that hold it: no packet is
\* freed while a session still has it, and none is lost (Session.cpp, Init;
\* NetServer.cpp, the send path; Serializer's reference count).
THEOREM PacketsAccounted == Spec => []PacketAccounting
<1>1. Init => AccountInv
  <2> SUFFICES ASSUME Init PROVE AccountInv
    OBVIOUS
  <2>1. \A p \in Packets : CallersOf(p) = {}
    BY PacketsAssumption DEF Init, CallersOf
  <2>2. \A p \in Packets : Places(sendQueue, p) = {} /\ Places(registered, p) = {}
    BY DEF Init, Places
  <2>3. \A p \in Packets : refCount[p] = 0
    BY DEF Init
  <2>4. Cardinality({}) = 0
    BY FS_EmptySet
  <2>5. PacketAccounting
    BY <2>1, <2>2, <2>3, <2>4 DEF PacketAccounting, Stored, CallersOf
  <2> QED BY <2>5 DEF AccountInv, IdleHasNoPacket, Init
<1>2. SessionInv /\ SessionInv' /\ AccountInv /\ [Next]_vars => AccountInv'
  <2> SUFFICES ASSUME SessionInv, SessionInv', AccountInv, [Next]_vars PROVE AccountInv'
    OBVIOUS
  <2> USE DEF sendVars, localVars, Goto
  <2>1. TypeOK' /\ pc \in [Threads -> Labels]
    BY DEF SessionInv, TypeOK
  <2>2. CASE UNCHANGED vars
    BY <2>2, OtherAccount DEF vars
  <2>3. ASSUME NEW k \in Keys, AcceptPop(k) \/ KernelStep(k) \/ PeerReset(k)
        PROVE  AccountInv'
    BY <2>1, <2>3, OtherAccount DEF AcceptPop, KernelStep, PeerReset, RecvCompletes,
           SendCompletes, KernelCompletes
  <2>4. ASSUME NEW t \in AppThreads, NEW o \in Ops, NEW id \in issued,
               NEW p \in Packets \cup {NoPacket}, Call(t, o, id, p)
        PROVE  AccountInv'
    BY <2>1, <2>4, CallAccount
  <2>5. ASSUME NEW t \in Threads, ThreadStep(t)
        PROVE  AccountInv'
    BY <2>1, <2>5, ThreadStepAccount
  <2>6. ASSUME NEW w \in Workers, NEW k \in Keys, CompleteSend(w, k) \/ CompleteRecv(w, k)
        PROVE  AccountInv'
    BY <2>1, <2>6, OtherAccount DEF CompleteSend, CompleteRecv, Complete
  <2>7. ASSUME NEW w \in Workers, NEW id \in releaseNotices, OnRelease(w, id)
        PROVE  AccountInv'
    BY <2>7, OtherAccount DEF OnRelease
  <2>8. CASE Terminated
    BY <2>2, <2>8 DEF Terminated
  <2> QED BY <2>2, <2>3, <2>4, <2>5, <2>6, <2>7, <2>8 DEF Next
<1> QED BY <1>1, <1>2, SessionInvariant, PTL DEF Spec, AccountInv
=============================================================================
