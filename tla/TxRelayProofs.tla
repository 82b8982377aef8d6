--------------------------- MODULE TxRelayProofs ---------------------------
(***************************************************************************)
(* Proofs about TxRelay: the two orphan maps always agree, and the cascade *)
(* leaves no transaction behind that the relayed ones released.            *)
(***************************************************************************)
EXTENDS TxRelay, ChainDataProofs, FiniteSetTheorems, SequenceTheorems

(***************************************************************************)
(* mapOrphanTransactionsByPrev                                             *)
(***************************************************************************)
IsByPrev(byPrev) ==
    /\ DOMAIN byPrev \subseteq Tx
    /\ byPrev \in [DOMAIN byPrev -> SUBSET Tx]

LEMMA ParentsType ==
    ASSUME NEW t \in Tx
    PROVE  Parents(t) \subseteq Tx
BY TxAssumption DEF Parents, OutPoint

(* Looking an entry up changes none.                                       *)
LEMMA LookedAt ==
    ASSUME NEW byPrev, IsByPrev(byPrev), NEW p \in Tx
    PROVE  /\ IsByPrev(Looked(byPrev, p))
           /\ \A q : At(Looked(byPrev, p), q) = At(byPrev, q)
BY DEF IsByPrev, Looked, At

(* Adding t enters it under each of its parents.                           *)
LEMMA WithAt ==
    ASSUME NEW byPrev, IsByPrev(byPrev), NEW t \in Tx
    PROVE  /\ IsByPrev(ByPrevWith(byPrev, t))
           /\ \A q : At(ByPrevWith(byPrev, t), q) =
                        At(byPrev, q) \cup (IF q \in Parents(t) THEN {t} ELSE {})
BY ParentsType DEF IsByPrev, ByPrevWith, At

(* Erasing takes what is erased out of every entry, and nothing else.      *)
LEMMA WithoutAt ==
    ASSUME NEW byPrev, IsByPrev(byPrev), NEW gone
    PROVE  /\ IsByPrev(ByPrevWithout(byPrev, gone))
           /\ \A q : At(ByPrevWithout(byPrev, gone), q) = At(byPrev, q) \ gone
<1> DEFINE dropped == UNION {Parents(t) : t \in gone}
           kept == {p \in DOMAIN byPrev : p \in dropped => ~(byPrev[p] \subseteq gone)}
<1>1. ByPrevWithout(byPrev, gone) = [q \in kept |-> byPrev[q] \ gone]
  BY DEF ByPrevWithout
<1>2. \A q \in DOMAIN byPrev \ kept : byPrev[q] \ gone = {}
  OBVIOUS
<1> HIDE DEF kept
<1>3. kept \subseteq DOMAIN byPrev
  BY DEF kept
<1>4. IsByPrev(ByPrevWithout(byPrev, gone))
  BY <1>1, <1>3 DEF IsByPrev
<1>5. \A q : At(ByPrevWithout(byPrev, gone), q) = At(byPrev, q) \ gone
  BY <1>1, <1>2, <1>3 DEF At
<1> QED
  BY <1>4, <1>5

(***************************************************************************)
(* The inductive invariant                                                 *)
(***************************************************************************)
(* The parts of the state agree with each other.                           *)
IndexInv == TypeOK /\ IsFiniteSet(mapOrphanTransactions) /\ Indexed(mempool) /\ OrphansIndexed

(* The transactions whose orphans the loop will turn to.                   *)
Behind == {job.queue[i] : i \in 2..Len(job.queue)}

(* A transaction that is held although its parents were all accepted is    *)
(* still to be visited, directly or when the loop turns to a parent, or    *)
(* goes when the handler ends; one that was accepted goes then too.        *)
CascadeInv ==
    /\ relayed \subseteq mempool.mapTx
    /\ job.queue = << >> => job = Idle
    /\ \A t \in mapOrphanTransactions :
          Parents(t) \subseteq relayed =>
             t \in job.todo \cup job.erase \/ Parents(t) \cap Behind # {}
    /\ mapOrphanTransactions \cap relayed \subseteq job.erase

(***************************************************************************)
(* IndexInv                                                                *)
(***************************************************************************)
LEMMA InitIndexInv == Init => IndexInv
<1> SUFFICES ASSUME Init PROVE IndexInv
  OBVIOUS
<1>1. IsFiniteSet({}) /\ Cardinality({}) = 0
  BY FS_EmptySet
<1>2. TypeOK
  BY <1>1, EmptyPoolIndexed, TreeAssumption, RelayAssumption DEF Init, TypeOK, Idle
<1>3. OrphansIndexed
  BY DEF Init, OrphansIndexed, Waiting, At
<1> QED
  BY <1>1, <1>2, <1>3, EmptyPoolIndexed DEF Init, IndexInv

(* A step that leaves the orphan maps alone, or only looks entries up.     *)
LEMMA SameOrphans ==
    ASSUME OrphansIndexed, mapOrphanTransactions' = mapOrphanTransactions,
           \A q : At(mapOrphanTransactionsByPrev', q) = At(mapOrphanTransactionsByPrev, q)
    PROVE  OrphansIndexed'
BY DEF OrphansIndexed, Waiting

(* Accepting one transaction leaves a consistent pool.                     *)
LEMMA AcceptedPool ==
    ASSUME IsPool(mempool), Indexed(mempool), NEW t \in Tx, Acceptable(mempool, t)
    PROVE  /\ IsPool(AddUnchecked(mempool, {t}))
           /\ Indexed(AddUnchecked(mempool, {t}))
           /\ AddUnchecked(mempool, {t}).mapTx = mempool.mapTx \cup {t}
<1>1. \A s, u \in {t} : ~Conflict(s, u)
  BY DEF Conflict
<1>2. \A u \in {t} : vin[u] \cap DOMAIN mempool.mapNextTx = {}
  BY DEF Acceptable
<1> QED
  BY <1>1, <1>2, AddUncheckedIndexed

(* So does a handler's accept, with what the wallet adds beside it.        *)
LEMMA AcceptPool ==
    ASSUME IsPool(mempool), Indexed(mempool), NEW t \in Tx, Accept(t)
    PROVE  /\ IsPool(mempool') /\ Indexed(mempool')
           /\ mempool.mapTx \cup {t} \subseteq mempool'.mapTx
<1>1. PICK between \in ReacceptedBetween(mempool, index, WalletTx, {t}), late \in SUBSET WalletTx :
          late \subseteq between /\ mempool' = AddRaced(mempool, between, late, {t})
  BY DEF Accept, ReacceptedBetween
<1>2. Acceptable(mempool, t)
  BY DEF Accept, Accepts, AcceptOK
<1> DEFINE ts == {t}
           new == AddRaced(mempool, between, late, ts)
<1>3. ts \in SUBSET Tx /\ \A s, u \in ts : ~Conflict(s, u)
  BY DEF Conflict
<1>4. /\ between \in SUBSET Tx
      /\ \A r, u \in between : ~Conflict(r, u)
      /\ \A u \in between : vin[u] \cap DOMAIN mempool.mapNextTx = {}
  BY RelayAssumption DEF ReacceptedBetween, Acceptable
<1>5. \A u \in between \cup ts : vin[u] \cap DOMAIN mempool.mapNextTx = {}
  BY <1>2, <1>4 DEF Acceptable
<1> HIDE DEF ts
<1>6. IsPool(new) /\ Indexed(new) /\ new.mapTx = mempool.mapTx \cup between \cup ts
  BY <1>1, <1>3, <1>4, <1>5, AddRacedIndexed
<1> QED
  BY <1>1, <1>6 DEF ts

(* The loop turns to the orphans of the queue's head.                      *)
LEMMA TurnToInv ==
    ASSUME TypeOK, OrphansIndexed, NEW queue \in Seq(Tx), queue # << >>,
           NEW erase \in SUBSET Tx, TurnTo(queue, erase),
           mapOrphanTransactions' = mapOrphanTransactions
    PROVE  /\ job' \in [queue : Seq(Tx), todo : SUBSET Tx, erase : SUBSET Tx]
           /\ IsByPrev(mapOrphanTransactionsByPrev')
           /\ OrphansIndexed'
           /\ job'.todo = {t \in mapOrphanTransactions : Head(queue) \in Parents(t)}
<1>1. Head(queue) \in Tx
  BY HeadTailProperties
<1>2. Waiting(Head(queue)) = {t \in mapOrphanTransactions : Head(queue) \in Parents(t)}
  BY <1>1 DEF OrphansIndexed
<1>3. IsByPrev(mapOrphanTransactionsByPrev)
  BY DEF TypeOK, IsByPrev
<1>4. /\ IsByPrev(mapOrphanTransactionsByPrev')
      /\ \A q : At(mapOrphanTransactionsByPrev', q) = At(mapOrphanTransactionsByPrev, q)
  BY <1>1, <1>3, LookedAt DEF TurnTo
<1>5. OrphansIndexed'
  BY <1>4, SameOrphans
<1> QED
  BY <1>2, <1>4, <1>5 DEF TurnTo, TypeOK

(* What LimitOrphanTxSize leaves is within the limit.                      *)
LEMMA EvictionsFit ==
    ASSUME NEW held, IsFiniteSet(held), NEW gone \in Evictions(held)
    PROVE  /\ IsFiniteSet(held \ gone)
           /\ Cardinality(held \ gone) <= MAX_ORPHAN_TRANSACTIONS
<1>1. gone \subseteq held
  BY DEF Evictions
<1>2. held \cap gone = gone
  BY <1>1
<1>3. /\ IsFiniteSet(held \ gone)
      /\ Cardinality(held \ gone) = Cardinality(held) - Cardinality(gone)
  BY <1>2, FS_Difference
<1>4. Cardinality(held) \in Nat
  BY FS_CardinalityType
<1>5. Cardinality(gone) =
        IF Cardinality(held) > MAX_ORPHAN_TRANSACTIONS
        THEN Cardinality(held) - MAX_ORPHAN_TRANSACTIONS ELSE 0
  BY DEF Evictions
<1> QED
  BY <1>3, <1>4, <1>5, RelayAssumption

LEMMA AddOrphanTxInv ==
    ASSUME IndexInv, NEW t \in Tx, AddOrphanTx(t)
    PROVE  IndexInv'
<1> USE DEF IndexInv
<1> DEFINE held == mapOrphanTransactions \cup {t}
           withT == ByPrevWith(mapOrphanTransactionsByPrev, t)
<1>1. PICK gone \in Evictions(held) :
        /\ mapOrphanTransactions' = held \ gone
        /\ mapOrphanTransactionsByPrev' = ByPrevWithout(withT, gone)
  BY DEF AddOrphanTx
<1>2. UNCHANGED <<pindexBest, mempool, relayed, job>>
  BY DEF AddOrphanTx
<1>3. IsFiniteSet(held)
  BY FS_AddElement
<1>4. /\ IsByPrev(withT)
      /\ \A q : At(withT, q) = At(mapOrphanTransactionsByPrev, q)
                               \cup (IF q \in Parents(t) THEN {t} ELSE {})
  BY WithAt DEF TypeOK, IsByPrev
<1>5. IsFiniteSet(mapOrphanTransactions')
      /\ Cardinality(mapOrphanTransactions') <= MAX_ORPHAN_TRANSACTIONS
  BY <1>1, <1>3, EvictionsFit
<1> HIDE DEF withT
<1>6. /\ IsByPrev(mapOrphanTransactionsByPrev')
      /\ \A q : At(mapOrphanTransactionsByPrev', q) = At(withT, q) \ gone
  BY <1>1, <1>4, WithoutAt
<1>7. OrphansIndexed'
  BY <1>1, <1>4, <1>6 DEF OrphansIndexed, Waiting
<1>8. TypeOK'
  BY <1>1, <1>2, <1>5, <1>6 DEF TypeOK, IsByPrev
<1> QED
  BY <1>2, <1>5, <1>7, <1>8

LEMMA EraseOrphansInv ==
    ASSUME IndexInv, EraseOrphans
    PROVE  IndexInv'
<1> USE DEF IndexInv
<1> DEFINE gone == job.erase \cap mapOrphanTransactions
<1>1. /\ mapOrphanTransactions' = mapOrphanTransactions \ gone
      /\ mapOrphanTransactionsByPrev' = ByPrevWithout(mapOrphanTransactionsByPrev, gone)
      /\ job' = Idle
      /\ UNCHANGED <<pindexBest, mempool, relayed>>
  BY DEF EraseOrphans
<1> HIDE DEF gone
<1>2. /\ IsByPrev(mapOrphanTransactionsByPrev')
      /\ \A q : At(mapOrphanTransactionsByPrev', q) =
                    At(mapOrphanTransactionsByPrev, q) \ gone
  BY <1>1, WithoutAt DEF TypeOK, IsByPrev
<1>3. OrphansIndexed'
  BY <1>1, <1>2 DEF OrphansIndexed, Waiting
<1>4. /\ IsFiniteSet(mapOrphanTransactions')
      /\ Cardinality(mapOrphanTransactions') <= Cardinality(mapOrphanTransactions)
  BY <1>1, FS_Subset
<1>5. /\ Cardinality(mapOrphanTransactions') \in Nat
      /\ Cardinality(mapOrphanTransactions) \in Nat
  BY <1>4, FS_CardinalityType
<1>6. Cardinality(mapOrphanTransactions') <= MAX_ORPHAN_TRANSACTIONS
  BY <1>4, <1>5, RelayAssumption DEF TypeOK
<1>7. TypeOK'
  BY <1>1, <1>2, <1>6 DEF TypeOK, IsByPrev, Idle
<1> QED
  BY <1>1, <1>3, <1>4, <1>7

LEMMA SetBestChainInv ==
    ASSUME IndexInv, NEW b \in Block, SetBestChain(b)
    PROVE  IndexInv' /\ relayed' \subseteq relayed /\ relayed' \subseteq mempool'.mapTx
<1> USE DEF IndexInv
<1> DEFINE inBlocks(bs) == UNION {txs(c) : c \in bs}
           back == inBlocks(Ancestors[pindexBest] \ Ancestors[b])
           forward == inBlocks(Ancestors[b] \ Ancestors[pindexBest])
<1>1. PICK between \in SUBSET WalletTx, R \in SUBSET back, late \in SUBSET WalletTx :
         /\ R \in Resurrections(mempool, between, back)
         /\ between \in ReacceptedBetween(mempool, TxIndexOf[b], WalletTx, R)
         /\ late \subseteq between
         /\ mempool' = PoolAfter(mempool, between, late, R, forward)
  BY DEF SetBestChain, Resurrections
<1>2. /\ pindexBest' = b
      /\ relayed' = relayed \cap mempool'.mapTx
      /\ UNCHANGED <<orphanVars, job>>
  BY DEF SetBestChain
<1>3. back \subseteq Tx
  BY TxsType, AncestorsType DEF TypeOK
<1>4. /\ R \in SUBSET Tx
      /\ \A s, t \in R : ~Conflict(s, t)
      /\ \A t \in R : vin[t] \cap DOMAIN mempool.mapNextTx = {}
  BY <1>1, <1>3 DEF Resurrections, Acceptable
<1>5. /\ between \in SUBSET Tx
      /\ \A s, t \in between : ~Conflict(s, t)
      /\ \A t \in between : vin[t] \cap DOMAIN mempool.mapNextTx = {}
  BY <1>1, RelayAssumption DEF ReacceptedBetween, Acceptable
<1>6. IsPool(mempool') /\ Indexed(mempool')
  <2>1. \A t \in between \cup R : vin[t] \cap DOMAIN mempool.mapNextTx = {}
    BY <1>4, <1>5
  <2>2. IsPool(AddRaced(mempool, between, late, R)) /\ Indexed(AddRaced(mempool, between, late, R))
    BY <1>1, <1>4, <1>5, <2>1, AddRacedIndexed DEF TypeOK
  <2> HIDE DEF forward, back
  <2> QED
    BY <1>1, <2>2, RemoveIndexed DEF PoolAfter
<1> HIDE DEF forward, back
<1>7. OrphansIndexed'
  BY <1>2, SameOrphans DEF orphanVars
<1>8. TypeOK'
  BY <1>2, <1>6 DEF TypeOK, orphanVars
<1> QED
  BY <1>2, <1>6, <1>7, <1>8 DEF orphanVars

(* A transaction enters the pool by another way than the handler.          *)
LEMMA OtherWayInv ==
    ASSUME IndexInv, NEW t \in Tx, SubmitTransaction(t) \/ ReacceptWalletTransaction(t)
    PROVE  IndexInv' /\ mempool'.mapTx = mempool.mapTx \cup {t}
<1> USE DEF IndexInv
<1>1. /\ Acceptable(mempool, t)
      /\ mempool' = AddUnchecked(mempool, {t})
      /\ UNCHANGED <<pindexBest, orphanVars, relayed, job>>
  BY DEF SubmitTransaction, ReacceptWalletTransaction, Accepts, AcceptOK
<1>2. IsPool(mempool') /\ Indexed(mempool') /\ mempool'.mapTx = mempool.mapTx \cup {t}
  BY <1>1, AcceptedPool DEF TypeOK
<1>3. OrphansIndexed'
  BY <1>1, SameOrphans DEF orphanVars
<1>4. TypeOK'
  BY <1>1, <1>2 DEF TypeOK, orphanVars
<1> QED
  BY <1>1, <1>2, <1>3, <1>4 DEF orphanVars

LEMMA ReceiveTxInv ==
    ASSUME IndexInv, NEW t \in Tx, ReceiveTx(t)
    PROVE  /\ IndexInv'
           /\ job' = [queue |-> <<t>>, erase |-> {t},
                      todo |-> {u \in mapOrphanTransactions : t \in Parents(u)}]
           /\ mempool.mapTx \cup {t} \subseteq mempool'.mapTx
<1> USE DEF IndexInv
<1>1. /\ Accept(t)
      /\ relayed' = relayed \cup {t}
      /\ TurnTo(<<t>>, {t})
      /\ UNCHANGED <<pindexBest, mapOrphanTransactions>>
  BY DEF ReceiveTx
<1>2. /\ IsPool(mempool') /\ Indexed(mempool')
      /\ mempool.mapTx \cup {t} \subseteq mempool'.mapTx
  BY <1>1, AcceptPool DEF TypeOK
<1>3. <<t>> \in Seq(Tx) /\ <<t>> # << >> /\ Head(<<t>>) = t /\ {t} \in SUBSET Tx
  OBVIOUS
<1>4. /\ job' \in [queue : Seq(Tx), todo : SUBSET Tx, erase : SUBSET Tx]
      /\ IsByPrev(mapOrphanTransactionsByPrev')
      /\ OrphansIndexed'
      /\ job'.todo = {u \in mapOrphanTransactions : Head(<<t>>) \in Parents(u)}
  BY <1>1, <1>3, TurnToInv
<1>5. TypeOK'
  BY <1>1, <1>2, <1>4 DEF TypeOK, IsByPrev
<1> QED
  BY <1>1, <1>2, <1>3, <1>4, <1>5 DEF TurnTo

LEMMA AcceptOrphanTxInv ==
    ASSUME IndexInv, NEW t \in Tx, AcceptOrphanTx(t)
    PROVE  IndexInv' /\ mempool.mapTx \cup {t} \subseteq mempool'.mapTx
<1> USE DEF IndexInv
<1>1. /\ Accept(t)
      /\ relayed' = relayed \cup {t}
      /\ job' = [queue |-> Append(job.queue, t), todo |-> job.todo \ {t},
                 erase |-> job.erase \cup {t}]
      /\ UNCHANGED <<pindexBest, orphanVars>>
  BY DEF AcceptOrphanTx
<1>2. /\ IsPool(mempool') /\ Indexed(mempool')
      /\ mempool.mapTx \cup {t} \subseteq mempool'.mapTx
  BY <1>1, AcceptPool DEF TypeOK
<1>3. OrphansIndexed'
  BY <1>1, SameOrphans DEF orphanVars
<1>4. job' \in [queue : Seq(Tx), todo : SUBSET Tx, erase : SUBSET Tx]
  BY <1>1, AppendProperties DEF TypeOK
<1>5. TypeOK'
  BY <1>1, <1>2, <1>4 DEF TypeOK, orphanVars
<1> QED
  BY <1>1, <1>2, <1>3, <1>5 DEF orphanVars

(* What is behind the head of a queue of several is a queue again.         *)
LEMMA LongTail ==
    ASSUME NEW queue \in Seq(Tx), Len(queue) > 1
    PROVE  Tail(queue) \in Seq(Tx) /\ Tail(queue) # << >>
<1> DEFINE rest == Tail(queue)
<1>1. queue # << >>
  OBVIOUS
<1>2. rest \in Seq(Tx) /\ Len(rest) = Len(queue) - 1
  BY <1>1, HeadTailProperties
<1>3. Len(queue) \in Nat
  BY LenProperties
<1> HIDE DEF rest
<1>4. Len(rest) # 0
  BY <1>2, <1>3
<1>5. rest # << >>
  BY <1>4
<1> QED
  BY <1>2, <1>5 DEF rest

LEMMA NextInWorkQueueInv ==
    ASSUME IndexInv, NextInWorkQueue
    PROVE  /\ IndexInv'
           /\ Tail(job.queue) \in Seq(Tx) /\ Tail(job.queue) # << >>
           /\ job' = [queue |-> Tail(job.queue), erase |-> job.erase,
                      todo |-> {u \in mapOrphanTransactions :
                                    Head(Tail(job.queue)) \in Parents(u)}]
<1> USE DEF IndexInv
<1>1. /\ Len(job.queue) > 1
      /\ TurnTo(Tail(job.queue), job.erase)
      /\ UNCHANGED <<pindexBest, mempool, mapOrphanTransactions, relayed>>
  BY DEF NextInWorkQueue
<1>2. job.queue \in Seq(Tx) /\ job.erase \in SUBSET Tx
  BY DEF TypeOK
<1>3. Tail(job.queue) \in Seq(Tx) /\ Tail(job.queue) # << >>
  BY <1>1, <1>2, LongTail
<1>4. /\ job' \in [queue : Seq(Tx), todo : SUBSET Tx, erase : SUBSET Tx]
      /\ IsByPrev(mapOrphanTransactionsByPrev')
      /\ OrphansIndexed'
      /\ job'.todo = {u \in mapOrphanTransactions : Head(Tail(job.queue)) \in Parents(u)}
  BY <1>1, <1>2, <1>3, TurnToInv
<1>5. TypeOK'
  BY <1>1, <1>4 DEF TypeOK, IsByPrev
<1> QED
  BY <1>1, <1>3, <1>4, <1>5 DEF TurnTo

(* An orphan is dropped or kept: only the handler's own state changes.     *)
LEMMA JudgedInv ==
    ASSUME IndexInv, NEW t \in Tx, RefuseOrphanTx(t) \/ KeepOrphanTx(t)
    PROVE  IndexInv'
<1> USE DEF IndexInv
<1>1. /\ job' \in [queue : Seq(Tx), todo : SUBSET Tx, erase : SUBSET Tx]
      /\ UNCHANGED <<pindexBest, mempool, orphanVars, relayed>>
  BY DEF RefuseOrphanTx, KeepOrphanTx, TypeOK
<1>2. OrphansIndexed'
  BY <1>1, SameOrphans DEF orphanVars
<1>3. TypeOK'
  BY <1>1 DEF TypeOK, orphanVars
<1> QED
  BY <1>1, <1>2, <1>3 DEF orphanVars

LEMMA IndexInvStep == IndexInv /\ [Next]_vars => IndexInv'
<1> SUFFICES ASSUME IndexInv, [Next]_vars PROVE IndexInv'
  OBVIOUS
<1>1. ASSUME NEW t \in Tx,
             \/ ReceiveTx(t) \/ AddOrphanTx(t)
             \/ AcceptOrphanTx(t) \/ RefuseOrphanTx(t) \/ KeepOrphanTx(t)
             \/ SubmitTransaction(t) \/ ReacceptWalletTransaction(t)
      PROVE  IndexInv'
  BY <1>1, ReceiveTxInv, AddOrphanTxInv, AcceptOrphanTxInv, JudgedInv, OtherWayInv
<1>2. CASE NextInWorkQueue \/ EraseOrphans
  BY <1>2, NextInWorkQueueInv, EraseOrphansInv
<1>3. ASSUME NEW b \in Block, SetBestChain(b) PROVE IndexInv'
  BY <1>3, SetBestChainInv
<1>4. CASE UNCHANGED vars
  BY <1>4, SameOrphans DEF IndexInv, TypeOK, vars, orphanVars
<1> QED
  BY <1>1, <1>2, <1>3, <1>4 DEF Next

(* Types, and the limit on what is held.                                   *)
THEOREM TypeCorrect == Spec => []TypeOK
<1>1. IndexInv => TypeOK
  BY DEF IndexInv
<1> QED
  BY <1>1, InitIndexInv, IndexInvStep, PTL DEF Spec

(* The two orphan maps always agree, so the cascade follows no pointer to  *)
(* a transaction that was erased (main.cpp 212, 2857).                     *)
THEOREM MapsAgree == Spec => []OrphansIndexed
<1>1. IndexInv => OrphansIndexed
  BY DEF IndexInv
<1> QED
  BY <1>1, InitIndexInv, IndexInvStep, PTL DEF Spec

(***************************************************************************)
(* CascadeInv                                                              *)
(***************************************************************************)
LEMMA InitCascadeInv == Init => CascadeInv
BY DEF Init, CascadeInv, Idle

(* Looking into the queue of a handler that runs.                          *)
LEMMA TodoRuns ==
    ASSUME CascadeInv, NEW t \in job.todo
    PROVE  job.queue # << >>
BY DEF CascadeInv, Idle

LEMMA ReceiveTxCascade ==
    ASSUME IndexInv, CascadeInv, NEW t \in Tx, ReceiveTx(t)
    PROVE  CascadeInv'
<1>1. /\ job = Idle
      /\ relayed' = relayed \cup {t}
      /\ mapOrphanTransactions' = mapOrphanTransactions
  BY DEF ReceiveTx, Ready
<1>2. /\ job' = [queue |-> <<t>>, erase |-> {t},
                 todo |-> {u \in mapOrphanTransactions : t \in Parents(u)}]
      /\ mempool.mapTx \cup {t} \subseteq mempool'.mapTx
  BY ReceiveTxInv
<1>3. /\ job.todo = {} /\ job.erase = {} /\ Behind = {}
  BY <1>1 DEF Idle, Behind
<1>4. \A u \in mapOrphanTransactions : ~(Parents(u) \subseteq relayed)
  BY <1>3 DEF CascadeInv
<1>5. \A u \in mapOrphanTransactions : Parents(u) \subseteq relayed \cup {t} => u \in job'.todo
  BY <1>2, <1>4
<1>6. mapOrphanTransactions \cap relayed = {}
  BY <1>3 DEF CascadeInv
<1> QED
  BY <1>1, <1>2, <1>5, <1>6 DEF CascadeInv

LEMMA AddOrphanTxCascade ==
    ASSUME IndexInv, CascadeInv, NEW t \in Tx, AddOrphanTx(t)
    PROVE  CascadeInv'
<1>1. PICK gone \in Evictions(mapOrphanTransactions \cup {t}) :
        mapOrphanTransactions' = (mapOrphanTransactions \cup {t}) \ gone
  BY DEF AddOrphanTx
<1>2. Misses(t) /\ UNCHANGED <<mempool, relayed, job>>
  BY DEF AddOrphanTx
<1>3. t \notin relayed /\ ~(Parents(t) \subseteq relayed)
  BY <1>2 DEF Misses, Acceptable, InputsFound, Parents, CascadeInv
<1> QED
  BY <1>1, <1>2, <1>3 DEF CascadeInv, Behind

LEMMA AcceptOrphanTxCascade ==
    ASSUME IndexInv, CascadeInv, NEW t \in Tx, AcceptOrphanTx(t)
    PROVE  CascadeInv'
<1>1. /\ t \in job.todo
      /\ relayed' = relayed \cup {t}
      /\ job' = [queue |-> Append(job.queue, t), todo |-> job.todo \ {t},
                 erase |-> job.erase \cup {t}]
      /\ mapOrphanTransactions' = mapOrphanTransactions
  BY DEF AcceptOrphanTx, orphanVars
<1>2. mempool.mapTx \cup {t} \subseteq mempool'.mapTx
  BY AcceptOrphanTxInv
<1>3. job.queue \in Seq(Tx) /\ job.queue # << >>
  BY <1>1, TodoRuns DEF IndexInv, TypeOK
<1>4. Behind' = Behind \cup {t}
  <2>1. /\ Len(job'.queue) = Len(job.queue) + 1
        /\ \A i \in 1..Len(job.queue) : job'.queue[i] = job.queue[i]
        /\ job'.queue[Len(job.queue) + 1] = t
    BY <1>1, <1>3, AppendProperties
  <2>2. Len(job.queue) \in Nat /\ Len(job.queue) > 0
    BY <1>3, EmptySeq, LenProperties
  <2> QED
    BY <2>1, <2>2 DEF Behind
<1>5. job'.queue # << >>
  BY <1>1, <1>3, AppendProperties
<1>6. ASSUME NEW u \in mapOrphanTransactions, Parents(u) \subseteq relayed'
      PROVE  u \in job'.todo \cup job'.erase \/ Parents(u) \cap Behind' # {}
  <2>1. CASE t \in Parents(u)
    BY <1>4, <2>1
  <2>2. CASE Parents(u) \subseteq relayed
    BY <1>1, <1>4, <2>2 DEF CascadeInv
  <2> QED
    BY <1>1, <1>6, <2>1, <2>2
<1> QED
  BY <1>1, <1>2, <1>5, <1>6 DEF CascadeInv

LEMMA JudgedCascade ==
    ASSUME IndexInv, CascadeInv, NEW t \in Tx, RefuseOrphanTx(t) \/ KeepOrphanTx(t)
    PROVE  CascadeInv'
<1>1. UNCHANGED <<mempool, mapOrphanTransactions, relayed>>
  BY DEF RefuseOrphanTx, KeepOrphanTx, orphanVars
<1>2. job \in [queue : Seq(Tx), todo : SUBSET Tx, erase : SUBSET Tx] /\ job.queue # << >>
  BY TodoRuns DEF RefuseOrphanTx, KeepOrphanTx, IndexInv, TypeOK
<1>3. CASE RefuseOrphanTx(t)
  <2>1. job' = [job EXCEPT !.todo = @ \ {t}, !.erase = @ \cup {t}]
    BY <1>3 DEF RefuseOrphanTx
  <2>2. /\ job'.queue = job.queue /\ job'.todo = job.todo \ {t}
        /\ job'.erase = job.erase \cup {t}
    BY <1>2, <2>1
  <2> QED
    BY <1>1, <1>2, <2>2 DEF CascadeInv, Behind
<1>4. CASE KeepOrphanTx(t)
  <2>1. job' = [job EXCEPT !.todo = @ \ {t}] /\ Misses(t)
    BY <1>4 DEF KeepOrphanTx
  <2>2. /\ job'.queue = job.queue /\ job'.todo = job.todo \ {t} /\ job'.erase = job.erase
    BY <1>2, <2>1
  <2>3. ~(Parents(t) \subseteq relayed)
    BY <2>1 DEF Misses, InputsFound, Parents, CascadeInv
  <2> QED
    BY <1>1, <1>2, <2>2, <2>3 DEF CascadeInv, Behind
<1> QED
  BY <1>3, <1>4

LEMMA NextInWorkQueueCascade ==
    ASSUME IndexInv, CascadeInv, NextInWorkQueue
    PROVE  CascadeInv'
<1>1. job.todo = {} /\ UNCHANGED <<mempool, mapOrphanTransactions, relayed>>
  BY DEF NextInWorkQueue
<1> DEFINE rest == Tail(job.queue)
<1>2. /\ rest \in Seq(Tx) /\ rest # << >>
      /\ job' = [queue |-> rest, erase |-> job.erase,
                 todo |-> {u \in mapOrphanTransactions : Head(rest) \in Parents(u)}]
  BY NextInWorkQueueInv
<1>3. Behind \subseteq Behind' \cup {Head(rest)}
  <2>1. job.queue \in Seq(Tx) /\ Len(job.queue) > 1
    BY DEF NextInWorkQueue, IndexInv, TypeOK
  <2>2. job.queue # << >>
    BY <2>1
  <2>3. /\ Len(rest) = Len(job.queue) - 1
        /\ \A i \in 1..Len(rest) : rest[i] = job.queue[i + 1]
    BY <2>1, <2>2, HeadTailProperties
  <2>4. Head(rest) = rest[1]
    BY <1>2
  <2>5. job'.queue = rest
    BY <1>2
  <2> HIDE DEF rest
  <2>6. ASSUME NEW i \in 2..Len(job.queue)
        PROVE  job.queue[i] \in Behind' \cup {Head(rest)}
    <3>1. Len(job.queue) \in Nat
      BY <2>1, LenProperties
    <3>2. i - 1 \in 1..Len(rest) /\ rest[i - 1] = job.queue[i]
      BY <2>3, <3>1
    <3>3. CASE i = 2
      BY <2>4, <3>2, <3>3
    <3>4. CASE i # 2
      <4>1. i - 1 \in 2..Len(rest)
        BY <3>2, <3>4
      <4> QED
        BY <2>5, <3>2, <4>1 DEF Behind
    <3> QED
      BY <3>3, <3>4
  <2> QED
    BY <2>6 DEF Behind
<1> HIDE DEF rest
<1>4. ASSUME NEW u \in mapOrphanTransactions, Parents(u) \subseteq relayed
      PROVE  u \in job'.todo \cup job'.erase \/ Parents(u) \cap Behind' # {}
  BY <1>1, <1>2, <1>3, <1>4 DEF CascadeInv
<1> QED
  BY <1>1, <1>2, <1>4 DEF CascadeInv

LEMMA EraseOrphansCascade ==
    ASSUME IndexInv, CascadeInv, EraseOrphans
    PROVE  CascadeInv'
<1>1. /\ job.todo = {} /\ Len(job.queue) = 1
      /\ mapOrphanTransactions' = mapOrphanTransactions \ job.erase
      /\ job' = Idle
      /\ UNCHANGED <<mempool, relayed>>
  BY DEF EraseOrphans
<1>2. Behind = {}
  BY <1>1 DEF Behind
<1> QED
  BY <1>1, <1>2 DEF CascadeInv

LEMMA CascadeInvStep == IndexInv /\ CascadeInv /\ [Next]_vars => CascadeInv'
<1> SUFFICES ASSUME IndexInv, CascadeInv, [Next]_vars PROVE CascadeInv'
  OBVIOUS
<1>1. ASSUME NEW t \in Tx, SubmitTransaction(t) \/ ReacceptWalletTransaction(t)
      PROVE  CascadeInv'
  <2>1. mempool'.mapTx = mempool.mapTx \cup {t}
    BY <1>1, OtherWayInv
  <2>2. UNCHANGED <<orphanVars, relayed, job>>
    BY <1>1 DEF SubmitTransaction, ReacceptWalletTransaction
  <2> QED
    BY <2>1, <2>2 DEF CascadeInv, orphanVars, Behind
<1>2. ASSUME NEW b \in Block, SetBestChain(b) PROVE CascadeInv'
  <2>1. relayed' \subseteq relayed /\ relayed' \subseteq mempool'.mapTx
    BY <1>2, SetBestChainInv
  <2>2. UNCHANGED <<orphanVars, job>>
    BY <1>2 DEF SetBestChain
  <2> QED
    BY <2>1, <2>2 DEF CascadeInv, orphanVars, Behind
<1>3. ASSUME NEW t \in Tx,
             \/ ReceiveTx(t) \/ AddOrphanTx(t)
             \/ AcceptOrphanTx(t) \/ RefuseOrphanTx(t) \/ KeepOrphanTx(t)
      PROVE  CascadeInv'
  BY <1>3, ReceiveTxCascade, AddOrphanTxCascade, AcceptOrphanTxCascade, JudgedCascade
<1>4. CASE NextInWorkQueue \/ EraseOrphans
  BY <1>4, NextInWorkQueueCascade, EraseOrphansCascade
<1>5. CASE UNCHANGED vars
  BY <1>5 DEF CascadeInv, vars, orphanVars, Behind
<1> QED
  BY <1>1, <1>2, <1>3, <1>4, <1>5 DEF Next

LEMMA RelayInvariant == Spec => [](IndexInv /\ CascadeInv)
<1>1. Init => IndexInv /\ CascadeInv
  BY InitIndexInv, InitCascadeInv
<1>2. IndexInv /\ CascadeInv /\ [Next]_vars => (IndexInv /\ CascadeInv)'
  BY IndexInvStep, CascadeInvStep
<1> QED
  BY <1>1, <1>2, PTL DEF Spec

(* Between messages no transaction is held whose parents the handler has   *)
(* all accepted, in whatever order they came (main.cpp 2849).              *)
THEOREM CascadeReachesAll == Spec => []CascadeComplete
<1>1. CascadeInv => CascadeComplete
  BY DEF CascadeInv, CascadeComplete, Ready, Idle, Behind
<1> QED
  BY <1>1, RelayInvariant, PTL

(* Between messages no transaction is held that the handler has accepted   *)
(* (main.cpp 2881).                                                        *)
THEOREM AcceptedIsErased == Spec => []AcceptedNotHeld
<1>1. CascadeInv => AcceptedNotHeld
  BY DEF CascadeInv, AcceptedNotHeld, Ready, Idle
<1> QED
  BY <1>1, RelayInvariant, PTL
=============================================================================
