------------------------------ MODULE TxRelay ------------------------------
(***************************************************************************)
(* The "tx" message and the transactions whose inputs a node has not seen  *)
(* yet: AddOrphanTx, EraseOrphanTx, LimitOrphanTxSize and the cascade that *)
(* accepting a transaction sets off (main.cpp).                            *)
(*                                                                         *)
(* The chain is the one BestChain promises: it moves to a valid block with *)
(* more work, and the pool follows as SetBestChain leaves it.  Everything  *)
(* runs under cs_main but ReacceptWalletTransactions, when the node        *)
(* starts; the cascade is cut at each orphan it visits because an orphan   *)
(* is judged by what the ones before it left in the pool.                  *)
(***************************************************************************)
EXTENDS Mempool

CONSTANTS
    MAX_ORPHAN_TRANSACTIONS,
    Oversized,      \* transactions of more than 5000 bytes: never held
    Free,           \* transactions whose fee is so low that they are rate-limited
    WalletTx        \* the wallet's transactions and those in their vtxPrev

ASSUME RelayAssumption ==
    /\ MAX_ORPHAN_TRANSACTIONS \in Nat
    /\ Oversized \subseteq Tx
    /\ Free \subseteq Tx
    /\ WalletTx \subseteq Tx

VARIABLES
    pindexBest,
    mempool,
    mapOrphanTransactions,          \* the transactions held
    mapOrphanTransactionsByPrev,    \* for a txid, the transactions held that spend it
    relayed,    \* history: what the handler accepted and the pool still has
    job         \* where the handler stands

orphanVars == <<mapOrphanTransactions, mapOrphanTransactionsByPrev>>
vars == <<pindexBest, mempool, orphanVars, relayed, job>>

(* job.queue is what is left of vWorkQueue, job.todo the orphans of its    *)
(* head that the loop has not reached, job.erase is vEraseQueue.           *)
Idle == [queue |-> << >>, todo |-> {}, erase |-> {}]
Ready == job = Idle

index == TxIndexOf[pindexBest]
Parents(t) == {o.hash : o \in vin[t]}

At(byPrev, p) == IF p \in DOMAIN byPrev THEN byPrev[p] ELSE {}
Waiting(p) == At(mapOrphanTransactionsByPrev, p)

TypeOK ==
    /\ pindexBest \in Block
    /\ IsPool(mempool)
    /\ mapOrphanTransactions \in SUBSET Tx
    /\ Cardinality(mapOrphanTransactions) <= MAX_ORPHAN_TRANSACTIONS
    /\ DOMAIN mapOrphanTransactionsByPrev \subseteq Tx
    /\ mapOrphanTransactionsByPrev \in [DOMAIN mapOrphanTransactionsByPrev -> SUBSET Tx]
    /\ relayed \in SUBSET Tx
    /\ job \in [queue : Seq(Tx), todo : SUBSET Tx, erase : SUBSET Tx]

Init ==
    /\ pindexBest = Genesis
    /\ mempool = EmptyPool
    /\ mapOrphanTransactions = {}
    /\ mapOrphanTransactionsByPrev = << >>
    /\ relayed = {}
    /\ job = Idle

(***************************************************************************)
(* The two maps                                                            *)
(***************************************************************************)
(* operator[] makes the entry it looks up.                                 *)
Looked(byPrev, p) == [q \in DOMAIN byPrev \cup {p} |-> At(byPrev, q)]

(* AddOrphanTx's entries for t.                                            *)
ByPrevWith(byPrev, t) ==
    [q \in DOMAIN byPrev \cup Parents(t) |->
        At(byPrev, q) \cup (IF q \in Parents(t) THEN {t} ELSE {})]

ByPrevWithoutLast(byPrev, gone) ==  \* mutant: the entry of one parent stays
    [q \in DOMAIN byPrev |->
        IF \E t \in gone : q = CHOOSE p \in Parents(t) : TRUE THEN byPrev[q] \ gone
        ELSE byPrev[q]]

(* EraseOrphanTx for each of gone, all of them held: an entry this empties *)
(* goes, one that was empty already stays.                                 *)
ByPrevWithout(byPrev, gone) ==
    LET touched == UNION {Parents(t) : t \in gone}
    IN  [q \in {p \in DOMAIN byPrev : p \in touched => ~(byPrev[p] \subseteq gone)} |->
            byPrev[q] \ gone]

NoLimit(held) == {{}}  \* mutant

(* What LimitOrphanTxSize may evict: a random orphan, as often as needed.  *)
Evictions(held) ==
    {gone \in SUBSET held :
        Cardinality(gone) =
            IF Cardinality(held) > MAX_ORPHAN_TRANSACTIONS
            THEN Cardinality(held) - MAX_ORPHAN_TRANSACTIONS ELSE 0}

(***************************************************************************)
(* The "tx" message                                                        *)
(***************************************************************************)
Accepts(t) == AcceptOK(mempool, index, pindexBest, t)

(* accept sets fMissingInputs.                                             *)
Misses(t) ==
    /\ Acceptable(mempool, t)
    /\ t \notin DOMAIN index
    /\ ~InputsFound(mempool, index, t)

(* The loop turns to the orphans of the transaction at the queue's head.   *)
TurnTo(queue, erase) ==
    /\ job' = [queue |-> queue, todo |-> Waiting(Head(queue)), erase |-> erase]
    /\ mapOrphanTransactionsByPrev' = Looked(mapOrphanTransactionsByPrev, Head(queue))

(* accept of a transaction from a peer, whose tests the wallet may pass by.*)
Accept(t) ==
    /\ Accepts(t)
    /\ \E between \in ReacceptedBetween(mempool, index, WalletTx, {t}) :
          \E late \in SUBSET between : mempool' = AddRaced(mempool, between, late, {t})

ReceiveTx(t) ==
    /\ Ready
    /\ Accept(t)
    /\ relayed' = relayed \cup {t}
    /\ TurnTo(<<t>>, {t})
    /\ UNCHANGED <<pindexBest, mapOrphanTransactions>>

AddOrphanTx(t) ==
    /\ Ready
    /\ Misses(t)
    /\ t \notin Oversized \cup mapOrphanTransactions
    /\ LET held == mapOrphanTransactions \cup {t}
       IN  \E gone \in Evictions(held) :
              /\ mapOrphanTransactions' = held \ gone
              /\ mapOrphanTransactionsByPrev' =
                    ByPrevWithout(ByPrevWith(mapOrphanTransactionsByPrev, t), gone)
    /\ UNCHANGED <<pindexBest, mempool, relayed, job>>

AcceptOrphanTxAlone(t) ==  \* mutant: its own orphans are not looked for
    /\ t \in job.todo
    /\ Accept(t)
    /\ relayed' = relayed \cup {t}
    /\ job' = [job EXCEPT !.todo = @ \ {t}, !.erase = @ \cup {t}]
    /\ UNCHANGED <<pindexBest, orphanVars>>

AcceptOrphanTxKept(t) ==  \* mutant: vEraseQueue.push_back is missing
    /\ t \in job.todo
    /\ Accept(t)
    /\ relayed' = relayed \cup {t}
    /\ job' = [job EXCEPT !.queue = Append(@, t), !.todo = @ \ {t}]
    /\ UNCHANGED <<pindexBest, orphanVars>>

AcceptOrphanTx(t) ==
    /\ t \in job.todo
    /\ Accept(t)
    /\ relayed' = relayed \cup {t}
    /\ job' = [queue |-> Append(job.queue, t), todo |-> job.todo \ {t},
               erase |-> job.erase \cup {t}]
    /\ UNCHANGED <<pindexBest, orphanVars>>

(* An orphan that is refused for any other reason than a missing input,    *)
(* the rate limiter's included, counts as invalid.                         *)
RefuseOrphanTx(t) ==
    /\ t \in job.todo
    /\ ~Misses(t)
    /\ Accepts(t) => t \in Free
    /\ job' = [job EXCEPT !.todo = @ \ {t}, !.erase = @ \cup {t}]
    /\ UNCHANGED <<pindexBest, mempool, orphanVars, relayed>>

KeepOrphanTx(t) ==
    /\ t \in job.todo
    /\ Misses(t)
    /\ job' = [job EXCEPT !.todo = @ \ {t}]
    /\ UNCHANGED <<pindexBest, mempool, orphanVars, relayed>>

NextInWorkQueue ==
    /\ job.todo = {}
    /\ Len(job.queue) > 1
    /\ TurnTo(Tail(job.queue), job.erase)
    /\ UNCHANGED <<pindexBest, mempool, mapOrphanTransactions, relayed>>

EraseOrphans ==
    LET gone == job.erase \cap mapOrphanTransactions
    IN  /\ job.todo = {}
        /\ Len(job.queue) = 1
        /\ mapOrphanTransactions' = mapOrphanTransactions \ gone
        /\ mapOrphanTransactionsByPrev' = ByPrevWithout(mapOrphanTransactionsByPrev, gone)
        /\ job' = Idle
        /\ UNCHANGED <<pindexBest, mempool, relayed>>

(***************************************************************************)
(* What else changes pool and chain: none of it looks at the orphans       *)
(***************************************************************************)
(* The wallet's CommitTransaction and sendrawtransaction, which hold       *)
(* cs_wallet as well.                                                      *)
SubmitTransaction(t) ==
    /\ Ready
    /\ Accepts(t)
    /\ mempool' = AddUnchecked(mempool, {t})
    /\ UNCHANGED <<pindexBest, orphanVars, relayed, job>>

(* ReacceptWalletTransactions, which does not look for the inputs and may  *)
(* come between any two steps of the handler.                              *)
ReacceptWalletTransaction(t) ==
    /\ t \in WalletTx \ DOMAIN index
    /\ Acceptable(mempool, t)
    /\ mempool' = AddUnchecked(mempool, {t})
    /\ UNCHANGED <<pindexBest, orphanVars, relayed, job>>

(* ProcessBlock ends with another best chain.                              *)
SetBestChain(b) ==
    LET inBlocks(bs) == UNION {txs(c) : c \in bs}
        disconnected == inBlocks(Ancestors[pindexBest] \ Ancestors[b])
        connected == inBlocks(Ancestors[b] \ Ancestors[pindexBest])
    IN  /\ Ready
        /\ ValidChain[b]
        /\ bnChainWork[b] > bnChainWork[pindexBest]
        /\ pindexBest' = b
        /\ \E between \in SUBSET WalletTx :
              \E R \in Resurrections(mempool, between, disconnected), late \in SUBSET between :
                 /\ between \in ReacceptedBetween(mempool, TxIndexOf[b], WalletTx, R)
                 /\ mempool' = PoolAfter(mempool, between, late, R, connected)
        /\ relayed' = relayed \cap mempool'.mapTx
        /\ UNCHANGED <<orphanVars, job>>

(***************************************************************************)
(* Specification                                                           *)
(***************************************************************************)
Next ==
    \/ \E t \in Tx :
          \/ ReceiveTx(t) \/ AddOrphanTx(t)
          \/ AcceptOrphanTx(t) \/ RefuseOrphanTx(t) \/ KeepOrphanTx(t)
          \/ SubmitTransaction(t) \/ ReacceptWalletTransaction(t)
    \/ NextInWorkQueue \/ EraseOrphans
    \/ \E b \in Block : SetBestChain(b)

Spec == Init /\ [][Next]_vars

(***************************************************************************)
(* Safety                                                                  *)
(***************************************************************************)
(* mapOrphanTransactionsByPrev points from every input of a transaction    *)
(* that is held to it, and never to one that is not: its pointers are      *)
(* followed by the cascade after EraseOrphanTx has freed what they point   *)
(* to (main.cpp 212 and 2857).                                             *)
OrphansIndexed ==
    \A p \in Tx : Waiting(p) = {t \in mapOrphanTransactions : p \in Parents(t)}

(* "Recursively process any orphan transactions that depended on this one" *)
(* (main.cpp 2849): between messages, no transaction is held when the      *)
(* handler accepted each of its parents into the pool, in whatever order.  *)
(* A parent that came in a block, from the wallet or by an RPC does not    *)
(* release its children.                                                   *)
CascadeComplete ==
    Ready => \A t \in mapOrphanTransactions : ~(Parents(t) \subseteq relayed)

(* Between messages, no transaction that the handler accepted is held, so  *)
(* that LimitOrphanTxSize evicts only what is still waiting.               *)
AcceptedNotHeld == Ready => mapOrphanTransactions \cap relayed = {}

(* "BOOST_CHECK(mapOrphanTransactionsByPrev.empty())" (DoS_tests.cpp 224), *)
(* once no transaction is held.                                            *)
NothingHeldNothingIndexed ==
    Ready /\ mapOrphanTransactions = {} => DOMAIN mapOrphanTransactionsByPrev = {}
=============================================================================
