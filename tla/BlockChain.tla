----------------------------- MODULE BlockChain -----------------------------
(***************************************************************************)
(* The block chain of one node: ProcessBlock, AcceptBlock, AddToBlockIndex,*)
(* SetBestChain and Reorganize (main.cpp), and LoadBlockIndex (db.cpp).    *)
(*                                                                         *)
(* All of it runs under cs_main, so the handlers do not interleave with    *)
(* each other; what can come between two steps is the end of the process,  *)
(* and ReacceptWalletTransactions, which AppInit2 runs without cs_main     *)
(* once the node has been started (init.cpp 746-761).                      *)
(* A handler is therefore cut where the database is written: memory and    *)
(* the open transaction are lost in a crash, what was committed is not.    *)
(* Reorganize is cut at every block it disconnects or connects, as the     *)
(* loops do, all inside one transaction.                                   *)
(***************************************************************************)
EXTENDS Mempool

CONSTANTS
    Unacceptable,   \* blocks AcceptBlock refuses: nBits, time, finality, checkpoint
    BadAtLoad,      \* blocks whose check may fail when the node starts
    WalletTx,       \* the wallet's transactions and those in their vtxPrev
    MaxCrash        \* bound: how often the process dies

ASSUME ChainAssumption ==
    /\ Unacceptable \subseteq NonGenesis
    /\ BadAtLoad \subseteq NonGenesis
    /\ WalletTx \subseteq Tx
    /\ MaxCrash \in Nat

VARIABLES
    node,               \* "down" or "up"
    mapBlockIndex,      \* the blocks in the index, each with its pnext
    pindexBest,         \* with hashBestChain, nBestHeight, bnBestChainWork
    bnBestInvalidWork,
    mapOrphanBlocks,    \* blocks held until their predecessor arrives
    mempool,
    txdb,               \* what the database has committed
    txn,                \* Reorganize's open transaction, Null when there is none
    job,                \* where the handler that holds cs_main stands
    crashes             \* how often the process died

memory == <<mapBlockIndex, pindexBest, bnBestInvalidWork, mapOrphanBlocks, mempool>>
vars == <<node, memory, txdb, txn, job, crashes>>

(* job.caller is what SetBestChain returns to, job.block its pindexNew,    *)
(* job.mid its pindexIntermediate, job.at the block the transaction index  *)
(* is at, and job.queue what is left of ProcessBlock's vWorkQueue.         *)
Idle == [pc |-> "idle", caller |-> "none", block |-> Null, at |-> Null,
         mid |-> Null, queue |-> << >>]

Running == node = "up" /\ job # Idle
Ready == node = "up" /\ job = Idle

MoreWorkOrEqual(b) ==  \* mutant
    pindexBest = Null \/ bnChainWork[b] >= bnChainWork[pindexBest]
MoreWorkByHeight(b) ==  \* mutant
    pindexBest = Null \/ nHeight[b] > nHeight[pindexBest]

(* bnBestChainWork is 0 while there is no best chain.                      *)
MoreWork(b) == pindexBest = Null \/ bnChainWork[b] > bnChainWork[pindexBest]

InvalidWork == {0} \cup {bnChainWork[b] : b \in Block}

IsIndex(index) ==
    /\ DOMAIN index \subseteq Block
    /\ index \in [DOMAIN index -> Block \cup {Null}]

MemoryType ==
    /\ node \in {"down", "up"}
    /\ IsIndex(mapBlockIndex)
    /\ pindexBest \in Block \cup {Null}
    /\ bnBestInvalidWork \in InvalidWork
    /\ mapOrphanBlocks \in SUBSET NonGenesis
    /\ IsPool(mempool)
    /\ crashes \in 0..MaxCrash

DatabaseType ==
    /\ txdb = [blockindex |-> txdb.blockindex, tx |-> txdb.tx,
               hashBestChain |-> txdb.hashBestChain,
               bnBestInvalidWork |-> txdb.bnBestInvalidWork]
    /\ IsIndex(txdb.blockindex)
    /\ IsTxIndex(txdb.tx)
    /\ txdb.hashBestChain \in Block \cup {Null}
    /\ txdb.bnBestInvalidWork \in InvalidWork

TxnType ==
    IF job.pc = "reorganize"
    THEN /\ txn = [blockindex |-> txn.blockindex, tx |-> txn.tx]
         /\ IsIndex(txn.blockindex)
         /\ IsTxIndex(txn.tx)
    ELSE txn = Null

JobType ==
    job \in [pc : {"idle", "setbest", "postpone", "reorganize", "secondary", "orphans"},
            caller : {"none", "ProcessBlock", "orphan", "LoadBlockIndex"},
            block : Block \cup {Null}, at : Block \cup {Null},
            mid : Block \cup {Null}, queue : Seq(Block)]

TypeOK == MemoryType /\ DatabaseType /\ TxnType /\ JobType

LoseMemory ==
    /\ mapBlockIndex' = << >>
    /\ pindexBest' = Null
    /\ bnBestInvalidWork' = 0
    /\ mapOrphanBlocks' = {}
    /\ mempool' = EmptyPool
    /\ txn' = Null
    /\ job' = Idle

Init ==
    /\ node = "down"
    /\ mapBlockIndex = << >>
    /\ pindexBest = Null
    /\ bnBestInvalidWork = 0
    /\ mapOrphanBlocks = {}
    /\ mempool = EmptyPool
    /\ txdb = [blockindex |-> << >>, tx |-> << >>, hashBestChain |-> Null,
               bnBestInvalidWork |-> 0]
    /\ txn = Null
    /\ job = Idle
    /\ crashes = 0

(***************************************************************************)
(* Returning from AcceptBlock(b), or from LoadBlockIndex's SetBestChain.   *)
(* ProcessBlock goes on with the orphans that wait for a block it          *)
(* accepted; an orphan is erased whether or not it was accepted.           *)
(***************************************************************************)
ReturnTo(caller, b, queue, ok) ==
    LET goOn(q) == IF q = << >> THEN Idle ELSE [Idle EXCEPT !.pc = "orphans", !.queue = q]
        accepted == IF ok THEN Append(queue, b) ELSE queue
    IN  CASE caller = "ProcessBlock" ->
                job' = goOn(accepted) /\ UNCHANGED mapOrphanBlocks
          [] caller = "orphan" ->
                job' = goOn(accepted) /\ mapOrphanBlocks' = mapOrphanBlocks \ {b}
          [] caller = "LoadBlockIndex" ->
                job' = Idle /\ UNCHANGED mapOrphanBlocks

Return(ok) == ReturnTo(job.caller, job.block, job.queue, ok)

(* InvalidChainFound writes outside any transaction.                       *)
InvalidChainFound(b) ==
    LET work == IF bnChainWork[b] > bnBestInvalidWork THEN bnChainWork[b] ELSE bnBestInvalidWork
    IN  /\ bnBestInvalidWork' = work
        /\ txdb' = IF bnChainWork[b] > bnBestInvalidWork
                   THEN [txdb EXCEPT !.bnBestInvalidWork = work] ELSE txdb

(***************************************************************************)
(* ProcessBlock, AcceptBlock, AddToBlockIndex                              *)
(***************************************************************************)
NewBlock(b) == b \notin DOMAIN mapBlockIndex /\ b \notin mapOrphanBlocks

(* The entry is committed before SetBestChain is called.                   *)
WithEntry(index, b) == [c \in DOMAIN index \cup {b} |-> IF c = b THEN Null ELSE index[c]]

AddToBlockIndex(caller, b, queue) ==
    /\ mapBlockIndex' = WithEntry(mapBlockIndex, b)
    /\ txdb' = [txdb EXCEPT !.blockindex = WithEntry(@, b)]
    /\ IF MoreWork(b)
       THEN /\ job' = [Idle EXCEPT !.pc = "setbest", !.caller = caller,
                                   !.block = b, !.queue = queue]
            /\ UNCHANGED mapOrphanBlocks
       ELSE ReturnTo(caller, b, queue, TRUE)

(* A block that comes before its predecessor is held.                      *)
HoldOrphan(b) ==
    /\ Ready
    /\ b # Genesis
    /\ NewBlock(b)
    /\ hashPrevBlock[b] \notin DOMAIN mapBlockIndex
    /\ mapOrphanBlocks' = mapOrphanBlocks \cup {b}
    /\ UNCHANGED <<node, mapBlockIndex, pindexBest, bnBestInvalidWork, mempool,
                   txdb, txn, job, crashes>>

ProcessBlock(b) ==
    /\ Ready
    /\ b \notin Unacceptable \cup {Genesis}
    /\ NewBlock(b)
    /\ hashPrevBlock[b] \in DOMAIN mapBlockIndex
    /\ AddToBlockIndex("ProcessBlock", b, << >>)
    /\ UNCHANGED <<node, pindexBest, bnBestInvalidWork, mempool, txn, crashes>>

(* One turn of ProcessBlock's loop over the orphans of the block at the    *)
(* head of the work queue.                                                 *)
ProcessOrphan(b) ==
    /\ Running /\ job.pc = "orphans"
    /\ b \in mapOrphanBlocks
    /\ hashPrevBlock[b] = Head(job.queue)
    /\ IF b \in Unacceptable \cup DOMAIN mapBlockIndex
       THEN ReturnTo("orphan", b, job.queue, FALSE) /\ UNCHANGED <<mapBlockIndex, txdb>>
       ELSE AddToBlockIndex("orphan", b, job.queue)
    /\ UNCHANGED <<node, pindexBest, bnBestInvalidWork, mempool, txn, crashes>>

OrphansDoneAtFirst ==  \* mutant: the orphans of orphans are not looked for
    /\ Running /\ job.pc = "orphans"
    /\ \A b \in mapOrphanBlocks : hashPrevBlock[b] # Head(job.queue)
    /\ job' = Idle
    /\ UNCHANGED <<node, memory, txdb, txn, crashes>>

OrphansDone ==
    /\ Running /\ job.pc = "orphans"
    /\ \A b \in mapOrphanBlocks : hashPrevBlock[b] # Head(job.queue)
    /\ job' = IF Len(job.queue) = 1 THEN Idle ELSE [job EXCEPT !.queue = Tail(@)]
    /\ UNCHANGED <<node, memory, txdb, txn, crashes>>

(***************************************************************************)
(* SetBestChain                                                            *)
(***************************************************************************)
SettingBest == Running /\ job.pc = "setbest"

SetBestGenesis ==
    /\ SettingBest
    /\ pindexBest = Null
    /\ txdb' = [txdb EXCEPT !.hashBestChain = job.block]
    /\ pindexBest' = job.block
    /\ Return(TRUE)
    /\ UNCHANGED <<node, mapBlockIndex, bnBestInvalidWork, mempool, txn, crashes>>

(* SetBestChainInner commits b on top of the best chain of the database.   *)
ConnectTip(b) ==
    /\ txdb' = [txdb EXCEPT !.tx = ConnectBlock(@, b),
                            !.blockindex = [@ EXCEPT ![hashPrevBlock[b]] = b],
                            !.hashBestChain = b]
    /\ mapBlockIndex' = [mapBlockIndex EXCEPT ![hashPrevBlock[b]] = b]
    /\ mempool' = Remove(mempool, txs(b))

ExtendsBest == job.block # Genesis /\ hashPrevBlock[job.block] = pindexBest

ExtendBest ==
    /\ SettingBest /\ pindexBest # Null
    /\ ExtendsBest
    /\ ConnectBlockOK(txdb.tx, job.block)
    /\ ConnectTip(job.block)
    /\ pindexBest' = job.block
    /\ Return(TRUE)
    /\ UNCHANGED <<node, bnBestInvalidWork, txn, crashes>>

ExtendBestFails ==
    /\ SettingBest /\ pindexBest # Null
    /\ ExtendsBest
    /\ ~ConnectBlockOK(txdb.tx, job.block)
    /\ InvalidChainFound(job.block)
    /\ Return(FALSE)
    /\ UNCHANGED <<node, mapBlockIndex, pindexBest, mempool, txn, crashes>>

Branches ==
    /\ SettingBest /\ pindexBest # Null
    /\ ~ExtendsBest
    /\ job' = [job EXCEPT !.pc = "postpone", !.mid = job.block]
    /\ UNCHANGED <<node, memory, txdb, txn, crashes>>

(* pindexIntermediate moves back to the first block of the new branch with *)
(* more work than the best chain; those behind it are connected later.     *)
Postponing == Running /\ job.pc = "postpone"
PostponedFromEqual(b) ==  \* mutant
    b # Genesis /\ bnChainWork[hashPrevBlock[b]] >= bnChainWork[pindexBest]
Postponed(b) == b # Genesis /\ MoreWork(hashPrevBlock[b])

PostponeStays ==  \* mutant: pindexIntermediate is not moved back
    Postponing /\ Postponed(job.mid) /\ UNCHANGED <<node, memory, job, txdb, txn, crashes>>

Postpone ==
    /\ Postponing
    /\ Postponed(job.mid)
    /\ job' = [job EXCEPT !.mid = hashPrevBlock[@]]
    /\ UNCHANGED <<node, memory, txdb, txn, crashes>>

BeginReorganize ==
    /\ Postponing
    /\ ~Postponed(job.mid)
    /\ job' = [job EXCEPT !.pc = "reorganize", !.at = pindexBest]
    /\ txn' = [blockindex |-> txdb.blockindex, tx |-> txdb.tx]
    /\ UNCHANGED <<node, memory, txdb, crashes>>

(***************************************************************************)
(* Reorganize: back to the fork, then forward to job.mid, then commit      *)
(***************************************************************************)
Reorganizing == Running /\ job.pc = "reorganize"
AboveFork == job.at \notin Ancestors[job.mid]

Disconnect ==
    /\ Reorganizing
    /\ AboveFork
    /\ DisconnectBlockOK(txn.tx, job.at)
    /\ txn' = [blockindex |-> [txn.blockindex EXCEPT ![hashPrevBlock[job.at]] = Null],
               tx |-> DisconnectBlock(txn.tx, job.at)]
    /\ job' = [job EXCEPT !.at = hashPrevBlock[job.at]]
    /\ UNCHANGED <<node, memory, txdb, crashes>>

Connect ==
    /\ Reorganizing
    /\ ~AboveFork /\ job.at # job.mid
    /\ LET next == NextOnBranch(job.at, job.mid)
       IN  /\ ConnectBlockOK(txn.tx, next)
           /\ txn' = [blockindex |-> [txn.blockindex EXCEPT ![job.at] = next],
                      tx |-> ConnectBlock(txn.tx, next)]
           /\ job' = [job EXCEPT !.at = next]
    /\ UNCHANGED <<node, memory, txdb, crashes>>

ReorganizeFailsCommits ==  \* mutant: what was done so far is not aborted
    /\ Reorganizing
    /\ \/ AboveFork /\ ~DisconnectBlockOK(txn.tx, job.at)
       \/ /\ ~AboveFork /\ job.at # job.mid
          /\ ~ConnectBlockOK(txn.tx, NextOnBranch(job.at, job.mid))
    /\ txn' = Null
    /\ txdb' = [txdb EXCEPT !.blockindex = txn.blockindex, !.tx = txn.tx]
    /\ Return(FALSE)
    /\ UNCHANGED <<node, mapBlockIndex, pindexBest, bnBestInvalidWork, mempool, crashes>>

ReorganizeFails ==
    /\ Reorganizing
    /\ \/ AboveFork /\ ~DisconnectBlockOK(txn.tx, job.at)
       \/ /\ ~AboveFork /\ job.at # job.mid
          /\ ~ConnectBlockOK(txn.tx, NextOnBranch(job.at, job.mid))
    /\ txn' = Null
    /\ InvalidChainFound(job.block)
    /\ Return(FALSE)
    /\ UNCHANGED <<node, mapBlockIndex, pindexBest, mempool, crashes>>

RelinkedForward(index, old, new) ==  \* mutant: the old branch keeps its links
    [b \in DOMAIN index |->
        IF \E c \in Ancestors[new] \ Ancestors[old] : c # Genesis /\ hashPrevBlock[c] = b
        THEN NextOnBranch(b, new) ELSE index[b]]

(* pnext along both branches.                                              *)
Relinked(index, old, new) ==
    LET precedes(b, cs) == \E c \in cs \ {Genesis} : hashPrevBlock[c] = b
    IN  [b \in DOMAIN index |->
            IF precedes(b, Ancestors[new] \ Ancestors[old]) THEN NextOnBranch(b, new)
            ELSE IF precedes(b, Ancestors[old] \ Ancestors[new]) THEN Null
            ELSE index[b]]

(* Memory follows once the transaction is committed.                       *)
Commit ==
    LET inBlocks(bs) == UNION {txs(b) : b \in bs}
        disconnected == inBlocks(Ancestors[pindexBest] \ Ancestors[job.mid])
        connected == inBlocks(Ancestors[job.mid] \ Ancestors[pindexBest])
    IN  /\ Reorganizing
        /\ job.at = job.mid
        /\ txdb' = [txdb EXCEPT !.blockindex = txn.blockindex, !.tx = txn.tx,
                                !.hashBestChain = job.mid]
        /\ txn' = Null
        /\ mapBlockIndex' = Relinked(mapBlockIndex, pindexBest, job.mid)
        /\ \E between \in SUBSET WalletTx :
              \E R \in Resurrections(mempool, between, disconnected), late \in SUBSET between :
                 /\ between \in ReacceptedBetween(mempool, txn.tx, WalletTx, R)
                 /\ mempool' = PoolAfter(mempool, between, late, R, connected)
        /\ job' = [job EXCEPT !.pc = "secondary"]
        /\ UNCHANGED <<node, pindexBest, bnBestInvalidWork, mapOrphanBlocks, crashes>>

(***************************************************************************)
(* The blocks behind job.mid, each in a transaction of its own.  Whatever  *)
(* becomes of them, SetBestChain ends with pindexBest = pindexNew.         *)
(***************************************************************************)
Secondary == Running /\ job.pc = "secondary"
NewBestAtIntermediate == pindexBest' = job.mid /\ Return(TRUE)  \* mutant
NewBest == pindexBest' = job.block /\ Return(TRUE)

ConnectSecondary ==
    /\ Secondary
    /\ job.at # job.block
    /\ LET next == NextOnBranch(job.at, job.block)
       IN  /\ ConnectBlockOK(txdb.tx, next)
           /\ ConnectTip(next)
           /\ job' = [job EXCEPT !.at = next]
    /\ UNCHANGED <<node, pindexBest, bnBestInvalidWork, mapOrphanBlocks, txn, crashes>>

ConnectSecondaryFails ==
    /\ Secondary
    /\ job.at # job.block
    /\ LET next == NextOnBranch(job.at, job.block)
       IN  ~ConnectBlockOK(txdb.tx, next) /\ InvalidChainFound(next)
    /\ NewBest
    /\ UNCHANGED <<node, mapBlockIndex, mempool, txn, crashes>>

SecondariesDone ==
    /\ Secondary
    /\ job.at = job.block
    /\ NewBest
    /\ UNCHANGED <<node, mapBlockIndex, bnBestInvalidWork, mempool, txdb, txn, crashes>>

(***************************************************************************)
(* A transaction offered to the pool by a peer, the wallet or an RPC.      *)
(***************************************************************************)
AcceptToMemoryPool(t) ==
    /\ Ready
    /\ AcceptOK(mempool, txdb.tx, pindexBest, t)
    /\ \E between \in ReacceptedBetween(mempool, txdb.tx, WalletTx, {t}) :
          \E late \in SUBSET between : mempool' = AddRaced(mempool, between, late, {t})
    /\ UNCHANGED <<node, mapBlockIndex, pindexBest, bnBestInvalidWork, mapOrphanBlocks,
                   txdb, txn, job, crashes>>

(* ReacceptWalletTransactions looks only whether the chain has t already.  *)
(* It may come between any two steps of a handler, once the chain is       *)
(* loaded; its read waits for a transaction that has written t's entry.    *)
ReacceptWalletTransaction(t) ==
    /\ node = "up" /\ job.caller # "LoadBlockIndex"
    /\ t \in WalletTx \ DOMAIN txdb.tx
    /\ job.pc = "reorganize" => t \notin DOMAIN txn.tx
    /\ Acceptable(mempool, t)
    /\ mempool' = AddUnchecked(mempool, {t})
    /\ UNCHANGED <<node, mapBlockIndex, pindexBest, bnBestInvalidWork, mapOrphanBlocks,
                   txdb, txn, job, crashes>>

(***************************************************************************)
(* The end of the process, and LoadBlockIndex.  A database with a block    *)
(* index but no hashBestChain is refused: no action of a node that is down *)
(* applies to it.                                                          *)
(***************************************************************************)
Crash ==
    /\ node = "up"
    /\ crashes < MaxCrash
    /\ crashes' = crashes + 1
    /\ node' = "down"
    /\ LoseMemory
    /\ UNCHANGED txdb

StartFresh ==
    /\ node = "down"
    /\ txdb.blockindex = << >>
    /\ node' = "up"
    /\ AddToBlockIndex("LoadBlockIndex", Genesis, << >>)
    /\ UNCHANGED <<pindexBest, bnBestInvalidWork, mempool, txn, crashes>>

(* When a block of the best chain fails its check, SetBestChain moves the  *)
(* best chain back to the block before it.                                 *)
Start ==
    /\ node = "down"
    /\ txdb.hashBestChain # Null
    /\ node' = "up"
    /\ mapBlockIndex' = txdb.blockindex
    /\ pindexBest' = txdb.hashBestChain
    /\ bnBestInvalidWork' = txdb.bnBestInvalidWork
    /\ \/ job' = Idle
       \/ \E bad \in BadAtLoad \cap Ancestors[txdb.hashBestChain] :
             job' = [Idle EXCEPT !.pc = "setbest", !.caller = "LoadBlockIndex",
                                 !.block = hashPrevBlock[bad]]
    /\ UNCHANGED <<mapOrphanBlocks, mempool, txdb, txn, crashes>>

(***************************************************************************)
(* Specification                                                           *)
(***************************************************************************)
(* The steps of a handler that has begun.                                  *)
Step ==
    \/ \E b \in NonGenesis : ProcessOrphan(b)
    \/ OrphansDone
    \/ SetBestGenesis \/ ExtendBest \/ ExtendBestFails
    \/ Branches \/ Postpone \/ BeginReorganize \/ Disconnect \/ Connect \/ ReorganizeFails \/ Commit
    \/ ConnectSecondary \/ ConnectSecondaryFails \/ SecondariesDone

Next ==
    \/ StartFresh \/ Start \/ Crash
    \/ \E b \in NonGenesis : HoldOrphan(b) \/ ProcessBlock(b)
    \/ \E t \in Tx : AcceptToMemoryPool(t) \/ ReacceptWalletTransaction(t)
    \/ Step

Spec == Init /\ [][Next]_vars

(* A handler that holds cs_main runs to its end.                           *)
FairSpec == Spec /\ WF_vars(Step)

(***************************************************************************)
(* Safety                                                                  *)
(***************************************************************************)
(* Every entry of mapNextTx points into the pool, and every input of a     *)
(* transaction of the pool has its entry, so no two of them spend the same *)
(* output: remove (main.cpp 646) must not take the entry of a transaction  *)
(* that stays, when a block spends the same output.  The exception is what *)
(* the wallet and a handler have raced for: accept tests mapNextTx (519)   *)
(* without the lock under which it adds (606), and both get in.            *)
PoolIndexed == Indexed(mempool)

(* No transaction of the best chain is in the pool: what connects a block  *)
(* removes its transactions, and a reorganisation that takes some back     *)
(* from the old branch removes those the new branch has again.             *)
NoConfirmedInPool == mempool.mapTx \cap DOMAIN txdb.tx = {}

(* The committed transaction index is the one the committed best chain     *)
(* determines, whatever was connected, disconnected, given up or lost in a *)
(* crash on the way there.                                                 *)
IndexDescribesChain ==
    txdb.hashBestChain # Null => txdb.tx = TxIndexOf[txdb.hashBestChain]

(* Between handlers, the best block in memory is the committed one: "we    *)
(* still did a reorganisation to a new chain in a valid way" (main.cpp     *)
(* 1674).                                                                  *)
BestIsCommitted == Ready => pindexBest = txdb.hashBestChain

(* Between handlers, pnext leads from genesis to the best block along the  *)
(* best chain and from nowhere else, in memory and on disk, so that        *)
(* IsInMainChain is right about every block.                               *)
LinksFollowBest ==
    LET links == [b \in DOMAIN mapBlockIndex |->
                    IF b \in Ancestors[pindexBest] \ {pindexBest}
                    THEN NextOnBranch(b, pindexBest) ELSE Null]
    IN  Ready => mapBlockIndex = links /\ txdb.blockindex = links

(* Between handlers, no indexed block that ends a valid chain has more     *)
(* work than the best block.                                               *)
MostWorkWins ==
    Ready => \A b \in DOMAIN mapBlockIndex :
                ValidChain[b] => pindexBest # Null /\ bnChainWork[b] <= bnChainWork[pindexBest]

(* "If don't already have its previous block, shunt it off to holding area *)
(* until we get it" (main.cpp 1924): an orphan whose predecessor is in the *)
(* index is left behind only when the predecessor's chain is not valid.    *)
ValidOrphansAccepted ==
    Ready => \A b \in mapOrphanBlocks :
                hashPrevBlock[b] \in DOMAIN mapBlockIndex => ~ValidChain[hashPrevBlock[b]]

(* "erasing it would be a no-op anway" (main.cpp 1100): a block of the best*)
(* chain can always be disconnected again.                                 *)
BestChainDisconnects ==
    Reorganizing /\ AboveFork => DisconnectBlockOK(txn.tx, job.at)

(***************************************************************************)
(* What a step may never do                                                *)
(***************************************************************************)
(* SetBestChain replaces the best block only by one with more work; the    *)
(* exception is LoadBlockIndex, which moves back to a block it trusts.     *)
BestOnlyImproves ==
    [][\/ pindexBest' \in {pindexBest, Null}
       \/ pindexBest = Null
       \/ job.caller = "LoadBlockIndex"
       \/ bnChainWork[pindexBest'] > bnChainWork[pindexBest]]_vars

(* A transaction that leaves the best chain is in the pool afterwards,     *)
(* unless blocks alone may carry it or the pool held a conflicting one, or *)
(* got it from the wallet meanwhile.                                       *)
DisconnectedReturn ==
    [][\A t \in DOMAIN txdb.tx \ DOMAIN txdb'.tx :
          \/ IsCoinBase(t) \/ t \in NonStandard
          \/ t \in mempool'.mapTx
          \/ vin[t] \cap DOMAIN mempool.mapNextTx # {}
          \/ \E s \in WalletTx \cap mempool'.mapTx : Conflict(s, t)]_vars

(***************************************************************************)
(* Progress                                                                *)
(***************************************************************************)
(* Every handler gives cs_main back: the loops over branches, postponed    *)
(* blocks and orphans end.                                                 *)
HandlersReturn == []<>(job = Idle)

(***************************************************************************)
(* What other components rely on: the committed best chain                 *)
(***************************************************************************)
Committed ==
    INSTANCE BestChain WITH
        Prev <- hashPrevBlock, Branch <- Ancestors, Work <- bnChainWork,
        Valid <- ValidChain, Suspect <- BadAtLoad,
        known <- DOMAIN txdb.blockindex, tip <- txdb.hashBestChain
ImplementsBestChain == Committed!Spec
=============================================================================
