-------------------------- MODULE BlockChainProofs --------------------------
(***************************************************************************)
(* Theorems about BlockChain, for every block tree, all transactions and   *)
(* any number of crashes.                                                  *)
(***************************************************************************)
EXTENDS BlockChain, ChainDataProofs, SequenceTheorems

(***************************************************************************)
(* The inductive invariant                                                 *)
(***************************************************************************)
(* Every step of SetBestChain knows its block and whom to return to, and   *)
(* the loop over orphans always has a block whose orphans it looks for.    *)
HandlerOK ==
    /\ job.pc \notin {"idle", "orphans"} => job.caller # "none" /\ job.block \in Block
    /\ job.pc = "orphans" \/ job.caller = "orphan" => job.queue # << >>

(* pindexIntermediate and the block connected last are on the new branch.  *)
BranchOK ==
    /\ job.pc \in {"postpone", "reorganize"} =>
          pindexBest \in Block /\ job.mid \in Ancestors[job.block]
    /\ job.pc = "secondary" => job.at \in Ancestors[job.block]

(* Reorganize walks down the old branch to the fork and up the new one.    *)
WalkOK ==
    job.pc = "reorganize" =>
        /\ job.at \in Ancestors[pindexBest] \cup Ancestors[job.mid]
        /\ Ancestors[pindexBest] \cap Ancestors[job.mid] \subseteq Ancestors[job.at]

(* What is confirmed in the open transaction and is in the pool, or will   *)
(* be taken back into it, is in a block of the new branch: Commit removes  *)
(* it from the pool.                                                       *)
Returning == UNION {txs(d) : d \in Ancestors[pindexBest] \ Ancestors[job.at]}
Reconnected == UNION {txs(c) : c \in Ancestors[job.at] \ Ancestors[pindexBest]}
PoolOK ==
    job.pc = "reorganize" =>
        DOMAIN txn.tx \cap (mempool.mapTx \cup Returning) \subseteq Reconnected

(* A block that SetBestChain was called with has more work than the best.  *)
WorkOK ==
    job.pc \notin {"idle", "orphans"} /\ job.caller # "LoadBlockIndex" =>
        MoreWork(job.block)

(* A process that has ended left nothing in memory.                        *)
DownOK == node = "down" => pindexBest = Null /\ job = Idle

TypeInv == TypeOK /\ HandlerOK /\ BranchOK /\ PoolIndexed

(***************************************************************************)
(* Parts of actions                                                        *)
(***************************************************************************)
(* Where a handler goes when AcceptBlock returns.                          *)
LEMMA ReturnToInv ==
    ASSUME JobType, mapOrphanBlocks \in SUBSET NonGenesis,
           NEW caller \in {"ProcessBlock", "orphan", "LoadBlockIndex"},
           NEW b \in Block, NEW queue \in Seq(Block), NEW ok \in BOOLEAN,
           caller = "orphan" => queue # << >>,
           ReturnTo(caller, b, queue, ok)
    PROVE  /\ JobType'
           /\ mapOrphanBlocks' \in SUBSET NonGenesis
           /\ job'.pc \in {"idle", "orphans"} /\ job'.caller = "none"
           /\ job'.pc = "orphans" => job'.queue # << >>
<1> DEFINE goOn(q) == IF q = << >> THEN Idle ELSE [Idle EXCEPT !.pc = "orphans", !.queue = q]
           accepted == IF ok THEN Append(queue, b) ELSE queue
<1>1. accepted \in Seq(Block) OBVIOUS
<1>2. Idle.pc = "idle" /\ Idle.caller = "none" BY DEF Idle
<1>3. ASSUME NEW q \in Seq(Block)
      PROVE  /\ goOn(q) \in [pc : {"idle", "orphans"}, caller : {"none"}, block : {Null},
                             at : {Null}, mid : {Null}, queue : Seq(Block)]
             /\ goOn(q).pc = "orphans" => goOn(q).queue # << >>
  BY DEF Idle
<1>4. /\ mapOrphanBlocks' \in {mapOrphanBlocks, mapOrphanBlocks \ {b}}
      /\ \E q \in Seq(Block) : job' = goOn(q)
  <2>1. CASE caller \in {"ProcessBlock", "orphan"}
    BY <2>1, <1>1 DEF ReturnTo
  <2>2. CASE caller = "LoadBlockIndex"
    <3>1. job' = Idle /\ UNCHANGED mapOrphanBlocks BY <2>2 DEF ReturnTo
    <3>2. Idle = goOn(<< >>) /\ << >> \in Seq(Block) OBVIOUS
    <3> QED BY <3>1, <3>2
  <2> HIDE DEF goOn, accepted
  <2> QED BY <2>1, <2>2
<1> HIDE DEF goOn
<1>5. PICK q \in Seq(Block) : job' = goOn(q) BY <1>4
<1>6. /\ job' \in [pc : {"idle", "orphans"}, caller : {"none"}, block : {Null},
                   at : {Null}, mid : {Null}, queue : Seq(Block)]
      /\ job'.pc = "orphans" => job'.queue # << >>
  BY <1>3, <1>5
<1>7. JobType' /\ job'.pc \in {"idle", "orphans"} /\ job'.caller = "none"
  BY <1>6 DEF JobType
<1>8. mapOrphanBlocks' \in SUBSET NonGenesis BY <1>4
<1> QED BY <1>6, <1>7, <1>8

(* InvalidChainFound writes a chain work; the rest of the database stays.  *)
LEMMA InvalidChainFoundInv ==
    ASSUME MemoryType, DatabaseType, NEW b \in Block, InvalidChainFound(b)
    PROVE  /\ bnBestInvalidWork' \in InvalidWork
           /\ txdb' = [blockindex |-> txdb.blockindex, tx |-> txdb.tx,
                       hashBestChain |-> txdb.hashBestChain,
                       bnBestInvalidWork |-> txdb'.bnBestInvalidWork]
           /\ txdb'.bnBestInvalidWork \in InvalidWork
<1>1. bnChainWork[b] \in InvalidWork BY DEF InvalidWork
<1>2. bnBestInvalidWork \in InvalidWork BY DEF MemoryType
<1> DEFINE work == IF bnChainWork[b] > bnBestInvalidWork THEN bnChainWork[b]
                   ELSE bnBestInvalidWork
<1>3. work \in InvalidWork BY <1>1, <1>2
<1>4. bnBestInvalidWork' = work BY DEF InvalidChainFound
<1>5. txdb' \in {txdb, [txdb EXCEPT !.bnBestInvalidWork = work]}
  BY DEF InvalidChainFound
<1> HIDE DEF work
<1> QED BY <1>3, <1>4, <1>5 DEF DatabaseType

LEMMA WithEntryType ==
    ASSUME NEW index, IsIndex(index), NEW b \in Block
    PROVE  IsIndex(WithEntry(index, b))
BY DEF IsIndex, WithEntry

(* AddToBlockIndex calls SetBestChain, or returns.                         *)
LEMMA AddToBlockIndexInv ==
    ASSUME TypeOK,
           NEW caller \in {"ProcessBlock", "orphan", "LoadBlockIndex"},
           NEW b \in Block, NEW queue \in Seq(Block),
           caller = "orphan" => queue # << >>,
           AddToBlockIndex(caller, b, queue)
    PROVE  /\ IsIndex(mapBlockIndex')
           /\ txdb' = [blockindex |-> txdb'.blockindex, tx |-> txdb.tx,
                       hashBestChain |-> txdb.hashBestChain,
                       bnBestInvalidWork |-> txdb.bnBestInvalidWork]
           /\ IsIndex(txdb'.blockindex)
           /\ JobType'
           /\ mapOrphanBlocks' \in SUBSET NonGenesis
           /\ job'.pc \in {"idle", "orphans", "setbest"}
           /\ job'.pc = "setbest" =>
                 job'.caller = caller /\ job'.block = b /\ job'.queue = queue /\ MoreWork(b)
           /\ job'.pc # "setbest" => job'.caller = "none"
           /\ job'.pc = "orphans" => job'.queue # << >>
<1> USE DEF TypeOK
<1>1. IsIndex(mapBlockIndex')
  BY WithEntryType DEF AddToBlockIndex, MemoryType
<1>2. txdb' = [txdb EXCEPT !.blockindex = WithEntry(txdb.blockindex, b)]
  BY DEF AddToBlockIndex
<1>3. IsIndex(WithEntry(txdb.blockindex, b)) BY WithEntryType DEF DatabaseType
<1>4. txdb' = [blockindex |-> WithEntry(txdb.blockindex, b), tx |-> txdb.tx,
               hashBestChain |-> txdb.hashBestChain,
               bnBestInvalidWork |-> txdb.bnBestInvalidWork]
  BY <1>2 DEF DatabaseType
<1>5. CASE MoreWork(b)
  <2>1. job' = [Idle EXCEPT !.pc = "setbest", !.caller = caller, !.block = b, !.queue = queue]
    BY <1>5 DEF AddToBlockIndex
  <2>2. mapOrphanBlocks' \in SUBSET NonGenesis BY <1>5 DEF AddToBlockIndex, MemoryType
  <2> QED BY <1>1, <1>3, <1>4, <1>5, <2>1, <2>2 DEF Idle, JobType
<1>6. CASE ~MoreWork(b)
  <2>1. ReturnTo(caller, b, queue, TRUE) BY <1>6 DEF AddToBlockIndex
  <2>2. mapOrphanBlocks \in SUBSET NonGenesis BY DEF MemoryType
  <2> QED BY <1>1, <1>3, <1>4, <2>1, <2>2, ReturnToInv
<1> QED BY <1>5, <1>6

LEMMA RelinkedType ==
    ASSUME NEW index, IsIndex(index), NEW old \in Block, NEW new \in Block
    PROVE  IsIndex(Relinked(index, old, new))
<1> DEFINE precedes(b, cs) == \E c \in cs \ {Genesis} : hashPrevBlock[c] = b
           joined == Ancestors[new] \ Ancestors[old]
           left == Ancestors[old] \ Ancestors[new]
           next(b) == IF precedes(b, joined) THEN NextOnBranch(b, new)
                      ELSE IF precedes(b, left) THEN Null ELSE index[b]
<1>1. Relinked(index, old, new) = [b \in DOMAIN index |-> next(b)] BY DEF Relinked
<1>2. ASSUME NEW b \in DOMAIN index PROVE next(b) \in Block \cup {Null}
  <2>1. CASE precedes(b, joined)
    <3>1. NextOnBranch(b, new) \in Ancestors[new] BY <2>1 DEF NextOnBranch
    <3> QED BY <2>1, <3>1, AncestorsType
  <2>2. CASE ~precedes(b, joined) BY <2>2 DEF IsIndex
  <2> QED BY <2>1, <2>2
<1> HIDE DEF next
<1> QED BY <1>1, <1>2 DEF IsIndex

(* SetBestChainInner adds the block's transactions to the index and takes  *)
(* them from the pool.                                                     *)
LEMMA ConnectTipInv ==
    ASSUME MemoryType, DatabaseType, Indexed(mempool), NEW b \in Block, ConnectTip(b)
    PROVE  /\ txdb' = [blockindex |-> txdb'.blockindex, tx |-> txdb'.tx,
                       hashBestChain |-> txdb'.hashBestChain,
                       bnBestInvalidWork |-> txdb.bnBestInvalidWork]
           /\ IsIndex(txdb'.blockindex) /\ IsTxIndex(txdb'.tx)
           /\ txdb'.hashBestChain = b
           /\ IsIndex(mapBlockIndex')
           /\ IsPool(mempool') /\ Indexed(mempool')
           /\ DOMAIN txdb'.tx = DOMAIN txdb.tx \cup txs(b)
           /\ mempool'.mapTx = mempool.mapTx \ txs(b)
<1>1. txdb' = [blockindex |-> [txdb.blockindex EXCEPT ![hashPrevBlock[b]] = b],
               tx |-> ConnectBlock(txdb.tx, b), hashBestChain |-> b,
               bnBestInvalidWork |-> txdb.bnBestInvalidWork]
  BY DEF ConnectTip, DatabaseType
<1>2. IsIndex([txdb.blockindex EXCEPT ![hashPrevBlock[b]] = b])
  BY DEF DatabaseType, IsIndex
<1>3. IsTxIndex(ConnectBlock(txdb.tx, b)) /\ DOMAIN ConnectBlock(txdb.tx, b) = DOMAIN txdb.tx \cup txs(b)
  BY ConnectBlockType DEF DatabaseType
<1>4. IsIndex(mapBlockIndex') BY DEF ConnectTip, MemoryType, IsIndex
<1>5. mempool' = Remove(mempool, txs(b)) /\ IsPool(mempool) BY DEF ConnectTip, MemoryType
<1>6. /\ IsPool(mempool') /\ Indexed(mempool')
      /\ mempool'.mapTx = mempool.mapTx \ txs(b)
  BY <1>5, RemoveIndexed
<1> QED BY <1>1, <1>2, <1>3, <1>4, <1>6

(***************************************************************************)
(* Type correctness, and the pool's index                                  *)
(***************************************************************************)
LEMMA InitTypeInv == Init => TypeInv
<1> SUFFICES ASSUME Init PROVE TypeInv
    OBVIOUS
<1> USE DEF Init
<1>1. IsIndex(<< >>) BY DEF IsIndex
<1>2. MemoryType
  BY <1>1, EmptyPoolIndexed, ChainAssumption DEF MemoryType, InvalidWork
<1>3. DatabaseType BY <1>1, EmptyIndexType DEF DatabaseType, InvalidWork
<1>4. JobType /\ TxnType BY DEF JobType, TxnType, Idle
<1>5. HandlerOK /\ BranchOK BY DEF HandlerOK, BranchOK, Idle
<1>6. PoolIndexed BY EmptyPoolIndexed DEF PoolIndexed
<1> QED BY <1>2, <1>3, <1>4, <1>5, <1>6 DEF TypeInv, TypeOK

LEMMA DownInv == (Init => DownOK) /\ (DownOK /\ [Next]_vars => DownOK')
<1>1. Init => DownOK BY DEF Init, DownOK
<1>2. ASSUME DownOK, [Next]_vars PROVE DownOK'
  <2>1. CASE Step
    <3>1. node = "up" /\ UNCHANGED node
      BY <2>1 DEF Step, ProcessOrphan, OrphansDone, SetBestGenesis, ExtendBest,
         ExtendBestFails, Branches, Postpone, BeginReorganize, Disconnect, Connect,
         ReorganizeFails, Commit, ConnectSecondary, ConnectSecondaryFails,
         SecondariesDone, Running, SettingBest, Postponing, Reorganizing, Secondary
    <3> QED BY <3>1 DEF DownOK
  <2>2. CASE StartFresh \/ Start BY <2>2 DEF StartFresh, Start, DownOK
  <2>3. CASE Crash BY <2>3 DEF Crash, LoseMemory, DownOK
  <2>4. ASSUME NEW b \in NonGenesis, HoldOrphan(b) \/ ProcessBlock(b) PROVE DownOK'
    BY <2>4 DEF HoldOrphan, ProcessBlock, Ready, DownOK
  <2>5. ASSUME NEW t \in Tx, AcceptToMemoryPool(t) \/ ReacceptWalletTransaction(t)
        PROVE  DownOK'
    BY <2>5 DEF AcceptToMemoryPool, ReacceptWalletTransaction, Ready, DownOK
  <2>6. CASE UNCHANGED vars BY <1>2, <2>6 DEF vars, memory, DownOK
  <2> QED BY <1>2, <2>1, <2>2, <2>3, <2>4, <2>5, <2>6 DEF Next
<1> QED BY <1>1, <1>2

(* A transaction that arrives changes only the pool, and with what the     *)
(* wallet adds beside it brings in nothing that is confirmed.              *)
LEMMA PoolGrows ==
    ASSUME MemoryType, PoolIndexed, NEW t \in Tx,
           AcceptToMemoryPool(t) \/ ReacceptWalletTransaction(t)
    PROVE  /\ UNCHANGED <<node, mapBlockIndex, pindexBest, bnBestInvalidWork,
                          mapOrphanBlocks, txdb, txn, job, crashes>>
           /\ IsPool(mempool') /\ Indexed(mempool')
           /\ \E new \in SUBSET Tx :
                 /\ mempool'.mapTx = mempool.mapTx \cup new
                 /\ new \cap DOMAIN txdb.tx = {}
                 /\ job.pc = "reorganize" => new \cap DOMAIN txn.tx = {}
<1>1. /\ UNCHANGED <<node, mapBlockIndex, pindexBest, bnBestInvalidWork,
                     mapOrphanBlocks, txdb, txn, job, crashes>>
      /\ Acceptable(mempool, t) /\ t \notin DOMAIN txdb.tx
  BY DEF AcceptToMemoryPool, ReacceptWalletTransaction, AcceptOK
<1>2. IsPool(mempool) /\ Indexed(mempool) BY DEF MemoryType, PoolIndexed
<1>3. /\ \A r, u \in {t} : ~Conflict(r, u)
      /\ \A u \in {t} : vin[u] \cap DOMAIN mempool.mapNextTx = {}
  BY <1>1 DEF Conflict, Acceptable
<1>4. CASE AcceptToMemoryPool(t)
  <2>1. job.pc # "reorganize" BY <1>4 DEF AcceptToMemoryPool, Ready, Idle
  <2>2. PICK between \in ReacceptedBetween(mempool, txdb.tx, WalletTx, {t}), late \in SUBSET WalletTx :
            late \subseteq between /\ mempool' = AddRaced(mempool, between, late, {t})
    BY <1>4 DEF AcceptToMemoryPool, ReacceptedBetween
  <2>3. /\ between \in SUBSET Tx /\ between \cap DOMAIN txdb.tx = {}
        /\ \A r, u \in between : ~Conflict(r, u)
        /\ \A u \in between : vin[u] \cap DOMAIN mempool.mapNextTx = {}
    BY ChainAssumption DEF ReacceptedBetween, Acceptable
  <2> DEFINE ts == {t}
             new == AddRaced(mempool, between, late, ts)
  <2>4. \A u \in between \cup ts : vin[u] \cap DOMAIN mempool.mapNextTx = {}
    BY <1>3, <2>3
  <2>5. ts \in SUBSET Tx /\ \A r, u \in ts : ~Conflict(r, u) BY <1>3
  <2> HIDE DEF ts
  <2>6. IsPool(new) /\ Indexed(new) /\ new.mapTx = mempool.mapTx \cup between \cup ts
    BY <1>2, <2>2, <2>3, <2>4, <2>5, AddRacedIndexed
  <2> DEFINE added == between \cup {t}
  <2>7. /\ IsPool(mempool') /\ Indexed(mempool')
        /\ mempool'.mapTx = mempool.mapTx \cup added
    BY <2>2, <2>6 DEF ts
  <2>8. added \in SUBSET Tx /\ added \cap DOMAIN txdb.tx = {} BY <1>1, <2>3
  <2> HIDE DEF added
  <2> QED BY <1>1, <2>1, <2>7, <2>8
<1>5. CASE ReacceptWalletTransaction(t)
  <2>1. /\ mempool' = AddUnchecked(mempool, {t})
        /\ job.pc = "reorganize" => t \notin DOMAIN txn.tx
    BY <1>5 DEF ReacceptWalletTransaction
  <2>2. /\ IsPool(mempool') /\ Indexed(mempool')
        /\ mempool'.mapTx = mempool.mapTx \cup {t}
    BY <1>2, <1>3, <2>1, AddUncheckedIndexed
  <2> QED BY <1>1, <2>1, <2>2
<1> QED BY <1>4, <1>5

(* What neither starts nor ends a handler: blocks and transactions that    *)
(* arrive, and the start and the end of the process.                       *)
LEMMA EnvironmentTypeInv ==
    ASSUME TypeInv, DownOK,
           \/ StartFresh \/ Start \/ Crash
           \/ \E b \in NonGenesis : HoldOrphan(b) \/ ProcessBlock(b)
           \/ \E t \in Tx : AcceptToMemoryPool(t) \/ ReacceptWalletTransaction(t)
    PROVE  TypeInv'
<1> USE DEF TypeInv, TypeOK
<1>1. Genesis \in Block BY TreeAssumption
<1>2. << >> \in Seq(Block) OBVIOUS
<1>3. CASE StartFresh
  <2>1. AddToBlockIndex("LoadBlockIndex", Genesis, << >>) BY <1>3 DEF StartFresh
  <2>2. UNCHANGED <<pindexBest, bnBestInvalidWork, mempool, txn, crashes>> /\ node' = "up"
    BY <1>3 DEF StartFresh
  <2>3. /\ IsIndex(mapBlockIndex') /\ JobType' /\ mapOrphanBlocks' \in SUBSET NonGenesis
        /\ txdb' = [blockindex |-> txdb'.blockindex, tx |-> txdb.tx,
                    hashBestChain |-> txdb.hashBestChain,
                    bnBestInvalidWork |-> txdb.bnBestInvalidWork]
        /\ IsIndex(txdb'.blockindex)
        /\ job'.pc \in {"idle", "orphans", "setbest"}
        /\ job'.pc = "setbest" => job'.caller = "LoadBlockIndex" /\ job'.block = Genesis
        /\ job'.pc # "setbest" => job'.caller = "none"
        /\ job'.pc = "orphans" => job'.queue # << >>
    BY <1>1, <1>2, <2>1, AddToBlockIndexInv
  <2>4. MemoryType' BY <2>2, <2>3 DEF MemoryType
  <2>5. DatabaseType' BY <2>2, <2>3 DEF DatabaseType
  <2>6. HandlerOK' BY <1>1, <2>3 DEF HandlerOK
  <2>7. BranchOK' /\ PoolIndexed' BY <2>2, <2>3 DEF BranchOK, PoolIndexed
  <2>8. TxnType'
    <3>1. job.pc # "reorganize" BY <1>3 DEF StartFresh, DownOK, Idle
    <3> QED BY <2>2, <2>3, <3>1 DEF TxnType
  <2> QED BY <2>3, <2>4, <2>5, <2>6, <2>7, <2>8
<1>4. CASE Start
  <2>1. MemoryType' BY <1>4 DEF Start, MemoryType, DatabaseType
  <2>2. DatabaseType' BY <1>4 DEF Start, DatabaseType
  <2>3. CASE job' = Idle
    BY <1>4, <2>1, <2>2, <2>3
       DEF Start, Idle, JobType, TxnType, HandlerOK, BranchOK, PoolIndexed, DownOK
  <2>4. ASSUME NEW bad \in BadAtLoad,
               job' = [Idle EXCEPT !.pc = "setbest", !.caller = "LoadBlockIndex",
                                   !.block = hashPrevBlock[bad]]
        PROVE  TypeInv'
    <3>1. hashPrevBlock[bad] \in Block
      BY ChainAssumption, TreeAssumption DEF NonGenesis
    <3>2. job' = [pc |-> "setbest", caller |-> "LoadBlockIndex", block |-> hashPrevBlock[bad],
                  at |-> Null, mid |-> Null, queue |-> << >>]
      BY <2>4 DEF Idle
    <3>3. JobType' /\ HandlerOK' /\ BranchOK'
      BY <1>2, <3>1, <3>2 DEF JobType, HandlerOK, BranchOK
    <3>4. TxnType'
      <4>1. job'.pc = "setbest" BY <3>2
      <4>2. node = "down" /\ txn' = txn BY <1>4 DEF Start
      <4>3. job.pc # "reorganize" BY <4>2 DEF DownOK, Idle
      <4> QED BY <4>1, <4>2, <4>3 DEF TxnType
    <3>5. PoolIndexed' BY <1>4 DEF Start, PoolIndexed
    <3> QED BY <2>1, <2>2, <3>3, <3>4, <3>5
  <2> QED BY <1>4, <2>3, <2>4 DEF Start
<1>5. CASE Crash
  <2>1. MemoryType'
    <3>1. IsIndex(<< >>) BY DEF IsIndex
    <3>2. crashes' \in 0..MaxCrash BY <1>5, ChainAssumption DEF Crash, MemoryType
    <3> QED BY <1>5, <3>1, <3>2, EmptyPoolIndexed DEF Crash, LoseMemory, MemoryType, InvalidWork
  <2>2. DatabaseType' BY <1>5 DEF Crash, LoseMemory, DatabaseType
  <2>3. JobType' /\ TxnType' /\ HandlerOK' /\ BranchOK'
    BY <1>5 DEF Crash, LoseMemory, Idle, JobType, TxnType, HandlerOK, BranchOK
  <2>4. PoolIndexed' BY <1>5, EmptyPoolIndexed DEF Crash, LoseMemory, PoolIndexed
  <2> QED BY <2>1, <2>2, <2>3, <2>4
<1>6. ASSUME NEW b \in NonGenesis, HoldOrphan(b) PROVE TypeInv'
  <2>1. MemoryType' BY <1>6 DEF HoldOrphan, MemoryType
  <2>2. DatabaseType' BY <1>6 DEF HoldOrphan, DatabaseType
  <2>3. JobType' /\ TxnType' /\ HandlerOK' /\ BranchOK' /\ PoolIndexed'
    BY <1>6 DEF HoldOrphan, JobType, TxnType, HandlerOK, BranchOK, PoolIndexed
  <2> QED BY <2>1, <2>2, <2>3
<1>7. ASSUME NEW b \in NonGenesis, ProcessBlock(b) PROVE TypeInv'
  <2>1. b \in Block BY DEF NonGenesis
  <2>2. AddToBlockIndex("ProcessBlock", b, << >>) BY <1>7 DEF ProcessBlock
  <2>3. UNCHANGED <<node, pindexBest, bnBestInvalidWork, mempool, txn, crashes>>
    BY <1>7 DEF ProcessBlock
  <2>4. /\ IsIndex(mapBlockIndex') /\ JobType' /\ mapOrphanBlocks' \in SUBSET NonGenesis
        /\ txdb' = [blockindex |-> txdb'.blockindex, tx |-> txdb.tx,
                    hashBestChain |-> txdb.hashBestChain,
                    bnBestInvalidWork |-> txdb.bnBestInvalidWork]
        /\ IsIndex(txdb'.blockindex)
        /\ job'.pc \in {"idle", "orphans", "setbest"}
        /\ job'.pc = "setbest" => job'.caller = "ProcessBlock" /\ job'.block = b
        /\ job'.pc # "setbest" => job'.caller = "none"
        /\ job'.pc = "orphans" => job'.queue # << >>
    BY <1>2, <2>1, <2>2, AddToBlockIndexInv
  <2>5. MemoryType' BY <2>3, <2>4 DEF MemoryType
  <2>6. DatabaseType' BY <2>3, <2>4 DEF DatabaseType
  <2>7. HandlerOK' BY <2>1, <2>4 DEF HandlerOK
  <2>8. BranchOK' /\ PoolIndexed' BY <2>3, <2>4 DEF BranchOK, PoolIndexed
  <2>9. TxnType' BY <1>7, <2>3, <2>4 DEF ProcessBlock, Ready, Idle, TxnType
  <2> QED BY <2>4, <2>5, <2>6, <2>7, <2>8, <2>9
<1>8. ASSUME NEW t \in Tx, AcceptToMemoryPool(t) \/ ReacceptWalletTransaction(t)
      PROVE  TypeInv'
  <2>1. /\ UNCHANGED <<node, mapBlockIndex, pindexBest, bnBestInvalidWork,
                       mapOrphanBlocks, txdb, txn, job, crashes>>
        /\ IsPool(mempool') /\ Indexed(mempool')
    BY <1>8, PoolGrows
  <2>2. MemoryType' BY <2>1 DEF MemoryType
  <2>3. DatabaseType' BY <2>1 DEF DatabaseType
  <2>4. JobType' /\ TxnType' /\ HandlerOK' /\ BranchOK' /\ PoolIndexed'
    BY <2>1 DEF JobType, TxnType, HandlerOK, BranchOK, PoolIndexed
  <2> QED BY <2>2, <2>3, <2>4
<1> QED BY <1>3, <1>4, <1>5, <1>6, <1>7, <1>8

(* Returning from a step of SetBestChain.                                  *)
LEMMA ReturnInv ==
    ASSUME TypeOK, HandlerOK, job.pc \notin {"idle", "orphans"},
           NEW ok \in BOOLEAN, Return(ok)
    PROVE  /\ JobType' /\ HandlerOK' /\ BranchOK'
           /\ mapOrphanBlocks' \in SUBSET NonGenesis
           /\ job'.pc \in {"idle", "orphans"}
<1>1. /\ job.caller \in {"ProcessBlock", "orphan", "LoadBlockIndex"}
      /\ job.block \in Block /\ job.queue \in Seq(Block)
      /\ job.caller = "orphan" => job.queue # << >>
  BY DEF TypeOK, JobType, HandlerOK
<1>2. mapOrphanBlocks \in SUBSET NonGenesis /\ JobType BY DEF TypeOK, MemoryType
<1>3. ReturnTo(job.caller, job.block, job.queue, ok) BY DEF Return
<1>4. /\ JobType' /\ mapOrphanBlocks' \in SUBSET NonGenesis
      /\ job'.pc \in {"idle", "orphans"} /\ job'.caller = "none"
      /\ job'.pc = "orphans" => job'.queue # << >>
  BY <1>1, <1>2, <1>3, ReturnToInv
<1> QED BY <1>4 DEF HandlerOK, BranchOK

(* The loop over orphans, and SetBestChain up to Reorganize.               *)
LEMMA SetBestTypeInv ==
    ASSUME TypeInv,
           \/ \E b \in NonGenesis : ProcessOrphan(b)
           \/ OrphansDone
           \/ SetBestGenesis \/ ExtendBest \/ ExtendBestFails
           \/ Branches \/ Postpone \/ BeginReorganize
    PROVE  TypeInv'
<1> USE DEF TypeInv, TypeOK
<1>1. ASSUME NEW b \in NonGenesis, ProcessOrphan(b) PROVE TypeInv'
  <2>1. b \in Block BY DEF NonGenesis
  <2>2. job.queue \in Seq(Block) /\ job.queue # << >>
    BY <1>1 DEF ProcessOrphan, JobType, HandlerOK
  <2>3. UNCHANGED <<node, pindexBest, bnBestInvalidWork, mempool, txn, crashes>>
    BY <1>1 DEF ProcessOrphan
  <2>4. CASE AddToBlockIndex("orphan", b, job.queue)
    <3>1. /\ IsIndex(mapBlockIndex') /\ JobType' /\ mapOrphanBlocks' \in SUBSET NonGenesis
          /\ txdb' = [blockindex |-> txdb'.blockindex, tx |-> txdb.tx,
                      hashBestChain |-> txdb.hashBestChain,
                      bnBestInvalidWork |-> txdb.bnBestInvalidWork]
          /\ IsIndex(txdb'.blockindex)
          /\ job'.pc \in {"idle", "orphans", "setbest"}
          /\ job'.pc = "setbest" =>
                job'.caller = "orphan" /\ job'.block = b /\ job'.queue = job.queue
          /\ job'.pc # "setbest" => job'.caller = "none"
          /\ job'.pc = "orphans" => job'.queue # << >>
      BY <2>1, <2>2, <2>4, AddToBlockIndexInv
    <3>2. MemoryType' BY <2>3, <3>1 DEF MemoryType
    <3>3. DatabaseType' BY <2>3, <3>1 DEF DatabaseType
    <3>4. HandlerOK' BY <2>1, <2>2, <3>1 DEF HandlerOK
    <3>5. BranchOK' /\ PoolIndexed' BY <2>3, <3>1 DEF BranchOK, PoolIndexed
    <3>6. TxnType' BY <1>1, <2>3, <3>1 DEF ProcessOrphan, TxnType
    <3> QED BY <3>1, <3>2, <3>3, <3>4, <3>5, <3>6
  <2>5. CASE ReturnTo("orphan", b, job.queue, FALSE) /\ UNCHANGED <<mapBlockIndex, txdb>>
    <3>1. mapOrphanBlocks \in SUBSET NonGenesis BY DEF MemoryType
    <3>2. /\ JobType' /\ mapOrphanBlocks' \in SUBSET NonGenesis
          /\ job'.pc \in {"idle", "orphans"} /\ job'.caller = "none"
          /\ job'.pc = "orphans" => job'.queue # << >>
      BY <2>1, <2>2, <2>5, <3>1, ReturnToInv
    <3>3. MemoryType' BY <2>3, <2>5, <3>2 DEF MemoryType
    <3>4. DatabaseType' BY <2>3, <2>5 DEF DatabaseType
    <3>5. HandlerOK' /\ BranchOK' /\ PoolIndexed'
      BY <2>3, <3>2 DEF HandlerOK, BranchOK, PoolIndexed
    <3>6. TxnType' BY <1>1, <2>3, <3>2 DEF ProcessOrphan, TxnType
    <3> QED BY <3>2, <3>3, <3>4, <3>5, <3>6
  <2> QED BY <1>1, <2>4, <2>5 DEF ProcessOrphan
<1>2. CASE OrphansDone
  <2>1. job.queue \in Seq(Block) /\ job.queue # << >>
    BY <1>2 DEF OrphansDone, JobType, HandlerOK
  <2>2. UNCHANGED <<node, memory, txdb, txn, crashes>> BY <1>2 DEF OrphansDone
  <2>3. CASE Len(job.queue) = 1
    <3>1. job' = Idle BY <1>2, <2>3 DEF OrphansDone
    <3> QED BY <1>2, <2>2, <3>1
            DEF memory, Idle, OrphansDone, MemoryType, DatabaseType, TxnType, JobType,
                HandlerOK, BranchOK, PoolIndexed
  <2>4. CASE Len(job.queue) # 1
    <3>1. job' = [job EXCEPT !.queue = Tail(job.queue)] BY <1>2, <2>4 DEF OrphansDone
    <3>2. Tail(job.queue) \in Seq(Block) /\ Tail(job.queue) # << >>
      <4>1. Len(job.queue) \in Nat \ {0, 1} BY <2>1, <2>4, EmptySeq
      <4>2. Tail(job.queue) \in Seq(Block) /\ Len(Tail(job.queue)) # 0
        BY <2>1, <4>1, HeadTailProperties
      <4> QED BY <4>2, EmptySeq
    <3>3. JobType' BY <3>1, <3>2 DEF JobType
    <3>4. TxnType' /\ HandlerOK' /\ BranchOK'
      BY <1>2, <2>2, <3>1, <3>2 DEF OrphansDone, TxnType, HandlerOK, BranchOK, JobType
    <3>5. MemoryType' /\ DatabaseType' /\ PoolIndexed'
      BY <2>2 DEF memory, MemoryType, DatabaseType, PoolIndexed
    <3> QED BY <3>3, <3>4, <3>5
  <2> QED BY <2>3, <2>4
<1>3. CASE SetBestGenesis
  <2>1. Return(TRUE) /\ job.pc = "setbest" /\ UNCHANGED txn
    BY <1>3 DEF SetBestGenesis, SettingBest
  <2>2. /\ JobType' /\ HandlerOK' /\ BranchOK'
        /\ mapOrphanBlocks' \in SUBSET NonGenesis
        /\ job'.pc \in {"idle", "orphans"}
    BY <2>1, ReturnInv
  <2>3. job.block \in Block BY <2>1 DEF HandlerOK
  <2>4. MemoryType' BY <1>3, <2>2, <2>3 DEF SetBestGenesis, MemoryType
  <2>5. DatabaseType' BY <1>3, <2>3 DEF SetBestGenesis, DatabaseType
  <2>6. PoolIndexed' BY <1>3 DEF SetBestGenesis, PoolIndexed
  <2>7. TxnType' BY <2>1, <2>2 DEF TxnType
  <2> QED BY <2>2, <2>4, <2>5, <2>6, <2>7
<1>4. CASE ExtendBest
  <2>1. Return(TRUE) /\ job.pc = "setbest" /\ UNCHANGED txn
    BY <1>4 DEF ExtendBest, SettingBest
  <2>2. /\ JobType' /\ HandlerOK' /\ BranchOK'
        /\ mapOrphanBlocks' \in SUBSET NonGenesis
        /\ job'.pc \in {"idle", "orphans"}
    BY <2>1, ReturnInv
  <2>3. job.block \in Block BY <2>1 DEF HandlerOK
  <2>4. ConnectTip(job.block) /\ Indexed(mempool) BY <1>4 DEF ExtendBest, PoolIndexed
  <2>5. /\ txdb' = [blockindex |-> txdb'.blockindex, tx |-> txdb'.tx,
                    hashBestChain |-> txdb'.hashBestChain,
                    bnBestInvalidWork |-> txdb.bnBestInvalidWork]
        /\ IsIndex(txdb'.blockindex) /\ IsTxIndex(txdb'.tx)
        /\ txdb'.hashBestChain = job.block
        /\ IsIndex(mapBlockIndex') /\ IsPool(mempool') /\ Indexed(mempool')
    BY <2>3, <2>4, ConnectTipInv
  <2>6. MemoryType' BY <1>4, <2>2, <2>3, <2>5 DEF ExtendBest, MemoryType
  <2>7. DatabaseType' BY <1>4, <2>3, <2>5 DEF ExtendBest, DatabaseType
  <2>8. PoolIndexed' BY <2>5 DEF PoolIndexed
  <2>9. TxnType' BY <2>1, <2>2 DEF TxnType
  <2> QED BY <2>2, <2>6, <2>7, <2>8, <2>9
<1>5. CASE ExtendBestFails
  <2>1. Return(FALSE) /\ job.pc = "setbest" /\ UNCHANGED txn
    BY <1>5 DEF ExtendBestFails, SettingBest
  <2>2. /\ JobType' /\ HandlerOK' /\ BranchOK'
        /\ mapOrphanBlocks' \in SUBSET NonGenesis
        /\ job'.pc \in {"idle", "orphans"}
    BY <2>1, ReturnInv
  <2>3. job.block \in Block /\ InvalidChainFound(job.block)
    BY <1>5, <2>1 DEF HandlerOK, ExtendBestFails
  <2>4. /\ bnBestInvalidWork' \in InvalidWork
        /\ txdb' = [blockindex |-> txdb.blockindex, tx |-> txdb.tx,
                    hashBestChain |-> txdb.hashBestChain,
                    bnBestInvalidWork |-> txdb'.bnBestInvalidWork]
        /\ txdb'.bnBestInvalidWork \in InvalidWork
    BY <2>3, InvalidChainFoundInv
  <2>5. MemoryType' BY <1>5, <2>2, <2>4 DEF ExtendBestFails, MemoryType
  <2>6. DatabaseType' BY <1>5, <2>4 DEF ExtendBestFails, DatabaseType
  <2>7. PoolIndexed' BY <1>5 DEF ExtendBestFails, PoolIndexed
  <2>8. TxnType' BY <2>1, <2>2 DEF TxnType
  <2> QED BY <2>2, <2>5, <2>6, <2>7, <2>8
<1>6. CASE Branches
  <2>1. /\ job' = [job EXCEPT !.pc = "postpone", !.mid = job.block]
        /\ job.pc = "setbest" /\ pindexBest # Null
        /\ UNCHANGED <<node, memory, txdb, txn, crashes>>
    BY <1>6 DEF Branches, SettingBest
  <2>2. job.block \in Block /\ pindexBest \in Block BY <2>1 DEF HandlerOK, MemoryType
  <2>3. MemoryType' /\ DatabaseType' /\ PoolIndexed'
    BY <2>1 DEF memory, MemoryType, DatabaseType, PoolIndexed
  <2>4. JobType' /\ TxnType' /\ HandlerOK' BY <2>1, <2>2 DEF JobType, TxnType, HandlerOK
  <2>5. BranchOK' BY <2>1, <2>2, AncestorsType DEF memory, JobType, BranchOK
  <2> QED BY <2>3, <2>4, <2>5
<1>7. CASE Postpone
  <2>1. /\ job' = [job EXCEPT !.mid = hashPrevBlock[job.mid]]
        /\ job.pc = "postpone" /\ job.mid # Genesis
        /\ UNCHANGED <<node, memory, txdb, txn, crashes>>
    BY <1>7 DEF Postpone, Postponing, Postponed
  <2>2. /\ job.block \in Block /\ pindexBest \in Block
        /\ job.mid \in Ancestors[job.block]
    BY <2>1 DEF HandlerOK, BranchOK
  <2>3. hashPrevBlock[job.mid] \in Ancestors[job.block] /\ hashPrevBlock[job.mid] \in Block
    BY <2>1, <2>2, AncestorsClosed, AncestorsType
  <2>4. MemoryType' /\ DatabaseType' /\ PoolIndexed'
    BY <2>1 DEF memory, MemoryType, DatabaseType, PoolIndexed
  <2>5. JobType' /\ TxnType' /\ HandlerOK' BY <2>1, <2>3 DEF JobType, TxnType, HandlerOK
  <2>6. BranchOK' BY <2>1, <2>2, <2>3 DEF memory, JobType, BranchOK
  <2> QED BY <2>4, <2>5, <2>6
<1>8. CASE BeginReorganize
  <2>1. /\ job' = [job EXCEPT !.pc = "reorganize", !.at = pindexBest]
        /\ txn' = [blockindex |-> txdb.blockindex, tx |-> txdb.tx]
        /\ job.pc = "postpone"
        /\ UNCHANGED <<node, memory, txdb, crashes>>
    BY <1>8 DEF BeginReorganize, Postponing
  <2>2. /\ job.block \in Block /\ pindexBest \in Block
        /\ job.mid \in Ancestors[job.block]
    BY <2>1 DEF HandlerOK, BranchOK
  <2>3. MemoryType' /\ PoolIndexed' BY <2>1 DEF memory, MemoryType, PoolIndexed
  <2>4. DatabaseType' BY <2>1 DEF DatabaseType
  <2>5. JobType' /\ HandlerOK' BY <2>1, <2>2 DEF JobType, HandlerOK
  <2>6. TxnType' BY <2>1 DEF DatabaseType, JobType, TxnType
  <2>7. BranchOK' BY <2>1, <2>2 DEF memory, JobType, BranchOK
  <2> QED BY <2>3, <2>4, <2>5, <2>6, <2>7
<1> QED BY <1>1, <1>2, <1>3, <1>4, <1>5, <1>6, <1>7, <1>8

(* Reorganize and the blocks behind it.                                    *)
LEMMA ReorganizeTypeInv ==
    ASSUME TypeInv, WalkOK,
           \/ Disconnect \/ Connect \/ ReorganizeFails \/ Commit
           \/ ConnectSecondary \/ ConnectSecondaryFails \/ SecondariesDone
    PROVE  TypeInv'
<1> USE DEF TypeInv, TypeOK
<1> DEFINE walk == /\ job.block \in Block /\ pindexBest \in Block
                   /\ job.mid \in Ancestors[job.block] /\ job.mid \in Block
                   /\ job.at \in Block
                   /\ job.at \in Ancestors[pindexBest] \cup Ancestors[job.mid]
                   /\ txn = [blockindex |-> txn.blockindex, tx |-> txn.tx]
                   /\ IsIndex(txn.blockindex) /\ IsTxIndex(txn.tx)
<1>1. ASSUME job.pc = "reorganize" PROVE walk
  <2>1. job.block \in Block /\ pindexBest \in Block /\ job.mid \in Ancestors[job.block]
    BY <1>1 DEF HandlerOK, BranchOK
  <2>2. job.mid \in Block BY <2>1, AncestorsType
  <2>3. job.at \in Ancestors[pindexBest] \cup Ancestors[job.mid] BY <1>1 DEF WalkOK
  <2>4. job.at \in Block BY <2>1, <2>2, <2>3, AncestorsType
  <2> QED BY <1>1, <2>1, <2>2, <2>3, <2>4 DEF TxnType
<1>2. CASE Disconnect
  <2>1. /\ job.pc = "reorganize" /\ AboveFork
        /\ txn' = [blockindex |-> [txn.blockindex EXCEPT ![hashPrevBlock[job.at]] = Null],
                   tx |-> DisconnectBlock(txn.tx, job.at)]
        /\ job' = [job EXCEPT !.at = hashPrevBlock[job.at]]
        /\ UNCHANGED <<node, memory, txdb, crashes>>
    BY <1>2 DEF Disconnect, Reorganizing
  <2>2. walk BY <1>1, <2>1
  <2>3. job.at # Genesis BY <2>1, <2>2, GenesisIsAncestor DEF AboveFork
  <2>4. hashPrevBlock[job.at] \in Block BY <2>2, <2>3, TreeAssumption DEF NonGenesis
  <2>5. MemoryType' /\ DatabaseType' /\ PoolIndexed'
    BY <2>1 DEF memory, MemoryType, DatabaseType, PoolIndexed
  <2>6. JobType' /\ HandlerOK' BY <2>1, <2>4 DEF JobType, HandlerOK
  <2>7. BranchOK' BY <2>1 DEF memory, JobType, BranchOK
  <2>8. IsIndex([txn.blockindex EXCEPT ![hashPrevBlock[job.at]] = Null])
    BY <2>2 DEF IsIndex
  <2>9. IsTxIndex(DisconnectBlock(txn.tx, job.at)) BY <2>2, DisconnectBlockType
  <2>10. TxnType' BY <2>1, <2>8, <2>9 DEF JobType, TxnType
  <2> QED BY <2>5, <2>6, <2>7, <2>10
<1>3. CASE Connect
  <2> DEFINE next == NextOnBranch(job.at, job.mid)
  <2>1. /\ job.pc = "reorganize" /\ ~AboveFork /\ job.at # job.mid
        /\ txn' = [blockindex |-> [txn.blockindex EXCEPT ![job.at] = next],
                   tx |-> ConnectBlock(txn.tx, next)]
        /\ job' = [job EXCEPT !.at = next]
        /\ UNCHANGED <<node, memory, txdb, crashes>>
    BY <1>3 DEF Connect, Reorganizing
  <2>2. walk BY <1>1, <2>1
  <2>3. next \in Block
    <3>1. next \in Ancestors[job.mid] BY <2>1, <2>2, NextOnBranchType DEF AboveFork
    <3> QED BY <2>2, <3>1, AncestorsType
  <2> HIDE DEF next
  <2>4. MemoryType' /\ DatabaseType' /\ PoolIndexed'
    BY <2>1 DEF memory, MemoryType, DatabaseType, PoolIndexed
  <2>5. JobType' /\ HandlerOK' BY <2>1, <2>3 DEF JobType, HandlerOK
  <2>6. BranchOK' BY <2>1 DEF memory, JobType, BranchOK
  <2>7. IsIndex([txn.blockindex EXCEPT ![job.at] = next]) BY <2>2, <2>3 DEF IsIndex
  <2>8. IsTxIndex(ConnectBlock(txn.tx, next)) BY <2>2, <2>3, ConnectBlockType
  <2>9. TxnType' BY <2>1, <2>7, <2>8 DEF JobType, TxnType
  <2> QED BY <2>4, <2>5, <2>6, <2>9
<1>4. CASE ReorganizeFails
  <2>1. /\ job.pc = "reorganize" /\ txn' = Null
        /\ InvalidChainFound(job.block) /\ Return(FALSE)
        /\ UNCHANGED <<node, mapBlockIndex, pindexBest, mempool, crashes>>
    BY <1>4 DEF ReorganizeFails, Reorganizing
  <2>2. /\ JobType' /\ HandlerOK' /\ BranchOK'
        /\ mapOrphanBlocks' \in SUBSET NonGenesis
        /\ job'.pc \in {"idle", "orphans"}
    BY <2>1, ReturnInv
  <2>3. job.block \in Block BY <2>1 DEF HandlerOK
  <2>4. /\ bnBestInvalidWork' \in InvalidWork
        /\ txdb' = [blockindex |-> txdb.blockindex, tx |-> txdb.tx,
                    hashBestChain |-> txdb.hashBestChain,
                    bnBestInvalidWork |-> txdb'.bnBestInvalidWork]
        /\ txdb'.bnBestInvalidWork \in InvalidWork
    BY <2>1, <2>3, InvalidChainFoundInv
  <2>5. MemoryType' BY <2>1, <2>2, <2>4 DEF MemoryType
  <2>6. DatabaseType' BY <2>4 DEF DatabaseType
  <2>7. TxnType' BY <2>1, <2>2 DEF TxnType
  <2>8. PoolIndexed' BY <2>1 DEF PoolIndexed
  <2> QED BY <2>2, <2>5, <2>6, <2>7, <2>8
<1>5. CASE Commit
  <2> DEFINE back == UNION {txs(b) : b \in Ancestors[pindexBest] \ Ancestors[job.mid]}
             forward == UNION {txs(b) : b \in Ancestors[job.mid] \ Ancestors[pindexBest]}
  <2>1. /\ job.pc = "reorganize" /\ job.at = job.mid /\ txn' = Null
        /\ txdb' = [txdb EXCEPT !.blockindex = txn.blockindex, !.tx = txn.tx,
                                !.hashBestChain = job.mid]
        /\ mapBlockIndex' = Relinked(mapBlockIndex, pindexBest, job.mid)
        /\ job' = [job EXCEPT !.pc = "secondary"]
        /\ UNCHANGED <<node, pindexBest, bnBestInvalidWork, mapOrphanBlocks, crashes>>
    BY <1>5 DEF Commit, Reorganizing
  <2>2. PICK between \in SUBSET WalletTx, R \in SUBSET back, late \in SUBSET WalletTx :
            /\ R \in Resurrections(mempool, between, back)
            /\ between \in ReacceptedBetween(mempool, txn.tx, WalletTx, R)
            /\ late \subseteq between
            /\ mempool' = Remove(AddRaced(mempool, between, late, R), forward)
    BY <1>5 DEF Commit, PoolAfter, Resurrections
  <2>3. walk BY <1>1, <2>1
  <2>5. IsIndex(mapBlockIndex') BY <2>1, <2>3, RelinkedType DEF MemoryType
  <2>6. IsPool(mempool') /\ Indexed(mempool')
    <3>1. IsPool(mempool) /\ Indexed(mempool) BY DEF MemoryType, PoolIndexed
    <3>2. back \subseteq Tx BY <2>3, TxsType, AncestorsType
    <3>3. /\ R \in SUBSET Tx
          /\ \A s, t \in R : ~Conflict(s, t)
          /\ \A t \in R : vin[t] \cap DOMAIN mempool.mapNextTx = {}
      BY <2>2, <3>2 DEF Resurrections, Acceptable
    <3>4. /\ between \in SUBSET Tx
          /\ \A s, t \in between : ~Conflict(s, t)
          /\ \A t \in between : vin[t] \cap DOMAIN mempool.mapNextTx = {}
      BY <2>2, ChainAssumption DEF ReacceptedBetween, Acceptable
    <3>5. \A t \in between \cup R : vin[t] \cap DOMAIN mempool.mapNextTx = {}
      BY <3>3, <3>4
    <3>6. /\ IsPool(AddRaced(mempool, between, late, R))
          /\ Indexed(AddRaced(mempool, between, late, R))
      BY <2>2, <3>1, <3>3, <3>4, <3>5, AddRacedIndexed
    <3> HIDE DEF forward
    <3> QED BY <2>2, <3>6, RemoveIndexed
  <2>7. MemoryType' BY <2>1, <2>5, <2>6 DEF MemoryType
  <2>8. DatabaseType' BY <2>1, <2>3 DEF DatabaseType
  <2>9. JobType' /\ TxnType' /\ HandlerOK' BY <2>1 DEF JobType, TxnType, HandlerOK
  <2>10. BranchOK' BY <2>1, <2>3 DEF JobType, BranchOK
  <2>11. PoolIndexed' BY <2>6 DEF PoolIndexed
  <2> QED BY <2>7, <2>8, <2>9, <2>10, <2>11
<1>6. CASE ConnectSecondary
  <2> DEFINE next == NextOnBranch(job.at, job.block)
  <2>1. /\ job.pc = "secondary" /\ job.at # job.block
        /\ ConnectTip(next)
        /\ job' = [job EXCEPT !.at = next]
        /\ UNCHANGED <<node, pindexBest, bnBestInvalidWork, mapOrphanBlocks, txn, crashes>>
    BY <1>6 DEF ConnectSecondary, Secondary
  <2>2. job.block \in Block /\ job.at \in Ancestors[job.block]
    BY <2>1 DEF HandlerOK, BranchOK
  <2>3. next \in Ancestors[job.block] BY <2>1, <2>2, NextOnBranchType
  <2>4. next \in Block BY <2>2, <2>3, AncestorsType
  <2> HIDE DEF next
  <2>5. Indexed(mempool) BY DEF PoolIndexed
  <2>6. /\ txdb' = [blockindex |-> txdb'.blockindex, tx |-> txdb'.tx,
                    hashBestChain |-> txdb'.hashBestChain,
                    bnBestInvalidWork |-> txdb.bnBestInvalidWork]
        /\ IsIndex(txdb'.blockindex) /\ IsTxIndex(txdb'.tx)
        /\ txdb'.hashBestChain = next
        /\ IsIndex(mapBlockIndex') /\ IsPool(mempool') /\ Indexed(mempool')
    BY <2>1, <2>4, <2>5, ConnectTipInv
  <2>7. MemoryType' BY <2>1, <2>6 DEF MemoryType
  <2>8. DatabaseType' BY <2>4, <2>6 DEF DatabaseType
  <2>9. JobType' /\ TxnType' /\ HandlerOK' BY <2>1, <2>4 DEF JobType, TxnType, HandlerOK
  <2>10. BranchOK' BY <2>1, <2>3 DEF JobType, BranchOK
  <2>11. PoolIndexed' BY <2>6 DEF PoolIndexed
  <2> QED BY <2>7, <2>8, <2>9, <2>10, <2>11
<1>7. CASE ConnectSecondaryFails
  <2> DEFINE next == NextOnBranch(job.at, job.block)
  <2>1. /\ job.pc = "secondary" /\ job.at # job.block
        /\ InvalidChainFound(next) /\ pindexBest' = job.block /\ Return(TRUE)
        /\ UNCHANGED <<node, mapBlockIndex, mempool, txn, crashes>>
    BY <1>7 DEF ConnectSecondaryFails, Secondary, NewBest
  <2>2. job.block \in Block /\ job.at \in Ancestors[job.block]
    BY <2>1 DEF HandlerOK, BranchOK
  <2>3. next \in Ancestors[job.block] BY <2>1, <2>2, NextOnBranchType
  <2>4. next \in Block BY <2>2, <2>3, AncestorsType
  <2> HIDE DEF next
  <2>5. /\ JobType' /\ HandlerOK' /\ BranchOK'
        /\ mapOrphanBlocks' \in SUBSET NonGenesis
        /\ job'.pc \in {"idle", "orphans"}
    BY <2>1, ReturnInv
  <2>6. /\ bnBestInvalidWork' \in InvalidWork
        /\ txdb' = [blockindex |-> txdb.blockindex, tx |-> txdb.tx,
                    hashBestChain |-> txdb.hashBestChain,
                    bnBestInvalidWork |-> txdb'.bnBestInvalidWork]
        /\ txdb'.bnBestInvalidWork \in InvalidWork
    BY <2>1, <2>4, InvalidChainFoundInv
  <2>7. MemoryType' BY <2>1, <2>2, <2>5, <2>6 DEF MemoryType
  <2>8. DatabaseType' BY <2>6 DEF DatabaseType
  <2>9. TxnType' BY <2>1, <2>5 DEF TxnType
  <2>10. PoolIndexed' BY <2>1 DEF PoolIndexed
  <2> QED BY <2>5, <2>7, <2>8, <2>9, <2>10
<1>8. CASE SecondariesDone
  <2>1. /\ job.pc = "secondary" /\ pindexBest' = job.block /\ Return(TRUE)
        /\ UNCHANGED <<node, mapBlockIndex, bnBestInvalidWork, mempool, txdb, txn, crashes>>
    BY <1>8 DEF SecondariesDone, Secondary, NewBest
  <2>2. job.block \in Block BY <2>1 DEF HandlerOK
  <2>3. /\ JobType' /\ HandlerOK' /\ BranchOK'
        /\ mapOrphanBlocks' \in SUBSET NonGenesis
        /\ job'.pc \in {"idle", "orphans"}
    BY <2>1, ReturnInv
  <2>4. MemoryType' BY <2>1, <2>2, <2>3 DEF MemoryType
  <2>5. DatabaseType' BY <2>1 DEF DatabaseType
  <2>6. TxnType' BY <2>1, <2>3 DEF TxnType
  <2>7. PoolIndexed' BY <2>1 DEF PoolIndexed
  <2> QED BY <2>3, <2>4, <2>5, <2>6, <2>7
<1> QED BY <1>2, <1>3, <1>4, <1>5, <1>6, <1>7, <1>8

(***************************************************************************)
(* Where a step leads                                                      *)
(***************************************************************************)
LEMMA StartJob ==
    ASSUME Start
    PROVE  job' = Idle \/ (job'.pc = "setbest" /\ job'.caller = "LoadBlockIndex")
<1> SUFFICES ASSUME job' # Idle
             PROVE  job'.pc = "setbest" /\ job'.caller = "LoadBlockIndex"
    OBVIOUS
<1>1. PICK bad \in BadAtLoad \cap Ancestors[txdb.hashBestChain] :
          job' = [Idle EXCEPT !.pc = "setbest", !.caller = "LoadBlockIndex",
                              !.block = hashPrevBlock[bad]]
  BY DEF Start
<1> QED BY <1>1 DEF Idle

(* Only three steps of a handler leave a reorganisation under way.         *)
LEMMA StaysReorganizing ==
    ASSUME TypeInv, DownOK, Next, job'.pc = "reorganize"
    PROVE  \/ BeginReorganize \/ Disconnect \/ Connect
           \/ \E t \in Tx : ReacceptWalletTransaction(t)
<1> USE DEF TypeInv, TypeOK
<1> SUFFICES ASSUME ~(\/ BeginReorganize \/ Disconnect \/ Connect
                      \/ \E t \in Tx : ReacceptWalletTransaction(t))
             PROVE  FALSE
    OBVIOUS
<1>1. << >> \in Seq(Block) /\ Genesis \in Block BY TreeAssumption
<1>2. CASE StartFresh \/ Start \/ Crash
  <2>1. CASE StartFresh
    <3>1. AddToBlockIndex("LoadBlockIndex", Genesis, << >>) BY <2>1 DEF StartFresh
    <3>2. job'.pc \in {"idle", "orphans", "setbest"} BY <1>1, <3>1, AddToBlockIndexInv
    <3> QED BY <3>2
  <2>2. CASE Start BY <2>2, StartJob DEF Idle
  <2>3. CASE Crash BY <2>3 DEF Crash, LoseMemory, Idle
  <2> QED BY <1>2, <2>1, <2>2, <2>3
<1>3. ASSUME NEW b \in NonGenesis, HoldOrphan(b) \/ ProcessBlock(b) PROVE FALSE
  <2>1. b \in Block BY DEF NonGenesis
  <2>2. CASE HoldOrphan(b) BY <2>2 DEF HoldOrphan, Ready, Idle
  <2>3. CASE ProcessBlock(b)
    <3>1. AddToBlockIndex("ProcessBlock", b, << >>) BY <2>3 DEF ProcessBlock
    <3>2. job'.pc \in {"idle", "orphans", "setbest"} BY <1>1, <2>1, <3>1, AddToBlockIndexInv
    <3> QED BY <3>2
  <2> QED BY <1>3, <2>2, <2>3
<1>4. ASSUME NEW t \in Tx, AcceptToMemoryPool(t) \/ ReacceptWalletTransaction(t) PROVE FALSE
  BY <1>4 DEF AcceptToMemoryPool, Ready, Idle
<1>5. ASSUME NEW b \in NonGenesis, ProcessOrphan(b) PROVE FALSE
  <2>1. b \in Block BY DEF NonGenesis
  <2>2. job.queue \in Seq(Block) /\ job.queue # << >>
    BY <1>5 DEF ProcessOrphan, JobType, HandlerOK
  <2>3. mapOrphanBlocks \in SUBSET NonGenesis BY DEF MemoryType
  <2>4. CASE AddToBlockIndex("orphan", b, job.queue)
    <3>1. job'.pc \in {"idle", "orphans", "setbest"} BY <2>1, <2>2, <2>4, AddToBlockIndexInv
    <3> QED BY <3>1
  <2>5. CASE ReturnTo("orphan", b, job.queue, FALSE)
    <3>1. job'.pc \in {"idle", "orphans"} BY <2>1, <2>2, <2>3, <2>5, ReturnToInv
    <3> QED BY <3>1
  <2> QED BY <1>5, <2>4, <2>5 DEF ProcessOrphan
<1>6. CASE OrphansDone
  <2>1. job.pc = "orphans" /\ job' \in {Idle, [job EXCEPT !.queue = Tail(job.queue)]}
    BY <1>6 DEF OrphansDone
  <2> QED BY <2>1 DEF Idle, JobType
<1>7. CASE \/ SetBestGenesis \/ ExtendBest \/ ExtendBestFails \/ ReorganizeFails
           \/ ConnectSecondaryFails \/ SecondariesDone
  <2>1. /\ job.pc \notin {"idle", "orphans"}
        /\ Return(TRUE) \/ Return(FALSE)
    BY <1>7 DEF SetBestGenesis, ExtendBest, ExtendBestFails, ReorganizeFails,
       ConnectSecondaryFails, SecondariesDone, SettingBest, Reorganizing, Secondary, NewBest
  <2>2. job'.pc \in {"idle", "orphans"} BY <2>1, ReturnInv
  <2> QED BY <2>2
<1>8. CASE Branches \/ Postpone \/ Commit \/ ConnectSecondary
  BY <1>8 DEF Branches, Postpone, Commit, ConnectSecondary, Postponing, Secondary, JobType
<1> QED BY <1>2, <1>3, <1>4, <1>5, <1>6, <1>7, <1>8 DEF Next, Step

(* SetBestChain starts with a block that has more work, and keeps to it.   *)
LEMMA KeepsBlock ==
    ASSUME TypeInv, Next, job'.pc \notin {"idle", "orphans"}
    PROVE  \/ job'.caller = "LoadBlockIndex"
           \/ pindexBest' = pindexBest /\ MoreWork(job'.block)
           \/ /\ pindexBest' = pindexBest /\ job.pc \notin {"idle", "orphans"}
              /\ job'.caller = job.caller /\ job'.block = job.block
<1> USE DEF TypeInv, TypeOK
<1>1. << >> \in Seq(Block) /\ Genesis \in Block BY TreeAssumption
<1>2. CASE StartFresh
  <2>1. AddToBlockIndex("LoadBlockIndex", Genesis, << >>) BY <1>2 DEF StartFresh
  <2>2. job'.pc = "setbest" => job'.caller = "LoadBlockIndex"
    BY <1>1, <2>1, AddToBlockIndexInv
  <2>3. job'.pc \in {"idle", "orphans", "setbest"} BY <1>1, <2>1, AddToBlockIndexInv
  <2> QED BY <2>2, <2>3
<1>3. CASE Start \/ Crash BY <1>3, StartJob DEF Crash, LoseMemory, Idle
<1>4. ASSUME NEW b \in NonGenesis, HoldOrphan(b) \/ ProcessBlock(b)
      PROVE  pindexBest' = pindexBest /\ MoreWork(job'.block)
  <2>1. b \in Block BY DEF NonGenesis
  <2>2. CASE HoldOrphan(b) BY <2>2 DEF HoldOrphan, Ready, Idle
  <2>3. CASE ProcessBlock(b)
    <3>1. AddToBlockIndex("ProcessBlock", b, << >>) BY <2>3 DEF ProcessBlock
    <3>2. /\ job'.pc \in {"idle", "orphans", "setbest"}
          /\ job'.pc = "setbest" => job'.block = b /\ MoreWork(b)
      BY <1>1, <2>1, <3>1, AddToBlockIndexInv
    <3> QED BY <2>3, <3>2 DEF ProcessBlock
  <2> QED BY <1>4, <2>2, <2>3
<1>5. ASSUME NEW t \in Tx, AcceptToMemoryPool(t) \/ ReacceptWalletTransaction(t)
      PROVE  pindexBest' = pindexBest /\ job' = job
  BY <1>5 DEF AcceptToMemoryPool, ReacceptWalletTransaction
<1>6. ASSUME NEW b \in NonGenesis, ProcessOrphan(b)
      PROVE  pindexBest' = pindexBest /\ MoreWork(job'.block)
  <2>1. b \in Block BY DEF NonGenesis
  <2>2. job.queue \in Seq(Block) /\ job.queue # << >>
    BY <1>6 DEF ProcessOrphan, JobType, HandlerOK
  <2>3. mapOrphanBlocks \in SUBSET NonGenesis BY DEF MemoryType
  <2>4. CASE AddToBlockIndex("orphan", b, job.queue)
    <3>1. /\ job'.pc \in {"idle", "orphans", "setbest"}
          /\ job'.pc = "setbest" => job'.block = b /\ MoreWork(b)
      BY <2>1, <2>2, <2>4, AddToBlockIndexInv
    <3> QED BY <1>6, <3>1 DEF ProcessOrphan
  <2>5. CASE ReturnTo("orphan", b, job.queue, FALSE)
    <3>1. job'.pc \in {"idle", "orphans"} BY <2>1, <2>2, <2>3, <2>5, ReturnToInv
    <3> QED BY <3>1
  <2> QED BY <1>6, <2>4, <2>5 DEF ProcessOrphan
<1>7. CASE OrphansDone
  <2>1. job.pc = "orphans" /\ job' \in {Idle, [job EXCEPT !.queue = Tail(job.queue)]}
    BY <1>7 DEF OrphansDone
  <2> QED BY <2>1 DEF Idle, JobType
<1>8. CASE \/ SetBestGenesis \/ ExtendBest \/ ExtendBestFails \/ ReorganizeFails
           \/ ConnectSecondaryFails \/ SecondariesDone
  <2>1. /\ job.pc \notin {"idle", "orphans"}
        /\ Return(TRUE) \/ Return(FALSE)
    BY <1>8 DEF SetBestGenesis, ExtendBest, ExtendBestFails, ReorganizeFails,
       ConnectSecondaryFails, SecondariesDone, SettingBest, Reorganizing, Secondary, NewBest
  <2>2. job'.pc \in {"idle", "orphans"} BY <2>1, ReturnInv
  <2> QED BY <2>2
<1>9. CASE Branches \/ Postpone \/ BeginReorganize \/ Disconnect \/ Connect \/ Commit
           \/ ConnectSecondary
  <2>1. pindexBest' = pindexBest /\ job.pc \notin {"idle", "orphans"}
    BY <1>9 DEF Branches, Postpone, BeginReorganize, Disconnect, Connect, Commit,
       ConnectSecondary, SettingBest, Postponing, Reorganizing, Secondary, memory
  <2>2. job'.caller = job.caller /\ job'.block = job.block
    BY <1>9 DEF Branches, Postpone, BeginReorganize, Disconnect, Connect, Commit,
       ConnectSecondary, JobType
  <2> QED BY <2>1, <2>2
<1> QED BY <1>2, <1>3, <1>4, <1>5, <1>6, <1>7, <1>8, <1>9 DEF Next, Step

(***************************************************************************)
(* The walk of Reorganize                                                  *)
(***************************************************************************)
LEMMA DisconnectWalk ==
    ASSUME TypeInv, WalkOK, Disconnect
    PROVE  /\ pindexBest \in Block /\ job.mid \in Block
           /\ job.at \in Ancestors[pindexBest] \ {Genesis}
           /\ job.at \notin Ancestors[job.mid]
           /\ hashPrevBlock[job.at] \in Block
           /\ Ancestors[job.at] = {job.at} \cup Ancestors[hashPrevBlock[job.at]]
           /\ job.at \notin Ancestors[hashPrevBlock[job.at]]
           /\ job' = [job EXCEPT !.at = hashPrevBlock[job.at]]
           /\ UNCHANGED <<pindexBest, mempool, txdb>>
           /\ IsTxIndex(txn.tx) /\ txn'.tx = DisconnectBlock(txn.tx, job.at)
<1>1. /\ job.pc = "reorganize" /\ job.at \notin Ancestors[job.mid]
      /\ job' = [job EXCEPT !.at = hashPrevBlock[job.at]]
      /\ UNCHANGED <<pindexBest, mempool, txdb>>
      /\ txn'.tx = DisconnectBlock(txn.tx, job.at)
  BY DEF Disconnect, Reorganizing, AboveFork, memory
<1>2. /\ pindexBest \in Block /\ job.block \in Block
      /\ job.mid \in Ancestors[job.block]
      /\ job.at \in Ancestors[pindexBest]
  BY <1>1 DEF TypeInv, HandlerOK, BranchOK, WalkOK
<1>3. job.mid \in Block /\ job.at \in Block BY <1>2, AncestorsType
<1>4. job.at # Genesis BY <1>1, <1>3, GenesisIsAncestor
<1>5. hashPrevBlock[job.at] \in Block BY <1>3, <1>4, TreeAssumption DEF NonGenesis
<1>6. IsTxIndex(txn.tx) BY <1>1 DEF TypeInv, TypeOK, TxnType
<1> QED BY <1>1, <1>2, <1>3, <1>4, <1>5, <1>6, AncestorsUnfold, NoCycle

LEMMA ConnectWalk ==
    ASSUME TypeInv, WalkOK, Connect
    PROVE  LET next == NextOnBranch(job.at, job.mid)
           IN  /\ pindexBest \in Block /\ job.mid \in Block
               /\ job.at \in Ancestors[job.mid] /\ next \in Ancestors[job.mid]
               /\ next \in Block \ Ancestors[pindexBest]
               /\ Ancestors[next] = {next} \cup Ancestors[job.at]
               /\ job' = [job EXCEPT !.at = next]
               /\ UNCHANGED <<pindexBest, mempool, txdb>>
               /\ IsTxIndex(txn.tx) /\ txn'.tx = ConnectBlock(txn.tx, next)
<1> DEFINE next == NextOnBranch(job.at, job.mid)
<1>1. /\ job.pc = "reorganize" /\ job.at \in Ancestors[job.mid] /\ job.at # job.mid
      /\ job' = [job EXCEPT !.at = next]
      /\ UNCHANGED <<pindexBest, mempool, txdb>>
      /\ txn'.tx = ConnectBlock(txn.tx, next)
  BY DEF Connect, Reorganizing, AboveFork, memory
<1>2. /\ pindexBest \in Block /\ job.block \in Block
      /\ job.mid \in Ancestors[job.block]
      /\ Ancestors[pindexBest] \cap Ancestors[job.mid] \subseteq Ancestors[job.at]
  BY <1>1 DEF TypeInv, HandlerOK, BranchOK, WalkOK
<1>3. job.mid \in Block BY <1>2, AncestorsType
<1>4. next \in Ancestors[job.mid] /\ next # Genesis /\ hashPrevBlock[next] = job.at
  BY <1>1, <1>3, NextOnBranchType
<1> HIDE DEF next
<1>5. next \in Block BY <1>3, <1>4, AncestorsType
<1>6. next \notin Ancestors[job.at] /\ Ancestors[next] = {next} \cup Ancestors[job.at]
  BY <1>4, <1>5, NoCycle, AncestorsUnfold
<1>7. IsTxIndex(txn.tx) BY <1>1 DEF TypeInv, TypeOK, TxnType
<1>8. next \in Block \ Ancestors[pindexBest] BY <1>2, <1>4, <1>5, <1>6
<1> QED BY <1>1, <1>2, <1>3, <1>4, <1>6, <1>7, <1>8 DEF next

LEMMA WalkInv ==
    ASSUME TypeInv, DownOK, WalkOK, Next
    PROVE  WalkOK'
<1> SUFFICES ASSUME job'.pc = "reorganize"
             PROVE  /\ job'.at \in Ancestors[pindexBest'] \cup Ancestors[job'.mid]
                    /\ Ancestors[pindexBest'] \cap Ancestors[job'.mid] \subseteq Ancestors[job'.at]
    BY DEF WalkOK
<1>1. CASE BeginReorganize
  <2>1. /\ pindexBest' = pindexBest /\ pindexBest \in Block
        /\ job' = [job EXCEPT !.pc = "reorganize", !.at = pindexBest]
    BY <1>1 DEF BeginReorganize, Postponing, memory, TypeInv, BranchOK
  <2>2. job'.at = pindexBest BY <2>1 DEF TypeInv, TypeOK, JobType
  <2> QED BY <2>1, <2>2, AncestorsType
<1>2. CASE Disconnect
  <2>1. job'.at = hashPrevBlock[job.at] /\ job'.mid = job.mid /\ pindexBest' = pindexBest
    BY <1>2, DisconnectWalk DEF TypeInv, TypeOK, JobType
  <2>2. job.at \in Ancestors[pindexBest] /\ job.at # Genesis /\ pindexBest \in Block
    BY <1>2, DisconnectWalk
  <2>3. hashPrevBlock[job.at] \in Ancestors[pindexBest] BY <2>2, AncestorsClosed
  <2>4. Ancestors[pindexBest] \cap Ancestors[job.mid] \subseteq Ancestors[job.at]
    BY <1>2 DEF WalkOK, Disconnect, Reorganizing
  <2>5. /\ Ancestors[job.at] = {job.at} \cup Ancestors[hashPrevBlock[job.at]]
        /\ job.at \notin Ancestors[job.mid]
    BY <1>2, DisconnectWalk
  <2> QED BY <2>1, <2>3, <2>4, <2>5
<1>3. CASE Connect
  <2> DEFINE next == NextOnBranch(job.at, job.mid)
  <2>1. /\ job' = [job EXCEPT !.at = next] /\ pindexBest' = pindexBest
        /\ next \in Ancestors[job.mid]
        /\ Ancestors[next] = {next} \cup Ancestors[job.at]
    BY <1>3, ConnectWalk
  <2> HIDE DEF next
  <2>2. job'.at = next /\ job'.mid = job.mid BY <2>1 DEF TypeInv, TypeOK, JobType
  <2>3. Ancestors[pindexBest] \cap Ancestors[job.mid] \subseteq Ancestors[job.at]
    BY <1>3 DEF WalkOK, Connect, Reorganizing
  <2> QED BY <2>1, <2>2, <2>3
<1>4. ASSUME NEW t \in Tx, ReacceptWalletTransaction(t)
      PROVE  /\ job'.at \in Ancestors[pindexBest'] \cup Ancestors[job'.mid]
             /\ Ancestors[pindexBest'] \cap Ancestors[job'.mid] \subseteq Ancestors[job'.at]
  BY <1>4 DEF ReacceptWalletTransaction, WalkOK
<1> QED BY <1>1, <1>2, <1>3, <1>4, StaysReorganizing

LEMMA TypeInvStep ==
    ASSUME TypeInv, DownOK, WalkOK, [Next]_vars
    PROVE  TypeInv' /\ DownOK' /\ WalkOK'
<1>1. DownOK' BY DownInv
<1>2. CASE Next
  <2>1. TypeInv'
    BY <1>2, EnvironmentTypeInv, SetBestTypeInv, ReorganizeTypeInv DEF Next, Step
  <2>2. WalkOK' BY <1>2, WalkInv
  <2> QED BY <1>1, <2>1, <2>2
<1>3. CASE UNCHANGED vars
  <2>1. TypeOK'
    BY <1>3 DEF vars, memory, TypeInv, TypeOK, MemoryType, DatabaseType, TxnType, JobType
  <2>2. HandlerOK' /\ BranchOK' /\ WalkOK' /\ PoolIndexed'
    BY <1>3 DEF vars, memory, TypeInv, HandlerOK, BranchOK, WalkOK, PoolIndexed
  <2> QED BY <1>1, <2>1, <2>2 DEF TypeInv
<1> QED BY <1>2, <1>3

LEMMA TypeInvariant == Spec => [](TypeInv /\ DownOK /\ WalkOK)
<1>1. Init => TypeInv /\ DownOK /\ WalkOK
  BY InitTypeInv, DownInv DEF Init, WalkOK, Idle
<1> QED BY <1>1, TypeInvStep, PTL DEF Spec

(* Every variable stays in its type: the index maps blocks to blocks, the  *)
(* committed index and the one of the open transaction record for each     *)
(* output one spender, and a transaction is open exactly while Reorganize  *)
(* runs (main.cpp 1615, db.cpp 479).                                       *)
THEOREM TypeCorrect == Spec => []TypeOK
<1>1. TypeInv => TypeOK BY DEF TypeInv
<1> QED BY <1>1, TypeInvariant, PTL

(* mapNextTx stays the inverse of the pool's inputs through acceptance,    *)
(* block connection, and Reorganize's resurrection of transactions         *)
(* (main.cpp 632, 646, 1570), but for the outpoints the wallet's accept at *)
(* start-up and a handler's have raced for.                                *)
THEOREM PoolStaysIndexed == Spec => []PoolIndexed
<1>1. TypeInv => PoolIndexed BY DEF TypeInv
<1> QED BY <1>1, TypeInvariant, PTL

(***************************************************************************)
(* No transaction of the best chain is in the pool                         *)
(***************************************************************************)
LEMMA IndexKept ==
    ASSUME TypeInv, NEW b \in Block, InvalidChainFound(b)
    PROVE  txdb'.tx = txdb.tx
<1>1. txdb' = [blockindex |-> txdb.blockindex, tx |-> txdb.tx,
               hashBestChain |-> txdb.hashBestChain,
               bnBestInvalidWork |-> txdb'.bnBestInvalidWork]
  BY InvalidChainFoundInv DEF TypeInv, TypeOK
<1> QED BY <1>1

(* Steps that commit nothing to the transaction index.                     *)
LEMMA EnvironmentConfirmed ==
    ASSUME TypeInv, NoConfirmedInPool,
           \/ StartFresh \/ Start \/ Crash
           \/ \E b \in NonGenesis : HoldOrphan(b) \/ ProcessBlock(b)
           \/ \E t \in Tx : AcceptToMemoryPool(t) \/ ReacceptWalletTransaction(t)
           \/ \E b \in NonGenesis : ProcessOrphan(b)
    PROVE  NoConfirmedInPool'
<1> USE DEF NoConfirmedInPool
<1>1. txdb = [blockindex |-> txdb.blockindex, tx |-> txdb.tx,
              hashBestChain |-> txdb.hashBestChain,
              bnBestInvalidWork |-> txdb.bnBestInvalidWork]
  BY DEF TypeInv, TypeOK, DatabaseType
<1>2. CASE StartFresh BY <1>1, <1>2 DEF StartFresh, AddToBlockIndex
<1>3. CASE Start BY <1>3 DEF Start
<1>4. CASE Crash BY <1>4 DEF Crash, LoseMemory, EmptyPool
<1>5. ASSUME NEW b \in NonGenesis, HoldOrphan(b) \/ ProcessBlock(b) \/ ProcessOrphan(b)
      PROVE  NoConfirmedInPool'
  BY <1>1, <1>5 DEF HoldOrphan, ProcessBlock, ProcessOrphan, AddToBlockIndex
<1>6. ASSUME NEW t \in Tx, AcceptToMemoryPool(t) \/ ReacceptWalletTransaction(t)
      PROVE  NoConfirmedInPool'
  <2>1. /\ txdb' = txdb
        /\ \E new \in SUBSET Tx : /\ mempool'.mapTx = mempool.mapTx \cup new
                                  /\ new \cap DOMAIN txdb.tx = {}
    BY <1>6, PoolGrows DEF TypeInv, TypeOK
  <2> QED BY <2>1
<1> QED BY <1>2, <1>3, <1>4, <1>5, <1>6

LEMMA StepConfirmed ==
    ASSUME TypeInv, WalkOK, PoolOK, NoConfirmedInPool, Step,
           \A b \in NonGenesis : ~ProcessOrphan(b)
    PROVE  NoConfirmedInPool'
<1> USE DEF NoConfirmedInPool
<1>1. CASE ExtendBest
  <2>1. job.block \in Block BY <1>1 DEF ExtendBest, SettingBest, TypeInv, HandlerOK
  <2>2. ConnectTip(job.block) BY <1>1 DEF ExtendBest
  <2>3. /\ DOMAIN txdb'.tx = DOMAIN txdb.tx \cup txs(job.block)
        /\ mempool'.mapTx = mempool.mapTx \ txs(job.block)
    BY <2>1, <2>2, ConnectTipInv DEF TypeInv, TypeOK, PoolIndexed
  <2> QED BY <2>3
<1>2. CASE ConnectSecondary
  <2> DEFINE next == NextOnBranch(job.at, job.block)
  <2>1. /\ job.block \in Block /\ job.at \in Ancestors[job.block] /\ job.at # job.block
        /\ ConnectTip(next)
    BY <1>2 DEF ConnectSecondary, Secondary, TypeInv, HandlerOK, BranchOK
  <2>2. next \in Block BY <2>1, NextOnBranchType, AncestorsType
  <2> HIDE DEF next
  <2>3. /\ DOMAIN txdb'.tx = DOMAIN txdb.tx \cup txs(next)
        /\ mempool'.mapTx = mempool.mapTx \ txs(next)
    BY <2>1, <2>2, ConnectTipInv DEF TypeInv, TypeOK, PoolIndexed
  <2> QED BY <2>3
<1>3. CASE Commit
  <2> DEFINE back == UNION {txs(b) : b \in Ancestors[pindexBest] \ Ancestors[job.mid]}
             forward == UNION {txs(b) : b \in Ancestors[job.mid] \ Ancestors[pindexBest]}
  <2>1. /\ job.pc = "reorganize" /\ job.at = job.mid
        /\ txdb' = [txdb EXCEPT !.blockindex = txn.blockindex, !.tx = txn.tx,
                                !.hashBestChain = job.mid]
    BY <1>3 DEF Commit, Reorganizing
  <2>2. PICK between \in SUBSET WalletTx, R \in SUBSET back, late \in SUBSET WalletTx :
            /\ R \in Resurrections(mempool, between, back)
            /\ between \in ReacceptedBetween(mempool, txn.tx, WalletTx, R)
            /\ late \subseteq between
            /\ mempool' = Remove(AddRaced(mempool, between, late, R), forward)
    BY <1>3 DEF Commit, PoolAfter, Resurrections
  <2>3. txdb'.tx = txn.tx BY <2>1 DEF TypeInv, TypeOK, DatabaseType
  <2>4. R \subseteq back /\ between \cap DOMAIN txn.tx = {}
    BY <2>2 DEF Resurrections, ReacceptedBetween
  <2>5. AddRaced(mempool, between, late, R).mapTx = mempool.mapTx \cup between \cup R
    BY <2>2 DEF AddRaced, AddUnchecked
  <2>6. mempool'.mapTx = (mempool.mapTx \cup between \cup R) \ forward
    BY <2>2, <2>5 DEF Remove
  <2>7. DOMAIN txn.tx \cap (mempool.mapTx \cup back) \subseteq forward
    BY <2>1 DEF PoolOK, Returning, Reconnected
  <2> QED BY <2>3, <2>4, <2>6, <2>7
<1>4. CASE ExtendBestFails \/ ReorganizeFails
  <2>1. job.block \in Block
    BY <1>4 DEF ExtendBestFails, ReorganizeFails, SettingBest, Reorganizing, TypeInv, HandlerOK
  <2>2. InvalidChainFound(job.block) /\ mempool' = mempool
    BY <1>4 DEF ExtendBestFails, ReorganizeFails
  <2> QED BY <2>1, <2>2, IndexKept
<1>5. CASE ConnectSecondaryFails
  <2> DEFINE next == NextOnBranch(job.at, job.block)
  <2>1. /\ job.block \in Block /\ job.at \in Ancestors[job.block] /\ job.at # job.block
        /\ InvalidChainFound(next) /\ mempool' = mempool
    BY <1>5 DEF ConnectSecondaryFails, Secondary, TypeInv, HandlerOK, BranchOK
  <2>2. next \in Block BY <2>1, NextOnBranchType, AncestorsType
  <2> HIDE DEF next
  <2> QED BY <2>1, <2>2, IndexKept
<1>6. CASE SetBestGenesis
  <2>1. txdb' = [txdb EXCEPT !.hashBestChain = job.block] /\ mempool' = mempool
    BY <1>6 DEF SetBestGenesis
  <2>2. txdb'.tx = txdb.tx BY <2>1 DEF TypeInv, TypeOK, DatabaseType
  <2> QED BY <2>1, <2>2
<1>7. CASE OrphansDone \/ Branches \/ Postpone \/ BeginReorganize \/ Disconnect \/ Connect
           \/ SecondariesDone
  BY <1>7 DEF OrphansDone, Branches, Postpone, BeginReorganize, Disconnect, Connect,
     SecondariesDone, memory
<1> QED BY <1>1, <1>2, <1>3, <1>4, <1>5, <1>6, <1>7 DEF Step

(* The open transaction never confirms what Commit would leave in the pool.*)
LEMMA PoolInv ==
    ASSUME TypeInv, DownOK, WalkOK, PoolOK, NoConfirmedInPool, Next
    PROVE  PoolOK'
<1> SUFFICES ASSUME job'.pc = "reorganize"
             PROVE  (DOMAIN txn.tx \cap (mempool.mapTx \cup Returning) \subseteq Reconnected)'
    BY DEF PoolOK
<1>1. CASE BeginReorganize
  <2>1. /\ txn'.tx = txdb.tx /\ mempool' = mempool /\ pindexBest' = pindexBest
        /\ job' = [job EXCEPT !.pc = "reorganize", !.at = pindexBest]
    BY <1>1 DEF BeginReorganize, memory
  <2>2. job'.at = pindexBest BY <2>1 DEF TypeInv, TypeOK, JobType
  <2>3. Returning' = {} BY <2>1, <2>2 DEF Returning
  <2> QED BY <2>1, <2>3 DEF NoConfirmedInPool
<1>2. CASE Disconnect
  <2> DEFINE at == job.at
             prev == hashPrevBlock[job.at]
  <2>1. /\ at \in Ancestors[pindexBest] /\ pindexBest \in Block /\ at \in Block
        /\ Ancestors[at] = {at} \cup Ancestors[prev]
        /\ pindexBest' = pindexBest /\ mempool' = mempool
        /\ IsTxIndex(txn.tx) /\ txn'.tx = DisconnectBlock(txn.tx, at)
    BY <1>2, DisconnectWalk, AncestorsType
  <2>2. job'.at = prev BY <1>2, DisconnectWalk DEF TypeInv, TypeOK, JobType
  <2>3. DOMAIN txn'.tx = DOMAIN txn.tx \ txs(at) BY <2>1, DisconnectBlockType
  <2>4. Ancestors[at] \subseteq Ancestors[pindexBest] BY <2>1, AncestorsTransitive
  <2>5. DOMAIN txn.tx \cap (mempool.mapTx \cup Returning) = {}
    <3>1. Reconnected = {} BY <2>4 DEF Reconnected
    <3> QED BY <1>2, <3>1 DEF PoolOK, Disconnect, Reorganizing
  <2>6. Returning' \subseteq Returning \cup txs(at) BY <2>1, <2>2 DEF Returning
  <2> QED BY <2>1, <2>3, <2>5, <2>6
<1>3. CASE Connect
  <2> DEFINE next == NextOnBranch(job.at, job.mid)
  <2>1. /\ pindexBest \in Block /\ next \in Block \ Ancestors[pindexBest]
        /\ Ancestors[next] = {next} \cup Ancestors[job.at]
        /\ job' = [job EXCEPT !.at = next]
        /\ pindexBest' = pindexBest /\ mempool' = mempool
        /\ IsTxIndex(txn.tx) /\ txn'.tx = ConnectBlock(txn.tx, next)
    BY <1>3, ConnectWalk
  <2> HIDE DEF next
  <2>2. job'.at = next BY <2>1 DEF TypeInv, TypeOK, JobType
  <2>3. DOMAIN txn'.tx = DOMAIN txn.tx \cup txs(next) BY <2>1, ConnectBlockType
  <2>4. Returning' = Returning BY <2>1, <2>2 DEF Returning
  <2>5. Reconnected' = Reconnected \cup txs(next) BY <2>1, <2>2 DEF Reconnected
  <2>6. DOMAIN txn.tx \cap (mempool.mapTx \cup Returning) \subseteq Reconnected
    BY <1>3 DEF PoolOK, Connect, Reorganizing
  <2> QED BY <2>1, <2>3, <2>4, <2>5, <2>6
<1>4. ASSUME NEW t \in Tx, ReacceptWalletTransaction(t)
      PROVE  (DOMAIN txn.tx \cap (mempool.mapTx \cup Returning) \subseteq Reconnected)'
  <2>1. /\ job' = job /\ pindexBest' = pindexBest /\ txn' = txn
        /\ \E new \in SUBSET Tx : /\ mempool'.mapTx = mempool.mapTx \cup new
                                  /\ job.pc = "reorganize" => new \cap DOMAIN txn.tx = {}
    BY <1>4, PoolGrows DEF TypeInv, TypeOK
  <2>2. Returning' = Returning /\ Reconnected' = Reconnected
    BY <2>1 DEF Returning, Reconnected
  <2> QED BY <2>1, <2>2 DEF PoolOK
<1> QED BY <1>1, <1>2, <1>3, <1>4, StaysReorganizing

(* A transaction of the best chain is never in the pool, however many      *)
(* blocks a reorganisation takes back and connects again (main.cpp 1493).  *)
THEOREM ConfirmedLeavesPool == Spec => []NoConfirmedInPool
<1> DEFINE Inv == TypeInv /\ DownOK /\ WalkOK /\ PoolOK /\ NoConfirmedInPool
<1>1. Init => Inv
  <2> SUFFICES ASSUME Init PROVE Inv
      OBVIOUS
  <2>1. TypeInv /\ DownOK BY InitTypeInv, DownInv
  <2>2. WalkOK /\ PoolOK BY DEF Init, Idle, WalkOK, PoolOK
  <2>3. NoConfirmedInPool BY DEF Init, EmptyPool, NoConfirmedInPool
  <2> QED BY <2>1, <2>2, <2>3
<1>2. Inv /\ [Next]_vars => Inv'
  <2> SUFFICES ASSUME Inv, [Next]_vars PROVE Inv'
      OBVIOUS
  <2>1. TypeInv' /\ DownOK' /\ WalkOK' BY TypeInvStep
  <2>2. CASE Next
    <3>1. PoolOK' BY <2>2, PoolInv
    <3>2. NoConfirmedInPool'
      BY <2>2, EnvironmentConfirmed, StepConfirmed DEF Next, Step
    <3> QED BY <2>1, <3>1, <3>2
  <2>3. CASE UNCHANGED vars
    BY <2>1, <2>3 DEF vars, memory, PoolOK, Returning, Reconnected, NoConfirmedInPool
  <2> QED BY <2>2, <2>3
<1>3. Inv => NoConfirmedInPool OBVIOUS
<1> HIDE DEF Inv
<1> QED BY <1>1, <1>2, <1>3, PTL DEF Spec

(***************************************************************************)
(* The best chain only improves                                            *)
(***************************************************************************)
LEMMA WorkInv ==
    ASSUME TypeInv, WorkOK, Next
    PROVE  WorkOK'
<1> SUFFICES ASSUME job'.pc \notin {"idle", "orphans"}, job'.caller # "LoadBlockIndex"
             PROVE  MoreWork(job.block)'
    BY DEF WorkOK
<1>1. CASE pindexBest' = pindexBest /\ MoreWork(job'.block)
  BY <1>1 DEF MoreWork
<1>2. CASE /\ pindexBest' = pindexBest /\ job.pc \notin {"idle", "orphans"}
           /\ job'.caller = job.caller /\ job'.block = job.block
  BY <1>2 DEF MoreWork, WorkOK
<1> QED BY <1>1, <1>2, KeepsBlock

LEMMA BestStep ==
    ASSUME TypeInv, DownOK, WorkOK, [Next]_vars
    PROVE  \/ pindexBest' \in {pindexBest, Null}
           \/ pindexBest = Null
           \/ job.caller = "LoadBlockIndex"
           \/ bnChainWork[pindexBest'] > bnChainWork[pindexBest]
<1>1. CASE SetBestGenesis BY <1>1 DEF SetBestGenesis
<1>2. CASE ExtendBest \/ ConnectSecondaryFails \/ SecondariesDone
  <2>1. pindexBest' = job.block /\ job.pc \notin {"idle", "orphans"}
    BY <1>2 DEF ExtendBest, ConnectSecondaryFails, SecondariesDone, NewBest, SettingBest,
       Secondary
  <2> QED BY <2>1 DEF WorkOK, MoreWork
<1>3. CASE Start BY <1>3 DEF Start, DownOK
<1>4. CASE Crash BY <1>4 DEF Crash, LoseMemory
<1>5. CASE \/ StartFresh
           \/ \E b \in NonGenesis : HoldOrphan(b) \/ ProcessBlock(b) \/ ProcessOrphan(b)
           \/ \E t \in Tx : AcceptToMemoryPool(t) \/ ReacceptWalletTransaction(t)
  BY <1>5 DEF StartFresh, HoldOrphan, ProcessBlock, ProcessOrphan, AcceptToMemoryPool,
     ReacceptWalletTransaction
<1>6. CASE \/ OrphansDone \/ ExtendBestFails \/ Branches \/ Postpone \/ BeginReorganize
           \/ Disconnect \/ Connect \/ ReorganizeFails \/ Commit \/ ConnectSecondary
  BY <1>6 DEF OrphansDone, ExtendBestFails, Branches, Postpone, BeginReorganize,
     Disconnect, Connect, ReorganizeFails, Commit, ConnectSecondary, memory
<1>7. CASE UNCHANGED vars BY <1>7 DEF vars, memory
<1> QED BY <1>1, <1>2, <1>3, <1>4, <1>5, <1>6, <1>7 DEF Next, Step

(* Outside of LoadBlockIndex a best block gives way only to one with more  *)
(* work, whichever branches, failures and crashes come between             *)
(* (main.cpp 1764, 1692).                                                  *)
THEOREM BestImproves == Spec => BestOnlyImproves
<1> DEFINE Inv == TypeInv /\ DownOK /\ WalkOK /\ WorkOK
<1>1. Init => Inv
  <2> SUFFICES ASSUME Init PROVE Inv
      OBVIOUS
  <2>1. TypeInv /\ DownOK BY InitTypeInv, DownInv
  <2>2. WalkOK /\ WorkOK BY DEF Init, Idle, WalkOK, WorkOK
  <2> QED BY <2>1, <2>2
<1>2. Inv /\ [Next]_vars => Inv'
  <2> SUFFICES ASSUME Inv, [Next]_vars PROVE Inv'
      OBVIOUS
  <2>1. TypeInv' /\ DownOK' /\ WalkOK' BY TypeInvStep
  <2>2. CASE Next BY <2>1, <2>2, WorkInv
  <2>3. CASE UNCHANGED vars BY <2>1, <2>3 DEF vars, memory, WorkOK, MoreWork
  <2> QED BY <2>2, <2>3
<1>3. Inv /\ [Next]_vars =>
        [\/ pindexBest' \in {pindexBest, Null}
         \/ pindexBest = Null
         \/ job.caller = "LoadBlockIndex"
         \/ bnChainWork[pindexBest'] > bnChainWork[pindexBest]]_vars
  BY BestStep
<1> HIDE DEF Inv
<1> QED BY <1>1, <1>2, <1>3, PTL DEF Spec, BestOnlyImproves

(***************************************************************************)
(* The best chain                                                          *)
(*                                                                         *)
(* What SetBestChain and Reorganize leave behind: the transaction index,   *)
(* the links and the best block describe one valid chain, the one with the *)
(* most work, and the node implements BestChain.  The theorems hold for    *)
(* every block tree in which no chain has a transaction twice, and as long *)
(* as every block that SetBestChain postponed connects; without these, the *)
(* runs "repeat" and "hole_best" show how the code fails.                  *)
(***************************************************************************)
tip == txdb.hashBestChain
known == DOMAIN txdb.blockindex

(* The pnext of every block in the index when the best chain ends in last. *)
Links(index, last) ==
    [b \in index |-> IF last # Null /\ b \in Ancestors[last] \ {last}
                     THEN NextOnBranch(b, last) ELSE Null]

(***************************************************************************)
(* The inductive invariant                                                 *)
(***************************************************************************)
(* The database describes one valid chain that ends in hashBestChain.      *)
CommittedOK ==
    /\ ClosedUnderPrev(known)
    /\ tip = Null => txdb.tx = << >>
    /\ tip # Null => tip \in known /\ ValidChain[tip] /\ txdb.tx = TxIndexOf[tip]
    /\ txdb.blockindex = Links(known, tip)

(* Memory agrees with the database; while the postponed blocks are         *)
(* connected, pindexBest is still the best block of the old branch.        *)
MemoryOK ==
    /\ node = "down" => mapBlockIndex = << >>
    /\ node = "up" =>
        /\ mapBlockIndex = txdb.blockindex
        /\ pindexBest = Null => /\ job.pc = "setbest" /\ job.block = Genesis
                                /\ known = {Genesis} /\ tip = Null
        /\ tip = IF job.pc = "secondary" THEN job.at ELSE pindexBest
        /\ job.pc \notin {"idle", "orphans"} => job.block \in known

(* The open transaction describes the chain that ends in job.at.           *)
TransactionOK ==
    job.pc = "reorganize" =>
        /\ ValidChain[job.at]
        /\ txn.tx = TxIndexOf[job.at]
        /\ txn.blockindex = Links(known, job.at)

(* Reorganize is called for a block with more work than the best, except   *)
(* by LoadBlockIndex, which calls it for a block below one that failed.    *)
BacksOff ==
    \E bad \in BadAtLoad \cap Ancestors[pindexBest] :
        /\ job.block = hashPrevBlock[bad]
        /\ job.pc \in {"postpone", "reorganize"} => job.mid = job.block
        /\ job.pc = "secondary" => job.at = job.block
TargetOK ==
    /\ job.pc \in {"idle", "orphans"} => job.caller = "none"
    /\ job.pc \in {"postpone", "reorganize"} /\ job.caller # "LoadBlockIndex" =>
          MoreWork(job.mid)
    /\ job.caller = "LoadBlockIndex" /\ pindexBest # Null => BacksOff

(* ProcessBlock's work queue holds blocks it has accepted.                 *)
Queued(queue) == {queue[i] : i \in DOMAIN queue}
QueueOK == Queued(job.queue) \subseteq known

ChainInv == CommittedOK /\ MemoryOK /\ TransactionOK /\ TargetOK /\ QueueOK

(***************************************************************************)
(* pnext along a branch                                                    *)
(***************************************************************************)
(* The successor of a block is the same on a branch and on what extends it.*)
LEMMA NextOnBranchAgrees ==
    ASSUME NEW b \in Block, NEW p \in Ancestors[b], NEW a \in Ancestors[p], a # p
    PROVE  NextOnBranch(a, p) = NextOnBranch(a, b)
<1> DEFINE c == NextOnBranch(a, p)
<1>1. p \in Block BY AncestorsType
<1>2. c \in Ancestors[p] \ {Genesis} /\ hashPrevBlock[c] = a BY <1>1, NextOnBranchType
<1>3. c \in Ancestors[b] BY <1>2, AncestorsTransitive
<1> QED BY <1>2, <1>3, NextOnBranchUnique

LEMMA LinksExtend ==
    ASSUME NEW index \in SUBSET Block, NEW b \in NonGenesis
    PROVE  LET p == hashPrevBlock[b]
           IN  \A a \in index \ {p} : Links(index, p)[a] = Links(index, b)[a]
<1> DEFINE p == hashPrevBlock[b]
<1>1. b \in Block /\ b # Genesis /\ p \in Block BY TreeAssumption DEF NonGenesis
<1>2. p # Null /\ b # Null BY <1>1, TreeAssumption
<1>3. Ancestors[b] = {b} \cup Ancestors[p] BY <1>1, AncestorsUnfold
<1>4. b \notin Ancestors[p] BY <1>1, NoCycle
<1>5. p \in Ancestors[b] BY <1>1, <1>3, AncestorsType
<1> HIDE DEF p
<1>6. ASSUME NEW a \in index, a # p PROVE Links(index, p)[a] = Links(index, b)[a]
  <2>1. a \in Ancestors[p] \ {p} <=> a \in Ancestors[b] \ {b} BY <1>3, <1>4, <1>6
  <2>2. a \in Ancestors[p] => NextOnBranch(a, p) = NextOnBranch(a, b)
    BY <1>1, <1>5, <1>6, NextOnBranchAgrees
  <2> QED BY <1>2, <2>1, <2>2 DEF Links
<1> QED BY <1>6 DEF p

(* Linking the old best block to the new one, and unlinking it again.      *)
LEMMA LinksConnect ==
    ASSUME NEW index \in SUBSET Block, NEW b \in NonGenesis
    PROVE  /\ [Links(index, hashPrevBlock[b]) EXCEPT ![hashPrevBlock[b]] = b] = Links(index, b)
           /\ [Links(index, b) EXCEPT ![hashPrevBlock[b]] = Null] = Links(index, hashPrevBlock[b])
<1> DEFINE p == hashPrevBlock[b]
<1>1. b \in Block /\ b # Genesis /\ p \in Block BY TreeAssumption DEF NonGenesis
<1>2. b \in Ancestors[b] BY <1>1, AncestorsType
<1>3. NextOnBranch(p, b) = b /\ p \in Ancestors[b] /\ p # b
  BY <1>1, <1>2, NextOnBranchUnique
<1>4. b # Null BY <1>1, TreeAssumption
<1>5. p \in index => Links(index, b)[p] = b /\ Links(index, p)[p] = Null
  BY <1>3, <1>4 DEF Links
<1>6. \A a \in index \ {p} : Links(index, p)[a] = Links(index, b)[a] BY LinksExtend
<1>7. \A last : Links(index, last) = [a \in index |-> Links(index, last)[a]]
  BY DEF Links
<1> HIDE DEF p
<1>8. [Links(index, p) EXCEPT ![p] = b] = Links(index, b) BY <1>5, <1>6, <1>7
<1>9. [Links(index, b) EXCEPT ![p] = Null] = Links(index, p) BY <1>5, <1>6, <1>7
<1> QED BY <1>8, <1>9 DEF p

(* A new entry has no pnext and is no block's.                             *)
LEMMA LinksEntry ==
    ASSUME NEW index \in SUBSET Block, ClosedUnderPrev(index), NEW last,
           last # Null => last \in index,
           NEW b \in Block \ index
    PROVE  WithEntry(Links(index, last), b) = Links(index \cup {b}, last)
<1>1. last # Null => Ancestors[last] \subseteq index BY AncestorsLeast
<1>2. DOMAIN Links(index, last) = index BY DEF Links
<1>3. ASSUME NEW a \in index \cup {b}
      PROVE  (IF a = b THEN Null ELSE Links(index, last)[a]) = Links(index \cup {b}, last)[a]
  BY <1>1 DEF Links
<1>4. WithEntry(Links(index, last), b)
        = [a \in index \cup {b} |-> IF a = b THEN Null ELSE Links(index, last)[a]]
  BY <1>2 DEF WithEntry
<1>5. Links(index \cup {b}, last) = [a \in index \cup {b} |-> Links(index \cup {b}, last)[a]]
  BY DEF Links
<1> QED BY <1>3, <1>4, <1>5

(* Reorganize's second half leaves in memory what its first half wrote.    *)
LEMMA LinksRelinked ==
    ASSUME NEW index \in SUBSET Block, NEW old \in Block, NEW new \in Block
    PROVE  Relinked(Links(index, old), old, new) = Links(index, new)
<1> DEFINE Precedes(b, cs) == \E c \in cs \ {Genesis} : hashPrevBlock[c] = b
           Relink(b) == IF Precedes(b, Ancestors[new] \ Ancestors[old]) THEN NextOnBranch(b, new)
                        ELSE IF Precedes(b, Ancestors[old] \ Ancestors[new]) THEN Null
                        ELSE Links(index, old)[b]
<1>1. old # Null /\ new # Null BY TreeAssumption
<1>2. DOMAIN Links(index, old) = index BY DEF Links
<1>3. Relinked(Links(index, old), old, new) = [b \in index |-> Relink(b)]
  BY <1>2 DEF Relinked
<1>4. \A last \in Block : \A c \in Ancestors[last] \ {Genesis} :
         /\ NextOnBranch(hashPrevBlock[c], last) = c
         /\ hashPrevBlock[c] \in Ancestors[last] \ {last}
  BY NextOnBranchUnique
<1>5. \A last \in Block : \A a \in Ancestors[last] \ {last} :
         /\ NextOnBranch(a, last) \in Ancestors[last] \ {Genesis}
         /\ hashPrevBlock[NextOnBranch(a, last)] = a
  BY NextOnBranchType
<1>6. ASSUME NEW a \in index PROVE Relink(a) = Links(index, new)[a]
  <2>1. CASE Precedes(a, Ancestors[new] \ Ancestors[old])
    <3>1. a \in Ancestors[new] \ {new} BY <2>1, <1>4
    <3> QED BY <1>1, <2>1, <3>1 DEF Links
  <2>2. CASE /\ ~Precedes(a, Ancestors[new] \ Ancestors[old])
             /\ Precedes(a, Ancestors[old] \ Ancestors[new])
    <3>1. PICK c \in (Ancestors[old] \ Ancestors[new]) \ {Genesis} : hashPrevBlock[c] = a
      BY <2>2
    <3>2. NextOnBranch(a, old) = c BY <3>1, <1>4
    <3>3. a \notin Ancestors[new] \ {new}
      <4> SUFFICES ASSUME a \in Ancestors[new] \ {new} PROVE FALSE
          OBVIOUS
      <4> DEFINE d == NextOnBranch(a, new)
      <4>1. d \in Ancestors[new] \ {Genesis} /\ hashPrevBlock[d] = a BY <1>5
      <4>2. d \in Ancestors[old] BY <2>2, <4>1
      <4>3. NextOnBranch(a, old) = d BY <1>4, <4>1, <4>2
      <4> QED BY <3>1, <3>2, <4>1, <4>3
    <3> QED BY <2>2, <3>3 DEF Links
  <2>3. CASE /\ ~Precedes(a, Ancestors[new] \ Ancestors[old])
             /\ ~Precedes(a, Ancestors[old] \ Ancestors[new])
    <3>1. CASE a \in Ancestors[old] \ {old}
      <4> DEFINE d == NextOnBranch(a, old)
      <4>1. d \in Ancestors[old] \ {Genesis} /\ hashPrevBlock[d] = a BY <1>5, <3>1
      <4>2. d \in Ancestors[new] BY <2>3, <4>1
      <4>3. NextOnBranch(a, new) = d /\ a \in Ancestors[new] \ {new} BY <1>4, <4>1, <4>2
      <4> QED BY <1>1, <2>3, <3>1, <4>3 DEF Links
    <3>2. CASE a \notin Ancestors[old] \ {old}
      <4>1. a \notin Ancestors[new] \ {new}
        <5> SUFFICES ASSUME a \in Ancestors[new] \ {new} PROVE FALSE
            OBVIOUS
        <5> DEFINE d == NextOnBranch(a, new)
        <5>1. d \in Ancestors[new] \ {Genesis} /\ hashPrevBlock[d] = a BY <1>5
        <5>2. d \in Ancestors[old] BY <2>3, <5>1
        <5> QED BY <1>4, <3>2, <5>1, <5>2
      <4> QED BY <2>3, <3>2, <4>1 DEF Links
    <3> QED BY <3>1, <3>2
  <2> QED BY <2>1, <2>2, <2>3
<1>7. Links(index, new) = [a \in index |-> Links(index, new)[a]] BY DEF Links
<1> HIDE DEF Relink
<1> QED BY <1>3, <1>6, <1>7

(***************************************************************************)
(* Parts of actions                                                        *)
(***************************************************************************)
LEMMA KnownIsClosed ==
    ASSUME TypeInv, CommittedOK
    PROVE  /\ known \in SUBSET Block
           /\ \A b \in known : Ancestors[b] \subseteq known
<1>1. known \in SUBSET Block BY DEF TypeInv, TypeOK, DatabaseType, IsIndex, known
<1>2. ASSUME NEW b \in known PROVE Ancestors[b] \subseteq known
  BY <1>1, AncestorsLeast DEF CommittedOK
<1> QED BY <1>1, <1>2

(* Only an accepted block enters the queue, and an orphan is erased.       *)
LEMMA ReturnToQueue ==
    ASSUME NEW caller \in {"ProcessBlock", "orphan", "LoadBlockIndex"},
           NEW b \in Block, NEW queue \in Seq(Block), NEW ok \in BOOLEAN,
           ReturnTo(caller, b, queue, ok)
    PROVE  /\ caller = "LoadBlockIndex" => Queued(job'.queue) = {}
           /\ caller # "LoadBlockIndex" /\ ok = TRUE => Queued(job'.queue) = Queued(queue) \cup {b}
           /\ caller # "LoadBlockIndex" /\ ok = FALSE => Queued(job'.queue) = Queued(queue)
           /\ mapOrphanBlocks' = IF caller = "orphan" THEN mapOrphanBlocks \ {b}
                                 ELSE mapOrphanBlocks
<1> DEFINE goOn(q) == IF q = << >> THEN Idle ELSE [Idle EXCEPT !.pc = "orphans", !.queue = q]
           accepted == IF ok THEN Append(queue, b) ELSE queue
<1>1. accepted \in Seq(Block) OBVIOUS
<1>2. ASSUME NEW q \in Seq(Block) PROVE goOn(q).queue = q BY DEF Idle
<1>3. Queued(accepted) = Queued(queue) \cup (IF ok THEN {b} ELSE {})
  <2>1. CASE ok
    <3>1. DOMAIN Append(queue, b) = DOMAIN queue \cup {Len(queue) + 1} OBVIOUS
    <3>2. \A i \in DOMAIN queue : Append(queue, b)[i] = queue[i] OBVIOUS
    <3>3. Append(queue, b)[Len(queue) + 1] = b OBVIOUS
    <3>4. Queued(Append(queue, b)) = Queued(queue) \cup {b} BY <3>1, <3>2, <3>3 DEF Queued
    <3> QED BY <2>1, <3>4
  <2>2. CASE ~ok BY <2>2
  <2> QED BY <2>1, <2>2
<1>4. Queued(Idle.queue) = {} BY DEF Idle, Queued
<1>5. CASE caller \in {"ProcessBlock", "orphan"}
  <2>1. job' = goOn(accepted) BY <1>5 DEF ReturnTo
  <2>2. mapOrphanBlocks' = IF caller = "orphan" THEN mapOrphanBlocks \ {b}
                           ELSE mapOrphanBlocks
    BY <1>5 DEF ReturnTo
  <2> HIDE DEF goOn, accepted
  <2>3. job'.queue = accepted BY <1>1, <1>2, <2>1
  <2> QED BY <1>3, <1>5, <2>2, <2>3
<1>6. CASE caller = "LoadBlockIndex" BY <1>4, <1>6 DEF ReturnTo
<1> QED BY <1>5, <1>6

(* A step that leaves the committed chain alone.                           *)
LEMMA CommittedKept ==
    ASSUME CommittedOK, txdb'.blockindex = txdb.blockindex, txdb'.tx = txdb.tx,
           txdb'.hashBestChain = txdb.hashBestChain
    PROVE  CommittedOK' /\ known' = known /\ tip' = tip
<1>1. known' = known /\ tip' = tip BY DEF known, tip
<1> QED BY <1>1 DEF CommittedOK

(* A new entry in the index does not touch the best chain.                 *)
LEMMA EntryCommitted ==
    ASSUME TypeInv, CommittedOK, NEW b \in Block \ known, b # Genesis => hashPrevBlock[b] \in known,
           txdb'.blockindex = WithEntry(txdb.blockindex, b), txdb'.tx = txdb.tx,
           txdb'.hashBestChain = txdb.hashBestChain
    PROVE  CommittedOK' /\ known' = known \cup {b} /\ tip' = tip
<1>1. known \in SUBSET Block BY KnownIsClosed
<1>2. tip' = tip BY DEF tip
<1>3. known' = known \cup {b} BY DEF known, WithEntry
<1>4. ClosedUnderPrev(known') BY <1>3 DEF CommittedOK, ClosedUnderPrev
<1>5. txdb'.blockindex = Links(known', tip)
  BY <1>1, <1>3, LinksEntry DEF CommittedOK
<1> QED BY <1>2, <1>3, <1>4, <1>5 DEF CommittedOK

(* The best chain grows by one block, in the database.                     *)
LEMMA TipCommitted ==
    ASSUME NoRepeats, TypeInv, CommittedOK, NEW b \in NonGenesis, b \in known,
           hashPrevBlock[b] = tip, ConnectBlockOK(txdb.tx, b), ConnectTip(b)
    PROVE  /\ CommittedOK' /\ known' = known /\ tip' = b
           /\ mapBlockIndex = txdb.blockindex => mapBlockIndex' = txdb'.blockindex
<1>1. b \in Block /\ tip \in Block /\ tip # Null /\ b # Null
  BY TreeAssumption DEF NonGenesis
<1>2. known \in SUBSET Block BY KnownIsClosed
<1>3. txdb.tx = TxIndexOf[tip] /\ ValidChain[tip] BY <1>1 DEF CommittedOK
<1>4. txdb = [blockindex |-> txdb.blockindex, tx |-> txdb.tx,
              hashBestChain |-> txdb.hashBestChain,
              bnBestInvalidWork |-> txdb.bnBestInvalidWork]
  BY DEF TypeInv, TypeOK, DatabaseType
<1>5. /\ txdb'.tx = ConnectBlock(txdb.tx, b)
      /\ txdb'.blockindex = [txdb.blockindex EXCEPT ![hashPrevBlock[b]] = b]
      /\ txdb'.hashBestChain = b
  BY <1>4 DEF ConnectTip
<1>6. txdb'.tx = TxIndexOf[b] BY <1>3, <1>5, ChainConnects
<1>7. ValidChain[b] BY <1>3, ValidUnfold
<1>8. known' = known /\ tip' = b BY <1>5 DEF known, tip
<1>9. txdb'.blockindex = Links(known, b)
  <2>1. txdb.blockindex = Links(known, hashPrevBlock[b]) BY DEF CommittedOK
  <2>2. [Links(known, hashPrevBlock[b]) EXCEPT ![hashPrevBlock[b]] = b] = Links(known, b)
    BY <1>2, LinksConnect
  <2> QED BY <1>5, <2>1, <2>2
<1>10. CommittedOK' BY <1>1, <1>6, <1>7, <1>8, <1>9 DEF CommittedOK
<1>11. mapBlockIndex' = [mapBlockIndex EXCEPT ![hashPrevBlock[b]] = b] BY DEF ConnectTip
<1> QED BY <1>5, <1>8, <1>10, <1>11

(* Between handlers, and in the loop over orphans.                         *)
LEMMA SettledInv ==
    ASSUME CommittedOK', QueueOK', node' = "up", mapBlockIndex' = txdb'.blockindex,
           pindexBest' # Null, pindexBest' = tip',
           job'.pc \in {"idle", "orphans"}, job'.caller = "none"
    PROVE  ChainInv'
BY DEF ChainInv, MemoryOK, TransactionOK, TargetOK

(***************************************************************************)
(* The invariant, action by action                                         *)
(***************************************************************************)
(* A block that is new to the index, offered by a peer or held as orphan.  *)
LEMMA NewEntryInv ==
    ASSUME TypeInv, ChainInv, node = "up", node' = "up", job.pc \in {"idle", "orphans"},
           NEW caller \in {"ProcessBlock", "orphan"},
           NEW b \in NonGenesis, b \notin DOMAIN mapBlockIndex, hashPrevBlock[b] \in known,
           NEW queue \in Seq(Block), Queued(queue) \subseteq known,
           caller = "orphan" => queue # << >>,
           AddToBlockIndex(caller, b, queue), pindexBest' = pindexBest
    PROVE  /\ ChainInv' /\ known' = known \cup {b}
           /\ \/ /\ MoreWork(b)
                 /\ job'.pc = "setbest" /\ job'.caller = caller /\ job'.block = b
                 /\ job'.queue = queue /\ mapOrphanBlocks' = mapOrphanBlocks
              \/ ~MoreWork(b) /\ ReturnTo(caller, b, queue, TRUE)
<1> USE DEF TypeInv
<1>1. b \in Block /\ b # Genesis BY DEF NonGenesis
<1>2. /\ mapBlockIndex = txdb.blockindex /\ pindexBest # Null /\ tip = pindexBest
  BY DEF ChainInv, MemoryOK
<1>3. b \in Block \ known BY <1>1, <1>2 DEF known
<1>4. /\ txdb' = [blockindex |-> txdb'.blockindex, tx |-> txdb.tx,
                  hashBestChain |-> txdb.hashBestChain,
                  bnBestInvalidWork |-> txdb.bnBestInvalidWork]
      /\ job'.pc \in {"idle", "orphans", "setbest"}
      /\ job'.pc = "setbest" =>
            job'.caller = caller /\ job'.block = b /\ job'.queue = queue
      /\ job'.pc # "setbest" => job'.caller = "none"
  BY <1>1, AddToBlockIndexInv
<1>5. txdb'.blockindex = WithEntry(txdb.blockindex, b)
  BY DEF AddToBlockIndex, TypeOK, DatabaseType
<1>6. CommittedOK' /\ known' = known \cup {b} /\ tip' = tip
  BY <1>3, <1>4, <1>5, EntryCommitted DEF ChainInv
<1>7. mapBlockIndex' = txdb'.blockindex BY <1>2, <1>5 DEF AddToBlockIndex
<1>8. CASE MoreWork(b)
  <2>1. job' = [Idle EXCEPT !.pc = "setbest", !.caller = caller, !.block = b, !.queue = queue]
        /\ mapOrphanBlocks' = mapOrphanBlocks
    BY <1>8 DEF AddToBlockIndex
  <2>2. job'.pc = "setbest" /\ job'.caller = caller /\ job'.block = b /\ job'.queue = queue
    BY <2>1 DEF Idle
  <2>3. MemoryOK' /\ QueueOK' BY <1>2, <1>6, <1>7, <2>2 DEF MemoryOK, QueueOK
  <2>4. TransactionOK' /\ TargetOK' BY <2>2 DEF TransactionOK, TargetOK
  <2> QED BY <1>6, <1>8, <2>1, <2>2, <2>3, <2>4 DEF ChainInv
<1>9. CASE ~MoreWork(b)
  <2>1. ReturnTo(caller, b, queue, TRUE) BY <1>9 DEF AddToBlockIndex
  <2>2. job'.pc \in {"idle", "orphans"} /\ job'.caller = "none"
    BY <1>1, <2>1, ReturnToInv DEF TypeOK, MemoryType
  <2>3. Queued(job'.queue) = Queued(queue) \cup {b}
    <3>1. TRUE \in BOOLEAN /\ caller # "LoadBlockIndex" OBVIOUS
    <3>2. caller \in {"ProcessBlock", "orphan", "LoadBlockIndex"} OBVIOUS
    <3> QED BY <1>1, <2>1, <3>1, <3>2, ReturnToQueue, Zenon
  <2>4. QueueOK' BY <1>6, <2>3 DEF QueueOK
  <2>5. ChainInv' BY <1>2, <1>6, <1>7, <2>2, <2>4, SettledInv
  <2> QED BY <1>6, <1>9, <2>1, <2>5
<1> QED BY <1>8, <1>9

(* The steps of a node between handlers, and its end and start.            *)
LEMMA EnvironmentChainInv ==
    ASSUME TypeInv, DownOK, ChainInv,
           \/ StartFresh \/ Start \/ Crash
           \/ \E b \in NonGenesis : HoldOrphan(b) \/ ProcessBlock(b)
           \/ \E t \in Tx : AcceptToMemoryPool(t) \/ ReacceptWalletTransaction(t)
    PROVE  ChainInv'
<1> USE DEF TypeInv
<1>1. Idle.pc = "idle" /\ Idle.caller = "none" /\ Queued(Idle.queue) = {}
  BY DEF Idle, Queued
<1>2. CASE StartFresh
  <2>1. node = "down" /\ known = {} /\ tip = Null /\ pindexBest = Null /\ mapBlockIndex = << >>
    BY <1>2 DEF StartFresh, known, ChainInv, CommittedOK, MemoryOK, DownOK
  <2>2. /\ AddToBlockIndex("LoadBlockIndex", Genesis, << >>) /\ node' = "up"
        /\ pindexBest' = pindexBest /\ Genesis \in Block
    BY <1>2, TreeAssumption DEF StartFresh
  <2>3. job' = [Idle EXCEPT !.pc = "setbest", !.caller = "LoadBlockIndex",
                            !.block = Genesis, !.queue = << >>]
    BY <2>1, <2>2 DEF AddToBlockIndex, MoreWork
  <2>4. /\ job'.pc = "setbest" /\ job'.caller = "LoadBlockIndex" /\ job'.block = Genesis
        /\ job'.queue = << >>
    BY <2>3 DEF Idle
  <2>5. /\ txdb'.blockindex = WithEntry(txdb.blockindex, Genesis)
        /\ txdb'.tx = txdb.tx /\ txdb'.hashBestChain = txdb.hashBestChain
    BY <2>2 DEF AddToBlockIndex, TypeOK, DatabaseType
  <2>6. CommittedOK' /\ known' = {Genesis} /\ tip' = Null
    BY <2>1, <2>2, <2>5, EntryCommitted DEF ChainInv
  <2>7. mapBlockIndex' = txdb'.blockindex
    BY <1>2, <2>1, <2>2, <2>5 DEF AddToBlockIndex, StartFresh
  <2>8. MemoryOK' BY <2>1, <2>2, <2>4, <2>6, <2>7 DEF MemoryOK
  <2>9. TransactionOK' /\ TargetOK' /\ QueueOK'
    BY <2>1, <2>2, <2>4 DEF TransactionOK, TargetOK, QueueOK, Queued
  <2> QED BY <2>6, <2>8, <2>9 DEF ChainInv
<1>3. CASE Start
  <2>1. /\ txdb' = txdb /\ node' = "up" /\ mapBlockIndex' = txdb.blockindex
        /\ pindexBest' = tip /\ tip # Null
    BY <1>3 DEF Start, tip
  <2>2. CommittedOK' /\ known' = known /\ tip' = tip
    BY <2>1, CommittedKept DEF ChainInv
  <2>3. CASE job' = Idle
    <3>1. QueueOK' BY <1>1, <2>3 DEF QueueOK
    <3> QED BY <1>1, <2>1, <2>2, <2>3, <3>1, SettledInv
  <2>4. CASE \E bad \in BadAtLoad \cap Ancestors[tip] :
                job' = [Idle EXCEPT !.pc = "setbest", !.caller = "LoadBlockIndex",
                                    !.block = hashPrevBlock[bad]]
    <3>1. PICK bad \in BadAtLoad \cap Ancestors[tip] :
                job' = [Idle EXCEPT !.pc = "setbest", !.caller = "LoadBlockIndex",
                                    !.block = hashPrevBlock[bad]]
      BY <2>4
    <3>2. /\ job'.pc = "setbest" /\ job'.caller = "LoadBlockIndex"
          /\ job'.block = hashPrevBlock[bad] /\ job'.queue = << >>
      BY <3>1 DEF Idle
    <3>3. tip \in known BY <2>1 DEF ChainInv, CommittedOK
    <3>4. bad \in known \ {Genesis}
      BY <3>3, KnownIsClosed, ChainAssumption DEF ChainInv, NonGenesis
    <3>5. hashPrevBlock[bad] \in known BY <3>4 DEF ChainInv, CommittedOK, ClosedUnderPrev
    <3>6. MemoryOK' BY <2>1, <2>2, <3>2, <3>5 DEF MemoryOK
    <3>7. TransactionOK' /\ QueueOK' BY <3>2 DEF TransactionOK, QueueOK, Queued
    <3>8. TargetOK' BY <2>1, <3>2 DEF TargetOK, BacksOff
    <3> QED BY <2>2, <3>6, <3>7, <3>8 DEF ChainInv
  <2> QED BY <1>3, <2>3, <2>4 DEF Start, tip
<1>4. CASE Crash
  <2>1. node' = "down" /\ mapBlockIndex' = << >> /\ job' = Idle /\ txdb' = txdb
    BY <1>4 DEF Crash, LoseMemory
  <2>2. CommittedOK' BY <2>1, CommittedKept DEF ChainInv
  <2> QED BY <1>1, <2>1, <2>2 DEF ChainInv, MemoryOK, TransactionOK, TargetOK, QueueOK
<1>5. ASSUME NEW b \in NonGenesis, ProcessBlock(b) PROVE ChainInv'
  <2>1. /\ node = "up" /\ node' = "up" /\ job.pc = "idle" /\ b \notin DOMAIN mapBlockIndex
        /\ AddToBlockIndex("ProcessBlock", b, << >>) /\ pindexBest' = pindexBest
        /\ hashPrevBlock[b] \in DOMAIN mapBlockIndex
    BY <1>1, <1>5 DEF ProcessBlock, Ready, NewBlock
  <2>2. hashPrevBlock[b] \in known BY <2>1 DEF ChainInv, MemoryOK, known
  <2>3. << >> \in Seq(Block) /\ Queued(<< >>) \subseteq known BY DEF Queued
  <2> QED BY <2>1, <2>2, <2>3, NewEntryInv
<1>6. CASE \E b \in NonGenesis : HoldOrphan(b)
  <2>1. /\ node = "up" /\ node' = "up" /\ job = Idle /\ job' = Idle
        /\ txdb' = txdb /\ mapBlockIndex' = mapBlockIndex /\ pindexBest' = pindexBest
    BY <1>6 DEF HoldOrphan, Ready
  <2>2. CommittedOK' /\ known' = known /\ tip' = tip
    BY <2>1, CommittedKept DEF ChainInv
  <2>3. pindexBest # Null /\ tip = pindexBest /\ mapBlockIndex = txdb.blockindex
    BY <1>1, <2>1 DEF ChainInv, MemoryOK
  <2>4. QueueOK' BY <1>1, <2>1 DEF QueueOK
  <2> QED BY <1>1, <2>1, <2>2, <2>3, <2>4, SettledInv
<1>7. CASE \E t \in Tx : AcceptToMemoryPool(t) \/ ReacceptWalletTransaction(t)
  <2>1. UNCHANGED <<node, mapBlockIndex, pindexBest, txdb, txn, job>>
    BY <1>7 DEF AcceptToMemoryPool, ReacceptWalletTransaction
  <2>2. known' = known /\ tip' = tip BY <2>1 DEF known, tip
  <2>3. CommittedOK' /\ MemoryOK' /\ TransactionOK'
    BY <2>1, <2>2 DEF ChainInv, CommittedOK, MemoryOK, TransactionOK
  <2>4. TargetOK' /\ QueueOK'
    BY <2>1, <2>2 DEF ChainInv, TargetOK, BacksOff, MoreWork, QueueOK, Queued
  <2> QED BY <2>3, <2>4 DEF ChainInv
<1> QED BY <1>2, <1>3, <1>4, <1>5, <1>6, <1>7

(* When SetBestChain returns, memory and the database agree again.         *)
LEMMA ReturnChainInv ==
    ASSUME TypeInv, ChainInv, node = "up", node' = "up", job.pc \notin {"idle", "orphans"},
           NEW ok \in BOOLEAN, Return(ok),
           CommittedOK', known' = known, mapBlockIndex' = txdb'.blockindex,
           pindexBest' # Null, pindexBest' = tip'
    PROVE  ChainInv'
<1>1. /\ job.caller \in {"ProcessBlock", "orphan", "LoadBlockIndex"}
      /\ job.block \in Block /\ job.queue \in Seq(Block)
      /\ job.caller = "orphan" => job.queue # << >>
  BY DEF TypeInv, TypeOK, JobType, HandlerOK
<1>2. mapOrphanBlocks \in SUBSET NonGenesis /\ JobType BY DEF TypeInv, TypeOK, MemoryType
<1>3. ReturnTo(job.caller, job.block, job.queue, ok) BY DEF Return
<1>4. job'.pc \in {"idle", "orphans"} /\ job'.caller = "none"
  BY <1>1, <1>2, <1>3, ReturnToInv
<1>5. Queued(job'.queue) \subseteq Queued(job.queue) \cup {job.block}
  <2>1. CASE ok = TRUE BY <1>1, <1>3, <2>1, ReturnToQueue
  <2>2. CASE ok = FALSE BY <1>1, <1>3, <2>2, ReturnToQueue
  <2> QED BY <2>1, <2>2
<1>6. QueueOK' BY <1>5 DEF ChainInv, QueueOK, MemoryOK
<1> QED BY <1>4, <1>6, SettledInv

(* The steps of a handler that only move it along.                         *)
LEMMA HandlerMovesInv ==
    ASSUME TypeInv, WorkOK, ChainInv,
           OrphansDone \/ Branches \/ Postpone \/ BeginReorganize
    PROVE  ChainInv'
<1> USE DEF TypeInv, TypeOK
<1>1. /\ node = "up" /\ node' = node /\ txdb' = txdb /\ mapBlockIndex' = mapBlockIndex
      /\ pindexBest' = pindexBest
  BY DEF OrphansDone, Branches, Postpone, BeginReorganize, SettingBest, Postponing, Running,
     memory
<1>2. CommittedOK' /\ known' = known /\ tip' = tip
  BY <1>1, CommittedKept DEF ChainInv
<1>3. CASE OrphansDone
  <2>1. job.pc = "orphans" BY <1>3 DEF OrphansDone
  <2>2. job.queue \in Seq(Block) /\ job.queue # << >> /\ job.caller = "none"
    BY <2>1 DEF JobType, HandlerOK, ChainInv, TargetOK
  <2>3. pindexBest # Null /\ tip = pindexBest /\ mapBlockIndex = txdb.blockindex
    BY <1>1, <2>1 DEF ChainInv, MemoryOK
  <2>4. CASE job' = Idle
    <3>1. job'.pc = "idle" /\ job'.caller = "none" /\ Queued(job'.queue) = {}
      BY <2>4 DEF Idle, Queued
    <3>2. QueueOK' BY <3>1 DEF QueueOK
    <3> QED BY <1>1, <1>2, <2>3, <3>1, <3>2, SettledInv
  <2>5. CASE job' = [job EXCEPT !.queue = Tail(@)]
    <3>1. job'.pc = "orphans" /\ job'.caller = "none" /\ job'.queue = Tail(job.queue)
      BY <2>1, <2>2, <2>5 DEF JobType
    <3>2. \A i \in DOMAIN Tail(job.queue) :
             i + 1 \in DOMAIN job.queue /\ Tail(job.queue)[i] = job.queue[i + 1]
      BY <2>2
    <3>3. Queued(job'.queue) \subseteq Queued(job.queue) BY <3>1, <3>2 DEF Queued
    <3>4. QueueOK' BY <1>2, <3>3 DEF QueueOK, ChainInv
    <3> QED BY <1>1, <1>2, <2>3, <3>1, <3>4, SettledInv
  <2> QED BY <1>3, <2>4, <2>5 DEF OrphansDone
<1>4. CASE Branches
  <2>1. job.pc = "setbest" /\ pindexBest # Null BY <1>4 DEF Branches, SettingBest
  <2>2. /\ job'.pc = "postpone" /\ job'.mid = job.block /\ job'.block = job.block
        /\ job'.caller = job.caller /\ job'.queue = job.queue
    BY <1>4 DEF Branches, JobType
  <2>3. MemoryOK' /\ QueueOK' /\ TransactionOK'
    BY <1>1, <1>2, <2>1, <2>2 DEF ChainInv, MemoryOK, QueueOK, TransactionOK
  <2>4. TargetOK'
    BY <1>1, <2>1, <2>2 DEF ChainInv, TargetOK, BacksOff, WorkOK, MoreWork
  <2> QED BY <1>2, <2>3, <2>4 DEF ChainInv
<1>5. CASE Postpone
  <2>1. job.pc = "postpone" /\ Postponed(job.mid) BY <1>5 DEF Postpone, Postponing
  <2>2. /\ job'.pc = "postpone" /\ job'.mid = hashPrevBlock[job.mid]
        /\ job'.block = job.block /\ job'.caller = job.caller /\ job'.queue = job.queue
    BY <1>5, <2>1 DEF Postpone, JobType
  <2>3. MemoryOK' /\ QueueOK' /\ TransactionOK'
    BY <1>1, <1>2, <2>1, <2>2 DEF ChainInv, MemoryOK, QueueOK, TransactionOK
  <2>4. MoreWork(job'.mid) BY <2>1, <2>2 DEF Postponed
  <2>5. job.caller # "LoadBlockIndex"
    <3> SUFFICES ASSUME job.caller = "LoadBlockIndex" PROVE FALSE
        OBVIOUS
    <3>1. pindexBest \in Block /\ pindexBest # Null BY <2>1, TreeAssumption DEF BranchOK
    <3>2. PICK bad \in BadAtLoad \cap Ancestors[pindexBest] :
             job.block = hashPrevBlock[bad] /\ job.mid = job.block
      BY <2>1, <3>1 DEF ChainInv, TargetOK, BacksOff
    <3>3. bad # Genesis /\ job.mid # Genesis
      BY <2>1, ChainAssumption DEF NonGenesis, Postponed
    <3>4. job.mid \in Ancestors[pindexBest] BY <3>1, <3>2, <3>3, AncestorsClosed
    <3>5. hashPrevBlock[job.mid] \in Ancestors[pindexBest] BY <3>1, <3>3, <3>4, AncestorsClosed
    <3>6. hashPrevBlock[job.mid] \in Block BY <3>1, <3>5, AncestorsType
    <3>7. bnChainWork[hashPrevBlock[job.mid]] <= bnChainWork[pindexBest]
      BY <3>1, <3>5, <3>6, AncestorsHaveLessWork, WorkGrows
    <3> QED BY <2>1, <3>1, <3>6, <3>7, WorkGrows DEF Postponed, MoreWork
  <2>6. TargetOK' BY <1>1, <2>2, <2>4, <2>5 DEF TargetOK, MoreWork
  <2> QED BY <1>2, <2>3, <2>6 DEF ChainInv
<1>6. CASE BeginReorganize
  <2>1. job.pc = "postpone" BY <1>6 DEF BeginReorganize, Postponing
  <2>2. pindexBest \in Block /\ pindexBest # Null BY <2>1, TreeAssumption DEF BranchOK
  <2>3. /\ job'.pc = "reorganize" /\ job'.at = pindexBest /\ job'.mid = job.mid
        /\ job'.block = job.block /\ job'.caller = job.caller /\ job'.queue = job.queue
        /\ txn'.tx = txdb.tx /\ txn'.blockindex = txdb.blockindex
    BY <1>6, <2>1 DEF BeginReorganize, JobType
  <2>4. tip = pindexBest BY <1>1, <2>1 DEF ChainInv, MemoryOK
  <2>5. TransactionOK'
    BY <1>1, <1>2, <2>2, <2>3, <2>4 DEF ChainInv, CommittedOK, TransactionOK
  <2>6. MemoryOK' /\ QueueOK'
    BY <1>1, <1>2, <2>1, <2>3 DEF ChainInv, MemoryOK, QueueOK
  <2>7. TargetOK' BY <1>1, <2>1, <2>2, <2>3 DEF ChainInv, TargetOK, BacksOff, MoreWork
  <2> QED BY <1>2, <2>5, <2>6, <2>7 DEF ChainInv
<1> QED BY <1>3, <1>4, <1>5, <1>6

(* A block that is refused, or is known already, leaves the queue alone.   *)
LEMMA ProcessOrphanChainInv ==
    ASSUME TypeInv, ChainInv, NEW b \in NonGenesis, ProcessOrphan(b)
    PROVE  /\ ChainInv'
           /\ \/ /\ b \in Unacceptable \cup known
                 /\ known' = known /\ ReturnTo("orphan", b, job.queue, FALSE)
              \/ /\ b \notin known /\ known' = known \cup {b} /\ MoreWork(b)
                 /\ job'.pc = "setbest" /\ job'.caller = "orphan" /\ job'.block = b
                 /\ job'.queue = job.queue /\ mapOrphanBlocks' = mapOrphanBlocks
              \/ /\ b \notin known /\ known' = known \cup {b} /\ ~MoreWork(b)
                 /\ ReturnTo("orphan", b, job.queue, TRUE)
<1> USE DEF TypeInv, TypeOK
<1>1. /\ node = "up" /\ node' = "up" /\ job.pc = "orphans" /\ pindexBest' = pindexBest
      /\ hashPrevBlock[b] = Head(job.queue) /\ b \in Block
  BY DEF ProcessOrphan, Running, NonGenesis
<1>2. job.queue \in Seq(Block) /\ job.queue # << >> BY <1>1 DEF JobType, HandlerOK
<1>3. mapBlockIndex = txdb.blockindex /\ tip = pindexBest /\ pindexBest # Null
  BY <1>1 DEF ChainInv, MemoryOK
<1>4. Queued(job.queue) \subseteq known BY DEF ChainInv, QueueOK
<1>5. CASE b \in Unacceptable \cup DOMAIN mapBlockIndex
  <2>1. /\ ReturnTo("orphan", b, job.queue, FALSE)
        /\ mapBlockIndex' = mapBlockIndex /\ txdb' = txdb
    BY <1>5 DEF ProcessOrphan
  <2>2. job'.pc \in {"idle", "orphans"} /\ job'.caller = "none"
    BY <1>1, <1>2, <2>1, ReturnToInv DEF MemoryType
  <2>3. Queued(job'.queue) = Queued(job.queue)
    <3>1. FALSE \in BOOLEAN /\ "orphan" # "LoadBlockIndex"
          /\ "orphan" \in {"ProcessBlock", "orphan", "LoadBlockIndex"}
      OBVIOUS
    <3> QED BY <1>1, <1>2, <2>1, <3>1, ReturnToQueue, Zenon
  <2>4. CommittedOK' /\ known' = known /\ tip' = tip
    BY <2>1, CommittedKept DEF ChainInv
  <2>5. QueueOK' BY <1>4, <2>3, <2>4 DEF QueueOK
  <2>6. ChainInv' BY <1>1, <1>3, <2>1, <2>2, <2>4, <2>5, SettledInv
  <2> QED BY <1>3, <1>5, <2>1, <2>4, <2>6 DEF known
<1>6. CASE b \notin Unacceptable \cup DOMAIN mapBlockIndex
  <2>1. AddToBlockIndex("orphan", b, job.queue) BY <1>6 DEF ProcessOrphan
  <2>2. job.queue[1] = Head(job.queue) /\ 1 \in DOMAIN job.queue BY <1>2
  <2>3. hashPrevBlock[b] \in known BY <1>1, <1>4, <2>2 DEF Queued
  <2>4. b \notin DOMAIN mapBlockIndex BY <1>6
  <2>5. b \notin known BY <1>3, <2>4 DEF known
  <2> QED BY <1>1, <1>2, <1>4, <2>1, <2>3, <2>4, <2>5, NewEntryInv
<1> QED BY <1>5, <1>6

(* SetBestChain on top of the best block, or on an empty chain.            *)
LEMMA SetBestChainInv ==
    ASSUME NoRepeats, TypeInv, ChainInv,
           SetBestGenesis \/ ExtendBest \/ ExtendBestFails
    PROVE  ChainInv' /\ known' = known
<1> USE DEF TypeInv, TypeOK
<1>1. /\ node = "up" /\ node' = node /\ job.pc = "setbest"
      /\ job.block \in Block /\ job.block # Null
  BY TreeAssumption DEF SetBestGenesis, ExtendBest, ExtendBestFails, SettingBest, Running,
     HandlerOK
<1>2. /\ mapBlockIndex = txdb.blockindex /\ tip = pindexBest /\ job.block \in known
  BY <1>1 DEF ChainInv, MemoryOK
<1>3. CASE SetBestGenesis
  <2>1. job.block = Genesis /\ known = {Genesis} /\ tip = Null
    BY <1>1, <1>3 DEF SetBestGenesis, ChainInv, MemoryOK
  <2>2. /\ txdb'.blockindex = txdb.blockindex /\ txdb'.tx = txdb.tx
        /\ txdb'.hashBestChain = Genesis
        /\ mapBlockIndex' = mapBlockIndex /\ pindexBest' = Genesis /\ Return(TRUE)
    BY <1>3, <2>1 DEF SetBestGenesis, DatabaseType
  <2>3. known' = known /\ tip' = Genesis BY <2>2 DEF known, tip
  <2>4. Links(known, Genesis) = Links(known, Null)
    BY <2>1, AncestorsOfGenesis DEF Links
  <2>5. txdb.tx = << >> /\ txdb.blockindex = Links(known, Null) /\ ClosedUnderPrev(known)
    BY <2>1 DEF ChainInv, CommittedOK
  <2>6. CommittedOK'
    BY <1>1, <2>1, <2>2, <2>3, <2>4, <2>5, GenesisIsValid DEF CommittedOK
  <2> QED BY <1>1, <1>2, <2>1, <2>2, <2>3, <2>6, ReturnChainInv
<1>4. CASE ExtendBest
  <2>1. /\ job.block \in NonGenesis /\ hashPrevBlock[job.block] = tip
        /\ ConnectBlockOK(txdb.tx, job.block) /\ ConnectTip(job.block)
        /\ pindexBest' = job.block /\ Return(TRUE)
    BY <1>1, <1>2, <1>4 DEF ExtendBest, ExtendsBest, NonGenesis
  <2>2. CommittedOK' /\ known' = known /\ tip' = job.block /\ mapBlockIndex' = txdb'.blockindex
    BY <1>2, <2>1, TipCommitted DEF ChainInv
  <2> QED BY <1>1, <2>1, <2>2, ReturnChainInv
<1>5. CASE ExtendBestFails
  <2>1. /\ InvalidChainFound(job.block) /\ Return(FALSE)
        /\ mapBlockIndex' = mapBlockIndex /\ pindexBest' = pindexBest /\ pindexBest # Null
    BY <1>5 DEF ExtendBestFails
  <2>2. /\ txdb'.blockindex = txdb.blockindex /\ txdb'.tx = txdb.tx
        /\ txdb'.hashBestChain = txdb.hashBestChain
    BY <1>1, <2>1, InvalidChainFoundInv
  <2>3. CommittedOK' /\ known' = known /\ tip' = tip BY <2>2, CommittedKept DEF ChainInv
  <2> QED BY <1>1, <1>2, <2>1, <2>2, <2>3, ReturnChainInv
<1> QED BY <1>3, <1>4, <1>5

(* Reorganize's walk: back to the fork, up the new branch.                 *)
LEMMA WalkChainInv ==
    ASSUME NoRepeats, TypeInv, WalkOK, ChainInv, Disconnect \/ Connect
    PROVE  ChainInv' /\ known' = known
<1> USE DEF TypeInv, TypeOK
<1>1. /\ node = "up" /\ node' = node /\ job.pc = "reorganize" /\ txdb' = txdb
      /\ mapBlockIndex' = mapBlockIndex /\ pindexBest' = pindexBest
  BY DEF Disconnect, Connect, Reorganizing, Running, memory
<1>2. CommittedOK' /\ known' = known /\ tip' = tip
  BY <1>1, CommittedKept DEF ChainInv
<1>3. known \in SUBSET Block BY KnownIsClosed DEF ChainInv
<1>4. /\ ValidChain[job.at] /\ txn.tx = TxIndexOf[job.at]
      /\ txn.blockindex = Links(known, job.at)
  BY <1>1 DEF ChainInv, TransactionOK
<1>5. ASSUME NEW at \in Block, job' = [job EXCEPT !.at = at], ValidChain[at],
             txn'.tx = TxIndexOf[at], txn'.blockindex = Links(known, at)
      PROVE  ChainInv'
  <2>1. /\ job'.pc = "reorganize" /\ job'.at = at /\ job'.mid = job.mid
        /\ job'.block = job.block /\ job'.caller = job.caller /\ job'.queue = job.queue
    BY <1>1, <1>5 DEF JobType
  <2>2. TransactionOK' BY <1>2, <1>5, <2>1 DEF TransactionOK
  <2>3. MemoryOK' /\ QueueOK' BY <1>1, <1>2, <2>1 DEF ChainInv, MemoryOK, QueueOK
  <2>4. TargetOK' BY <1>1, <2>1 DEF ChainInv, TargetOK, BacksOff, MoreWork
  <2> QED BY <1>2, <2>2, <2>3, <2>4 DEF ChainInv
<1>6. CASE Disconnect
  <2> DEFINE at == job.at
             p == hashPrevBlock[job.at]
  <2>1. /\ pindexBest \in Block /\ at \in Ancestors[pindexBest] \ {Genesis} /\ p \in Block
        /\ job' = [job EXCEPT !.at = p] /\ txn'.tx = DisconnectBlock(txn.tx, at)
    BY <1>6, DisconnectWalk
  <2>2. at \in NonGenesis /\ at \in Block BY <2>1, AncestorsType DEF NonGenesis
  <2>3. ValidChain[p] /\ ConnectBlockOK(TxIndexOf[p], at) BY <1>4, <2>2, ValidUnfold
  <2>4. txn'.tx = TxIndexOf[p] BY <1>4, <2>1, <2>2, <2>3, ChainConnects
  <2>5. txn'.blockindex = [txn.blockindex EXCEPT ![p] = Null] BY <1>6 DEF Disconnect
  <2>6. [Links(known, at) EXCEPT ![p] = Null] = Links(known, p)
    BY <1>3, <2>2, LinksConnect
  <2>7. txn'.blockindex = Links(known, p) BY <1>4, <2>5, <2>6
  <2> HIDE DEF at, p
  <2> QED BY <1>2, <1>5, <2>1, <2>3, <2>4, <2>7
<1>7. CASE Connect
  <2> DEFINE at == job.at
             next == NextOnBranch(job.at, job.mid)
  <2>1. /\ job.mid \in Block /\ at \in Ancestors[job.mid] /\ at # job.mid /\ next \in Block
        /\ job' = [job EXCEPT !.at = next] /\ txn'.tx = ConnectBlock(txn.tx, next)
    BY <1>7, ConnectWalk DEF Connect
  <2>2. next \in NonGenesis /\ hashPrevBlock[next] = at
    BY <2>1, NextOnBranchType DEF NonGenesis
  <2>3. ConnectBlockOK(TxIndexOf[at], next) BY <1>4, <1>7 DEF Connect
  <2> HIDE DEF at, next
  <2>4. ValidChain[next] BY <1>4, <2>2, <2>3, ValidUnfold DEF at
  <2>5. txn'.tx = TxIndexOf[next] BY <1>4, <2>1, <2>2, <2>3, ChainConnects DEF at
  <2>6. txn'.blockindex = [txn.blockindex EXCEPT ![at] = next] BY <1>7 DEF Connect, at, next
  <2>7. [Links(known, at) EXCEPT ![at] = next] = Links(known, next)
    BY <1>3, <2>2, LinksConnect
  <2>8. txn'.blockindex = Links(known, next) BY <1>4, <2>6, <2>7 DEF at
  <2> QED BY <1>2, <1>5, <2>1, <2>4, <2>5, <2>8
<1> QED BY <1>2, <1>6, <1>7

(* Reorganize's end.                                                       *)
LEMMA EndChainInv ==
    ASSUME NoRepeats, TypeInv, ChainInv, Commit \/ ReorganizeFails
    PROVE  ChainInv' /\ known' = known
<1> USE DEF TypeInv, TypeOK
<1>1. /\ node = "up" /\ node' = node /\ job.pc = "reorganize" /\ pindexBest' = pindexBest
      /\ pindexBest \in Block /\ pindexBest # Null /\ job.block \in Block
      /\ job.mid \in Ancestors[job.block]
  BY TreeAssumption DEF Commit, ReorganizeFails, Reorganizing, Running, BranchOK, HandlerOK
<1>2. mapBlockIndex = txdb.blockindex /\ tip = pindexBest /\ job.block \in known
  BY <1>1 DEF ChainInv, MemoryOK
<1>3. CASE ReorganizeFails
  <2>1. InvalidChainFound(job.block) /\ Return(FALSE) /\ mapBlockIndex' = mapBlockIndex
    BY <1>3 DEF ReorganizeFails
  <2>2. /\ txdb'.blockindex = txdb.blockindex /\ txdb'.tx = txdb.tx
        /\ txdb'.hashBestChain = txdb.hashBestChain
    BY <1>1, <2>1, InvalidChainFoundInv
  <2>3. CommittedOK' /\ known' = known /\ tip' = tip BY <2>2, CommittedKept DEF ChainInv
  <2> QED BY <1>1, <1>2, <2>1, <2>2, <2>3, ReturnChainInv
<1>4. CASE Commit
  <2>1. /\ job.at = job.mid
        /\ txdb'.blockindex = txn.blockindex /\ txdb'.tx = txn.tx
        /\ txdb'.hashBestChain = job.mid
        /\ mapBlockIndex' = Relinked(mapBlockIndex, pindexBest, job.mid)
        /\ job'.pc = "secondary" /\ job'.at = job.at /\ job'.block = job.block
        /\ job'.caller = job.caller /\ job'.queue = job.queue
    BY <1>4 DEF Commit, DatabaseType, JobType
  <2>2. known \in SUBSET Block /\ Ancestors[job.block] \subseteq known
    BY <1>2, KnownIsClosed DEF ChainInv
  <2>3. job.mid \in known /\ job.mid \in Block /\ job.mid # Null
    BY <1>1, <2>2, TreeAssumption
  <2>4. /\ ValidChain[job.mid] /\ txn.tx = TxIndexOf[job.mid]
        /\ txn.blockindex = Links(known, job.mid)
    BY <1>1, <2>1 DEF ChainInv, TransactionOK
  <2>5. tip' = job.mid BY <2>1 DEF tip
  <2>6. known' = known BY <2>1, <2>4 DEF known, Links
  <2>7. ClosedUnderPrev(known) BY DEF ChainInv, CommittedOK
  <2>8. CommittedOK' BY <2>1, <2>3, <2>4, <2>5, <2>6, <2>7 DEF CommittedOK
  <2>9. mapBlockIndex' = Links(known, job.mid)
    <3>1. mapBlockIndex = Links(known, pindexBest) BY <1>2 DEF ChainInv, CommittedOK
    <3> QED BY <1>1, <2>1, <2>2, <2>3, <3>1, LinksRelinked
  <2>10. MemoryOK' BY <1>1, <1>2, <2>1, <2>4, <2>5, <2>6, <2>9 DEF MemoryOK
  <2>11. TransactionOK' /\ QueueOK' BY <2>1, <2>6 DEF ChainInv, TransactionOK, QueueOK
  <2>12. TargetOK' BY <1>1, <2>1 DEF ChainInv, TargetOK, BacksOff
  <2> QED BY <2>6, <2>8, <2>10, <2>11, <2>12 DEF ChainInv
<1> QED BY <1>3, <1>4

(* The postponed blocks connect, one by one.                               *)
LEMMA SecondaryChainInv ==
    ASSUME NoRepeats, TypeInv, ChainInv, ConnectSecondary \/ SecondariesDone
    PROVE  ChainInv' /\ known' = known
<1> USE DEF TypeInv, TypeOK
<1>1. /\ node = "up" /\ node' = node /\ job.pc = "secondary"
      /\ job.block \in Block /\ job.block # Null
      /\ job.at \in Ancestors[job.block]
  BY TreeAssumption DEF ConnectSecondary, SecondariesDone, Secondary, Running, BranchOK, HandlerOK
<1>2. /\ mapBlockIndex = txdb.blockindex /\ tip = job.at /\ job.block \in known
      /\ pindexBest # Null
  BY <1>1 DEF ChainInv, MemoryOK
<1>3. CASE SecondariesDone
  <2>1. /\ mapBlockIndex' = mapBlockIndex /\ txdb' = txdb
        /\ pindexBest' = job.block /\ job.at = job.block /\ Return(TRUE)
    BY <1>3 DEF SecondariesDone, NewBest
  <2>2. CommittedOK' /\ known' = known /\ tip' = tip
    BY <2>1, CommittedKept DEF ChainInv
  <2> QED BY <1>1, <1>2, <2>1, <2>2, ReturnChainInv
<1>4. CASE ConnectSecondary
  <2> DEFINE next == NextOnBranch(job.at, job.block)
  <2>1. /\ job.at # job.block /\ ConnectBlockOK(txdb.tx, next) /\ ConnectTip(next)
        /\ job' = [job EXCEPT !.at = next] /\ pindexBest' = pindexBest
    BY <1>4 DEF ConnectSecondary
  <2>2. next \in Ancestors[job.block] \ {Genesis} /\ hashPrevBlock[next] = tip
    BY <1>1, <1>2, <2>1, NextOnBranchType
  <2> HIDE DEF next
  <2>3. next \in NonGenesis /\ next \in known
    BY <1>1, <1>2, <2>2, AncestorsType, KnownIsClosed DEF NonGenesis, ChainInv
  <2>4. CommittedOK' /\ known' = known /\ tip' = next /\ mapBlockIndex' = txdb'.blockindex
    BY <1>2, <2>1, <2>2, <2>3, TipCommitted DEF ChainInv
  <2>5. /\ job'.pc = "secondary" /\ job'.at = next /\ job'.block = job.block
        /\ job'.caller = job.caller /\ job'.queue = job.queue
    BY <1>1, <2>1 DEF JobType
  <2>6. MemoryOK' BY <1>1, <1>2, <2>1, <2>4, <2>5 DEF MemoryOK
  <2>7. TransactionOK' /\ QueueOK' BY <2>4, <2>5 DEF ChainInv, TransactionOK, QueueOK
  <2>8. TargetOK' BY <1>1, <1>2, <2>1, <2>5 DEF ChainInv, TargetOK, BacksOff
  <2> QED BY <2>4, <2>6, <2>7, <2>8 DEF ChainInv
<1> QED BY <1>3, <1>4

(* No step but a postponed block that does not connect breaks it.          *)
LEMMA ChainInvStep ==
    ASSUME NoRepeats, TypeInv, DownOK, WalkOK, WorkOK, ChainInv,
           [Next /\ ~ConnectSecondaryFails]_vars
    PROVE  ChainInv'
<1>1. CASE UNCHANGED vars
  BY <1>1 DEF vars, memory, ChainInv, CommittedOK, MemoryOK, TransactionOK, TargetOK, BacksOff,
     QueueOK, MoreWork, known, tip
<1>2. CASE Next /\ ~ConnectSecondaryFails
  BY <1>2, EnvironmentChainInv, ProcessOrphanChainInv, HandlerMovesInv, SetBestChainInv,
     WalkChainInv, EndChainInv, SecondaryChainInv DEF Next, Step
<1> QED BY <1>1, <1>2

LEMMA InitChainInv == Init => ChainInv /\ WorkOK
BY DEF Init, Idle, ChainInv, CommittedOK, MemoryOK, TransactionOK, TargetOK, QueueOK, Queued,
   WorkOK, known, tip, Links, ClosedUnderPrev

LEMMA WorkOKStep ==
    ASSUME TypeInv, WorkOK, [Next]_vars
    PROVE  WorkOK'
<1>1. CASE UNCHANGED vars BY <1>1 DEF vars, memory, WorkOK, MoreWork
<1> QED BY <1>1, WorkInv

(***************************************************************************)
(* The theorems about the committed chain                                  *)
(***************************************************************************)
(* Every block that SetBestChain postponed connects.                       *)
SecondariesConnect == [][~ConnectSecondaryFails]_vars

LEMMA ChainInvariant ==
    ASSUME NoRepeats
    PROVE  Spec /\ SecondariesConnect =>
              [](TypeInv /\ DownOK /\ WalkOK /\ WorkOK /\ ChainInv)
<1> DEFINE Inv == TypeInv /\ DownOK /\ WalkOK /\ WorkOK /\ ChainInv
<1>1. Init => Inv
  <2>1. Init => WalkOK BY DEF Init, Idle, WalkOK
  <2> QED BY <2>1, InitTypeInv, DownInv, InitChainInv
<1>2. Inv /\ [Next]_vars /\ [~ConnectSecondaryFails]_vars => Inv'
  BY TypeInvStep, WorkOKStep, ChainInvStep
<1> HIDE DEF Inv
<1>3. Spec /\ SecondariesConnect => []Inv BY <1>1, <1>2, PTL DEF Spec, SecondariesConnect
<1> QED BY <1>3 DEF Inv

(* The transaction index is the one the best chain determines, whatever    *)
(* was connected, disconnected, given up or lost in a crash on the way     *)
(* (main.cpp 1268, 1315, 1382).                                            *)
THEOREM IndexIsOfBestChain ==
    ASSUME NoRepeats
    PROVE  Spec /\ SecondariesConnect => []IndexDescribesChain
<1>1. ChainInv => IndexDescribesChain BY DEF ChainInv, CommittedOK, IndexDescribesChain, tip
<1> QED BY <1>1, ChainInvariant, PTL

(* Between handlers the best block in memory is the committed one          *)
(* (main.cpp 1674).                                                        *)
THEOREM BestStaysCommitted ==
    ASSUME NoRepeats
    PROVE  Spec /\ SecondariesConnect => []BestIsCommitted
<1>1. ChainInv => BestIsCommitted
  BY DEF ChainInv, MemoryOK, BestIsCommitted, Ready, Idle, tip
<1> QED BY <1>1, ChainInvariant, PTL

(* pnext leads along the best chain and from nowhere else, in memory and   *)
(* on disk (main.cpp 1476, 1664).                                          *)
THEOREM LinksStayOnBest ==
    ASSUME NoRepeats
    PROVE  Spec /\ SecondariesConnect => []LinksFollowBest
<1>1. ChainInv => LinksFollowBest
  <2> SUFFICES ASSUME ChainInv, Ready PROVE LinksFollowBest
      BY DEF LinksFollowBest
  <2>1. /\ mapBlockIndex = txdb.blockindex /\ pindexBest # Null /\ tip = pindexBest
    BY DEF ChainInv, MemoryOK, Ready, Idle
  <2>2. txdb.blockindex = Links(known, pindexBest) BY <2>1 DEF ChainInv, CommittedOK
  <2>3. Links(known, pindexBest) =
          [b \in DOMAIN mapBlockIndex |->
              IF b \in Ancestors[pindexBest] \ {pindexBest}
              THEN NextOnBranch(b, pindexBest) ELSE Null]
    BY <2>1 DEF Links, known
  <2> QED BY <2>1, <2>2, <2>3 DEF LinksFollowBest
<1> QED BY <1>1, ChainInvariant, PTL

(* A block of the best chain can always be disconnected again: the claim   *)
(* of main.cpp 1100, which is wrong only for chains that repeat a          *)
(* transaction.                                                            *)
THEOREM BestCanBeDisconnected ==
    ASSUME NoRepeats
    PROVE  Spec /\ SecondariesConnect => []BestChainDisconnects
<1>1. TypeInv /\ WalkOK /\ ChainInv => BestChainDisconnects
  <2> SUFFICES ASSUME TypeInv, WalkOK, ChainInv, Reorganizing, AboveFork
               PROVE  DisconnectBlockOK(txn.tx, job.at)
      BY DEF BestChainDisconnects
  <2>1. /\ job.pc = "reorganize" /\ pindexBest \in Block /\ job.mid \in Ancestors[job.block]
        /\ job.block \in Block
    BY DEF Reorganizing, TypeInv, BranchOK, HandlerOK
  <2>2. job.mid \in Block BY <2>1, AncestorsType
  <2>3. job.at \in Ancestors[pindexBest] BY <2>1 DEF WalkOK, AboveFork
  <2>4. job.at \in NonGenesis
    BY <2>1, <2>2, <2>3, AncestorsType, GenesisIsAncestor DEF AboveFork, NonGenesis
  <2>5. ValidChain[job.at] /\ txn.tx = TxIndexOf[job.at]
    BY <2>1 DEF ChainInv, TransactionOK
  <2> QED BY <2>4, <2>5, ValidUnfold, ChainConnects
<1> QED BY <1>1, ChainInvariant, PTL

(***************************************************************************)
(* The node implements BestChain                                           *)
(***************************************************************************)
LEMMA EntryIsLearned ==
    ASSUME TypeInv, NEW caller, NEW b \in Block \ known, NEW queue,
           b # Genesis => hashPrevBlock[b] \in known,
           AddToBlockIndex(caller, b, queue)
    PROVE  Committed!Next
<1>1. /\ txdb'.blockindex = WithEntry(txdb.blockindex, b)
      /\ txdb'.hashBestChain = txdb.hashBestChain
  BY DEF AddToBlockIndex, TypeInv, TypeOK, DatabaseType
<1>2. known' = known \cup {b} BY <1>1 DEF known, WithEntry
<1>3. Committed!Learn(b) BY <1>1, <1>2 DEF Committed!Learn, known
<1> QED BY <1>3 DEF Committed!Next

LEMMA BestIsAdopted ==
    ASSUME CommittedOK', known' = known, tip' \in Block, tip' # Null,
           tip # Null => bnChainWork[tip'] > bnChainWork[tip]
    PROVE  Committed!Next
<1>1. tip' \in known /\ ValidChain[tip'] BY DEF CommittedOK
<1>2. Committed!Adopt(tip') BY <1>1 DEF Committed!Adopt, known, tip
<1> QED BY <1>2 DEF Committed!Next

LEMMA CommittedStutters ==
    ASSUME TypeInv,
           \/ \E b \in NonGenesis : HoldOrphan(b)
           \/ \E t \in Tx : AcceptToMemoryPool(t) \/ ReacceptWalletTransaction(t)
           \/ Start \/ Crash \/ OrphansDone \/ ExtendBestFails \/ Branches \/ Postpone
           \/ BeginReorganize \/ Disconnect \/ Connect \/ ReorganizeFails \/ SecondariesDone
           \/ UNCHANGED vars
    PROVE  UNCHANGED <<known, tip>>
<1>1. CASE ExtendBestFails \/ ReorganizeFails
  <2>1. InvalidChainFound(job.block) /\ job.block \in Block
    BY <1>1 DEF ExtendBestFails, ReorganizeFails, SettingBest, Reorganizing, TypeInv, HandlerOK
  <2>2. txdb'.blockindex = txdb.blockindex /\ txdb'.hashBestChain = txdb.hashBestChain
    BY <2>1, InvalidChainFoundInv DEF TypeInv, TypeOK
  <2> QED BY <2>2 DEF known, tip
<1>2. CASE ~(ExtendBestFails \/ ReorganizeFails)
  <2>1. txdb' = txdb
    BY <1>2 DEF HoldOrphan, AcceptToMemoryPool, ReacceptWalletTransaction, Start, Crash,
       OrphansDone, Branches, Postpone, BeginReorganize, Disconnect, Connect, SecondariesDone,
       memory, vars
  <2> QED BY <2>1 DEF known, tip
<1> QED BY <1>1, <1>2

LEMMA CommittedStep ==
    ASSUME NoRepeats, TypeInv, DownOK, WalkOK, WorkOK, ChainInv,
           [Next /\ ~ConnectSecondaryFails]_vars
    PROVE  Committed!Next \/ UNCHANGED <<known, tip>>
<1> USE DEF TypeInv, TypeOK
<1>1. CommittedOK' BY ChainInvStep DEF ChainInv
<1>2. CASE StartFresh
  <2>1. AddToBlockIndex("LoadBlockIndex", Genesis, << >>) /\ Genesis \in Block \ known
    BY <1>2, TreeAssumption DEF StartFresh, known
  <2> QED BY <2>1, EntryIsLearned
<1>3. ASSUME NEW b \in NonGenesis, ProcessBlock(b) \/ ProcessOrphan(b)
      PROVE  Committed!Next \/ UNCHANGED <<known, tip>>
  <2>1. b \in Block BY DEF NonGenesis
  <2>2. mapBlockIndex = txdb.blockindex
    BY <1>3 DEF ChainInv, MemoryOK, ProcessBlock, ProcessOrphan, Ready, Running
  <2>3. CASE ProcessBlock(b)
    <3>1. /\ AddToBlockIndex("ProcessBlock", b, << >>) /\ b \notin known
          /\ hashPrevBlock[b] \in known
      BY <2>2, <2>3 DEF ProcessBlock, NewBlock, known
    <3> QED BY <2>1, <3>1, EntryIsLearned
  <2>4. CASE ProcessOrphan(b) /\ b \in Unacceptable \cup DOMAIN mapBlockIndex
    <3>1. txdb' = txdb BY <2>4 DEF ProcessOrphan
    <3> QED BY <3>1 DEF known, tip
  <2>5. CASE ProcessOrphan(b) /\ b \notin Unacceptable \cup DOMAIN mapBlockIndex
    <3>1. /\ AddToBlockIndex("orphan", b, job.queue) /\ b \notin known
          /\ job.pc = "orphans" /\ hashPrevBlock[b] = Head(job.queue)
      BY <2>2, <2>5 DEF ProcessOrphan, known
    <3>2. job.queue \in Seq(Block) /\ job.queue # << >> BY <3>1 DEF JobType, HandlerOK
    <3>3. job.queue[1] = Head(job.queue) /\ 1 \in DOMAIN job.queue BY <3>2
    <3>4. hashPrevBlock[b] \in known BY <3>1, <3>3 DEF ChainInv, QueueOK, Queued
    <3> QED BY <2>1, <3>1, <3>4, EntryIsLearned
  <2> QED BY <1>3, <2>3, <2>4, <2>5
<1>4. CASE SetBestGenesis \/ ExtendBest
  <2>1. /\ node = "up" /\ job.pc = "setbest" /\ job.block \in Block /\ job.block # Null
    BY <1>4, TreeAssumption DEF SetBestGenesis, ExtendBest, SettingBest, Running, HandlerOK
  <2>2. tip = pindexBest BY <2>1 DEF ChainInv, MemoryOK
  <2>3. known' = known BY <1>4, SetBestChainInv
  <2>4. tip' = job.block
    BY <1>4 DEF SetBestGenesis, ExtendBest, ConnectTip, DatabaseType, tip
  <2>5. CASE SetBestGenesis
    <3>1. tip = Null BY <2>2, <2>5 DEF SetBestGenesis
    <3> QED BY <1>1, <2>1, <2>3, <2>4, <3>1, BestIsAdopted
  <2>6. CASE ExtendBest
    <3>1. job.block \in NonGenesis /\ hashPrevBlock[job.block] = tip
      BY <2>1, <2>2, <2>6 DEF ExtendBest, ExtendsBest, NonGenesis
    <3>2. tip \in Block BY <3>1, TreeAssumption
    <3>3. bnChainWork[job.block] > bnChainWork[tip] BY <2>1, <3>1, <3>2, WorkGrows
    <3> QED BY <1>1, <2>1, <2>3, <2>4, <3>3, BestIsAdopted
  <2> QED BY <1>4, <2>5, <2>6
<1>5. CASE Commit
  <2>1. /\ job.pc = "reorganize" /\ node = "up" /\ pindexBest \in Block /\ pindexBest # Null
        /\ job.mid \in Ancestors[job.block] /\ job.block \in Block
    BY <1>5, TreeAssumption DEF Commit, Reorganizing, Running, BranchOK, HandlerOK
  <2>2. tip = pindexBest /\ job.mid \in Block /\ job.mid # Null
    BY <2>1, AncestorsType, TreeAssumption DEF ChainInv, MemoryOK
  <2>3. known' = known BY <1>5, EndChainInv
  <2>4. tip' = job.mid BY <1>5 DEF Commit, DatabaseType, tip
  <2>5. CASE job.caller = "LoadBlockIndex"
    <3>1. PICK bad \in BadAtLoad \cap Ancestors[tip] : job.mid = hashPrevBlock[bad]
      BY <2>1, <2>2, <2>5 DEF ChainInv, TargetOK, BacksOff
    <3>2. Committed!Retreat(bad)
      BY <2>1, <2>2, <2>3, <2>4, <3>1 DEF Committed!Retreat, known, tip
    <3>3. bad \in Block BY ChainAssumption DEF NonGenesis
    <3> QED BY <3>2, <3>3 DEF Committed!Next
  <2>6. CASE job.caller # "LoadBlockIndex"
    <3>1. bnChainWork[job.mid] > bnChainWork[tip]
      BY <2>1, <2>2, <2>6 DEF ChainInv, TargetOK, MoreWork
    <3> QED BY <1>1, <2>2, <2>3, <2>4, <3>1, BestIsAdopted
  <2> QED BY <2>5, <2>6
<1>6. CASE ConnectSecondary
  <2> DEFINE next == NextOnBranch(job.at, job.block)
  <2>1. /\ job.pc = "secondary" /\ node = "up" /\ job.at \in Ancestors[job.block]
        /\ job.block \in Block /\ job.at # job.block
    BY <1>6 DEF ConnectSecondary, Secondary, Running, BranchOK, HandlerOK
  <2>2. tip = job.at BY <2>1 DEF ChainInv, MemoryOK
  <2>3. next \in Ancestors[job.block] \ {Genesis} /\ hashPrevBlock[next] = tip
    BY <2>1, <2>2, NextOnBranchType
  <2>4. known' = known BY <1>6, SecondaryChainInv
  <2>5. tip' = next BY <1>6 DEF ConnectSecondary, ConnectTip, DatabaseType, tip
  <2> HIDE DEF next
  <2>6. next \in NonGenesis /\ next \in Block /\ next # Null
    BY <2>1, <2>3, AncestorsType, TreeAssumption DEF NonGenesis
  <2>7. tip \in Block BY <2>3, <2>6, TreeAssumption
  <2>8. bnChainWork[next] > bnChainWork[tip] BY <2>3, <2>6, <2>7, WorkGrows
  <2> QED BY <1>1, <2>4, <2>5, <2>6, <2>8, BestIsAdopted
<1>7. CASE \/ \E b \in NonGenesis : HoldOrphan(b)
           \/ \E t \in Tx : AcceptToMemoryPool(t) \/ ReacceptWalletTransaction(t)
           \/ Start \/ Crash \/ OrphansDone \/ ExtendBestFails \/ Branches \/ Postpone
           \/ BeginReorganize \/ Disconnect \/ Connect \/ ReorganizeFails \/ SecondariesDone
           \/ UNCHANGED vars
  BY <1>7, CommittedStutters
<1> QED BY <1>2, <1>3, <1>4, <1>5, <1>6, <1>7 DEF Next, Step

(* Seen through its database, the node does nothing but learn blocks and   *)
(* move from one valid chain to another with more work, or back to before  *)
(* a block that fails its check when it starts.                            *)
THEOREM NodeImplementsBestChain ==
    ASSUME NoRepeats
    PROVE  Spec /\ SecondariesConnect => ImplementsBestChain
<1> DEFINE Inv == TypeInv /\ DownOK /\ WalkOK /\ WorkOK /\ ChainInv
<1>1. Init => Committed!Init BY DEF Init, Committed!Init
<1>2. Inv /\ [Next]_vars /\ [~ConnectSecondaryFails]_vars =>
        [Committed!Next]_<<DOMAIN txdb.blockindex, txdb.hashBestChain>>
  <2>1. UNCHANGED <<known, tip>> =>
           UNCHANGED <<DOMAIN txdb.blockindex, txdb.hashBestChain>>
    BY DEF known, tip
  <2> QED BY <2>1, CommittedStep
<1>3. Spec /\ SecondariesConnect => []Inv BY ChainInvariant
<1> HIDE DEF Inv
<1> QED BY <1>1, <1>2, <1>3, PTL DEF Spec, SecondariesConnect, ImplementsBestChain, Committed!Spec

(***************************************************************************)
(* What a reorganisation takes out of the chain goes back to the pool      *)
(***************************************************************************)
LEMMA OnlyCommitDisconnects ==
    ASSUME TypeInv, [Next]_vars, ~Commit
    PROVE  DOMAIN txdb.tx \subseteq DOMAIN txdb'.tx
<1> USE DEF TypeInv, TypeOK
<1>1. CASE ExtendBestFails \/ ReorganizeFails
  <2>1. InvalidChainFound(job.block) /\ job.block \in Block
    BY <1>1 DEF ExtendBestFails, ReorganizeFails, SettingBest, Reorganizing, HandlerOK
  <2> QED BY <2>1, InvalidChainFoundInv
<1>2. CASE ConnectSecondaryFails
  <2> DEFINE next == NextOnBranch(job.at, job.block)
  <2>1. /\ job.at \in Ancestors[job.block] /\ job.block \in Block /\ job.at # job.block
        /\ InvalidChainFound(next)
    BY <1>2 DEF ConnectSecondaryFails, Secondary, BranchOK, HandlerOK
  <2>2. next \in Block BY <2>1, NextOnBranchType, AncestorsType
  <2> HIDE DEF next
  <2> QED BY <2>1, <2>2, InvalidChainFoundInv
<1>3. ASSUME NEW b \in Block, ConnectTip(b) PROVE DOMAIN txdb.tx \subseteq DOMAIN txdb'.tx
  BY <1>3, ConnectTipInv DEF PoolIndexed
<1>4. CASE ExtendBest
  BY <1>3, <1>4 DEF ExtendBest, SettingBest, HandlerOK
<1>5. CASE ConnectSecondary
  <2> DEFINE next == NextOnBranch(job.at, job.block)
  <2>1. /\ job.at \in Ancestors[job.block] /\ job.block \in Block /\ job.at # job.block
        /\ ConnectTip(next)
    BY <1>5 DEF ConnectSecondary, Secondary, BranchOK, HandlerOK
  <2>2. next \in Block BY <2>1, NextOnBranchType, AncestorsType
  <2> QED BY <1>3, <2>1, <2>2
<1>6. CASE StartFresh \/ (\E b \in NonGenesis : ProcessBlock(b) \/ ProcessOrphan(b)) \/ SetBestGenesis
  <2>1. txdb'.tx = txdb.tx
    BY <1>6 DEF StartFresh, ProcessBlock, ProcessOrphan, AddToBlockIndex, SetBestGenesis,
       DatabaseType
  <2> QED BY <2>1
<1>7. CASE \/ Start \/ Crash \/ \E b \in NonGenesis : HoldOrphan(b)
           \/ \E t \in Tx : AcceptToMemoryPool(t) \/ ReacceptWalletTransaction(t)
           \/ OrphansDone \/ Branches \/ Postpone \/ BeginReorganize \/ Disconnect \/ Connect
           \/ SecondariesDone \/ UNCHANGED vars
  <2>1. txdb' = txdb
    BY <1>7 DEF HoldOrphan, AcceptToMemoryPool, ReacceptWalletTransaction, Start, Crash,
       OrphansDone, Branches, Postpone, BeginReorganize, Disconnect, Connect, SecondariesDone,
       memory, vars
  <2> QED BY <2>1
<1> QED BY <1>1, <1>2, <1>4, <1>5, <1>6, <1>7 DEF Next, Step

(* Of the transactions of one valid chain, no two conflict: all that the   *)
(* pool may hold again come back.                                          *)
LEMMA CommitReturns ==
    ASSUME NoRepeats, TypeInv, ChainInv, NoConfirmedInPool, Commit,
           NEW t \in DOMAIN txdb.tx \ DOMAIN txdb'.tx,
           ~IsCoinBase(t), t \notin NonStandard, vin[t] \cap DOMAIN mempool.mapNextTx = {}
    PROVE  t \in mempool'.mapTx \/ \E s \in WalletTx \cap mempool'.mapTx : Conflict(s, t)
<1> USE DEF TypeInv, TypeOK
<1> DEFINE Ts(bs) == UNION {txs(b) : b \in bs}
           Disconnected == Ts(Ancestors[pindexBest] \ Ancestors[job.mid])
           Connected == Ts(Ancestors[job.mid] \ Ancestors[pindexBest])
<1>1. /\ job.pc = "reorganize" /\ node = "up" /\ pindexBest \in Block /\ pindexBest # Null
      /\ job.mid \in Ancestors[job.block] /\ job.block \in Block /\ job.at = job.mid
  BY TreeAssumption DEF Commit, Reorganizing, Running, BranchOK, HandlerOK
<1>2. tip = pindexBest /\ job.mid \in Block
  BY <1>1, AncestorsType DEF ChainInv, MemoryOK
<1>3. txdb.tx = TxIndexOf[pindexBest] /\ ValidChain[pindexBest]
  BY <1>1, <1>2 DEF ChainInv, CommittedOK
<1>4. txdb'.tx = TxIndexOf[job.mid]
  BY <1>1 DEF Commit, DatabaseType, ChainInv, TransactionOK
<1>5. /\ DOMAIN txdb.tx = Ts(Ancestors[pindexBest] \ {Genesis})
      /\ DOMAIN txdb'.tx = Ts(Ancestors[job.mid] \ {Genesis})
  BY <1>1, <1>2, <1>3, <1>4, TxIndexOfType DEF ChainTxs, ChainTo
<1>6. Genesis \in Ancestors[pindexBest] /\ Genesis \in Ancestors[job.mid]
  BY <1>1, <1>2, GenesisIsAncestor
<1>7. t \in Disconnected BY <1>5, <1>6
<1>8. Connected \subseteq DOMAIN txdb'.tx BY <1>5, <1>6
<1>9. Disconnected \subseteq DOMAIN txdb.tx BY <1>5, <1>6
<1>10. Disconnected \subseteq Tx
  BY <1>1, AncestorsType, TxsType
<1>11. PICK between \in SUBSET WalletTx, R \in SUBSET Disconnected, late \in SUBSET WalletTx :
          /\ R \in Resurrections(mempool, between, Disconnected)
          /\ between \in ReacceptedBetween(mempool, txn.tx, WalletTx, R)
          /\ late \subseteq between
          /\ mempool' = PoolAfter(mempool, between, late, R, Connected)
  BY DEF Commit, Resurrections
<1> HIDE DEF Disconnected, Connected, Ts
<1>12. Acceptable(mempool, t)
  BY DEF Acceptable, NoConfirmedInPool
<1>13. \A s \in Disconnected : ~Conflict(s, t)
  <2>1. ASSUME NEW s \in Disconnected, s # t PROVE vin[s] \cap vin[t] = {}
    <3>1. DOMAIN txdb.tx = ChainTxs(ChainTo(pindexBest)) BY <1>1, <1>3, TxIndexOfType
    <3> QED BY <1>1, <1>3, <1>9, <2>1, <3>1, NoDoubleSpend
  <2> QED BY <2>1 DEF Conflict
<1>14. /\ R \subseteq Disconnected
       /\ t \in R \/ \E s \in between : Conflict(s, t)
       /\ \A s, u \in R : ~Conflict(s, u)
       /\ \A u \in R : Acceptable(mempool, u)
  BY <1>7, <1>11, <1>12, <1>13 DEF Resurrections
<1>15. \A u \in R : vin[u] \cap DOMAIN mempool.mapNextTx = {} BY <1>14 DEF Acceptable
<1>16. R \in SUBSET Tx BY <1>10, <1>14
<1>17. between \subseteq WalletTx /\ between \cap DOMAIN txdb'.tx = {}
  BY <1>1, <1>4, <1>11 DEF ReacceptedBetween, ChainInv, TransactionOK
<1>18. AddRaced(mempool, between, late, R).mapTx = mempool.mapTx \cup between \cup R
  BY <1>11 DEF AddRaced, AddUnchecked
<1>19. mempool'.mapTx = (mempool.mapTx \cup between \cup R) \ Connected
  BY <1>11, <1>18 DEF PoolAfter, Remove
<1> QED BY <1>4, <1>8, <1>11, <1>14, <1>17, <1>19

(* A transaction that leaves the best chain is in the pool afterwards, or  *)
(* one it conflicts with is (main.cpp 1455, 1489).                         *)
THEOREM DisconnectedReturnsToPool ==
    ASSUME NoRepeats
    PROVE  Spec /\ SecondariesConnect => DisconnectedReturn
<1> DEFINE ComesBack == \A t \in DOMAIN txdb.tx \ DOMAIN txdb'.tx :
                           \/ IsCoinBase(t) \/ t \in NonStandard
                           \/ t \in mempool'.mapTx
                           \/ vin[t] \cap DOMAIN mempool.mapNextTx # {}
                           \/ \E s \in WalletTx \cap mempool'.mapTx : Conflict(s, t)
<1>1. TypeInv /\ ChainInv /\ NoConfirmedInPool /\ [Next]_vars => [ComesBack]_vars
  <2> SUFFICES ASSUME TypeInv, ChainInv, NoConfirmedInPool, [Next]_vars PROVE ComesBack
      OBVIOUS
  <2>1. CASE Commit BY <2>1, CommitReturns
  <2>2. CASE ~Commit BY <2>2, OnlyCommitDisconnects
  <2> QED BY <2>1, <2>2
<1> HIDE DEF ComesBack
<1>2. Spec /\ SecondariesConnect => [][ComesBack]_vars
  BY <1>1, ChainInvariant, ConfirmedLeavesPool, PTL DEF Spec
<1> QED BY <1>2 DEF ComesBack, DisconnectedReturn

(***************************************************************************)
(* The most work wins, until the process first ends                        *)
(***************************************************************************)
(* A node that has died may hold blocks it never looked at again           *)
(* (main.cpp 1757); one in its first run knows of no such block.           *)
Waiting == IF job.pc \in {"idle", "orphans"} THEN {} ELSE {job.block}

MostWorkOK ==
    node = "up" /\ pindexBest # Null =>
        \A b \in known \ Waiting :
            ValidChain[b] => bnChainWork[b] <= bnChainWork[pindexBest]

FirstRunInv ==
    /\ node = "down" => known = {}
    /\ job.caller = "LoadBlockIndex" => pindexBest = Null
    /\ job.pc = "secondary" => job.at = job.block
    /\ MostWorkOK

(* SetBestChain gives up only a block that does not end a valid chain.     *)
LEMMA RefusedIsInvalid ==
    ASSUME NoRepeats, TypeInv, WalkOK, ChainInv, ExtendBestFails \/ ReorganizeFails
    PROVE  ~ValidChain[job.block]
<1> USE DEF TypeInv
<1>1. node = "up" /\ job.pc \in {"setbest", "reorganize"} /\ job.block \in Block
  BY DEF ExtendBestFails, ReorganizeFails, SettingBest, Reorganizing, Running, HandlerOK
<1>2. tip = pindexBest BY <1>1 DEF ChainInv, MemoryOK
<1>3. CASE ExtendBestFails
  <2>1. /\ job.block \in NonGenesis /\ hashPrevBlock[job.block] = tip
        /\ ~ConnectBlockOK(txdb.tx, job.block) /\ tip # Null
    BY <1>1, <1>2, <1>3 DEF ExtendBestFails, ExtendsBest, NonGenesis
  <2>2. txdb.tx = TxIndexOf[tip] BY <2>1 DEF ChainInv, CommittedOK
  <2> QED BY <2>1, <2>2, ValidUnfold
<1>4. CASE ReorganizeFails
  <2>1. /\ job.pc = "reorganize" /\ pindexBest \in Block /\ job.mid \in Ancestors[job.block]
    BY <1>4 DEF ReorganizeFails, Reorganizing, BranchOK
  <2>2. job.mid \in Block BY <1>1, <2>1, AncestorsType
  <2>3. ValidChain[job.at] /\ txn.tx = TxIndexOf[job.at]
    BY <2>1 DEF ChainInv, TransactionOK
  <2>4. CASE AboveFork
    <3>1. job.at \in Ancestors[pindexBest] BY <2>1, <2>4 DEF WalkOK, AboveFork
    <3>2. job.at \in NonGenesis
      BY <2>1, <2>2, <2>4, <3>1, AncestorsType, GenesisIsAncestor DEF AboveFork, NonGenesis
    <3>3. DisconnectBlockOK(txn.tx, job.at) BY <2>3, <3>2, ValidUnfold, ChainConnects
    <3> QED BY <1>4, <2>4, <3>3 DEF ReorganizeFails
  <2>5. CASE ~AboveFork
    <3> DEFINE next == NextOnBranch(job.at, job.mid)
    <3>1. /\ job.at \in Ancestors[job.mid] /\ job.at # job.mid
          /\ ~ConnectBlockOK(txn.tx, next)
      BY <1>4, <2>5 DEF ReorganizeFails, AboveFork
    <3>2. next \in Ancestors[job.mid] \ {Genesis} /\ hashPrevBlock[next] = job.at
      BY <2>2, <3>1, NextOnBranchType
    <3> HIDE DEF next
    <3>3. next \in NonGenesis BY <2>2, <3>2, AncestorsType DEF NonGenesis
    <3>4. ~ValidChain[next] BY <2>3, <3>1, <3>2, <3>3, ValidUnfold
    <3>5. next \in Ancestors[job.block] BY <1>1, <2>1, <3>2, AncestorsTransitive
    <3> QED BY <1>1, <3>4, <3>5, ValidBelow
  <2> QED BY <2>4, <2>5
<1> QED BY <1>3, <1>4

(* A step of a handler that returns.                                       *)
Returns(ok) ==
    /\ node = "up" /\ node' = "up" /\ job.pc \notin {"idle", "orphans"}
    /\ job.block \in Block /\ Return(ok)
    /\ job'.pc \in {"idle", "orphans"} /\ job'.caller = "none"

LEMMA HandlerReturns ==
    ASSUME TypeInv,
           SetBestGenesis \/ ExtendBest \/ ExtendBestFails \/ ReorganizeFails \/ SecondariesDone
    PROVE  /\ SetBestGenesis \/ ExtendBest \/ SecondariesDone => Returns(TRUE)
           /\ ExtendBestFails \/ ReorganizeFails => Returns(FALSE)
<1>1. /\ node = "up" /\ node' = "up" /\ job.pc \in {"setbest", "reorganize", "secondary"}
      /\ job.block \in Block
  BY DEF TypeInv, SetBestGenesis, ExtendBest, ExtendBestFails, ReorganizeFails, SecondariesDone,
     SettingBest, Reorganizing, Secondary, Running, HandlerOK
<1>2. /\ job.caller \in {"ProcessBlock", "orphan", "LoadBlockIndex"}
      /\ job.queue \in Seq(Block)
      /\ job.caller = "orphan" => job.queue # << >>
  BY <1>1 DEF TypeInv, TypeOK, JobType, HandlerOK
<1>3. ASSUME NEW ok \in BOOLEAN, Return(ok)
      PROVE  job'.pc \in {"idle", "orphans"} /\ job'.caller = "none"
  <2>1. ReturnTo(job.caller, job.block, job.queue, ok) BY <1>3 DEF Return
  <2>2. mapOrphanBlocks \in SUBSET NonGenesis /\ JobType BY DEF TypeInv, TypeOK, MemoryType
  <2>3. job.block \in Block BY <1>1
  <2> QED BY <1>2, <2>1, <2>2, <2>3, ReturnToInv
<1>4. SetBestGenesis \/ ExtendBest \/ SecondariesDone => Return(TRUE)
  BY DEF SetBestGenesis, ExtendBest, SecondariesDone, NewBest
<1>5. ExtendBestFails \/ ReorganizeFails => Return(FALSE)
  BY DEF ExtendBestFails, ReorganizeFails
<1>6. Return(TRUE) => Returns(TRUE) BY <1>1, <1>3 DEF Returns
<1>7. Return(FALSE) => Returns(FALSE) BY <1>1, <1>3 DEF Returns
<1> QED BY <1>4, <1>5, <1>6, <1>7

(* A block enters the index: SetBestChain is called with it, or it has no  *)
(* more work than the best.                                                *)
LEMMA EntryFirstRun ==
    ASSUME TypeInv, ChainInv, FirstRunInv, NEW b \in NonGenesis,
           ProcessBlock(b) \/ ProcessOrphan(b)
    PROVE  FirstRunInv'
<1> USE DEF TypeInv, TypeOK
<1>1. /\ node = "up" /\ node' = "up" /\ job.pc \in {"idle", "orphans"}
      /\ pindexBest' = pindexBest /\ b \in Block
  <2>1. b \in Block BY DEF NonGenesis
  <2>2. CASE ProcessBlock(b) BY <2>1, <2>2 DEF ProcessBlock, Ready, Idle
  <2>3. CASE ProcessOrphan(b) BY <2>1, <2>3 DEF ProcessOrphan, Running
  <2> QED BY <2>2, <2>3
<1>2. pindexBest # Null /\ mapBlockIndex = txdb.blockindex
  BY <1>1 DEF ChainInv, MemoryOK
<1>3. mapOrphanBlocks \in SUBSET NonGenesis /\ JobType BY DEF MemoryType
<1>4. \A c \in known : ValidChain[c] => bnChainWork[c] <= bnChainWork[pindexBest]
  BY <1>1, <1>2 DEF FirstRunInv, MostWorkOK, Waiting
<1>5. ASSUME NEW caller \in {"ProcessBlock", "orphan"}, NEW queue \in Seq(Block),
             NEW ok \in BOOLEAN, caller = "orphan" => queue # << >>,
             ReturnTo(caller, b, queue, ok)
      PROVE  job'.pc \in {"idle", "orphans"} /\ job'.caller = "none"
  BY <1>1, <1>3, <1>5, ReturnToInv
<1>6. CASE /\ job'.pc = "setbest" /\ job'.block = b /\ job'.caller # "LoadBlockIndex"
           /\ known' = known \cup {b}
  BY <1>1, <1>4, <1>6 DEF FirstRunInv, MostWorkOK, Waiting
<1>7. CASE /\ job'.pc \in {"idle", "orphans"} /\ job'.caller = "none"
           /\ known' = known \/ (known' = known \cup {b} /\ ~MoreWork(b))
  <2>1. pindexBest \in Block BY <1>2 DEF MemoryType
  <2>2. ~MoreWork(b) => bnChainWork[b] <= bnChainWork[pindexBest]
    BY <1>1, <2>1, WorkGrows DEF MoreWork
  <2> QED BY <1>1, <1>4, <1>7, <2>2 DEF FirstRunInv, MostWorkOK, Waiting
<1>8. CASE ProcessBlock(b)
  <2>1. /\ b \notin DOMAIN mapBlockIndex /\ hashPrevBlock[b] \in known
        /\ AddToBlockIndex("ProcessBlock", b, << >>)
    BY <1>2, <1>8 DEF ProcessBlock, NewBlock, known
  <2>2. << >> \in Seq(Block) /\ Queued(<< >>) \subseteq known BY DEF Queued
  <2>3. /\ known' = known \cup {b}
        /\ \/ job'.pc = "setbest" /\ job'.caller = "ProcessBlock" /\ job'.block = b
           \/ ~MoreWork(b) /\ ReturnTo("ProcessBlock", b, << >>, TRUE)
    BY <1>1, <2>1, <2>2, NewEntryInv
  <2>4. CASE ReturnTo("ProcessBlock", b, << >>, TRUE)
    <3>1. job'.pc \in {"idle", "orphans"} /\ job'.caller = "none" BY <1>5, <2>2, <2>4
    <3> QED BY <1>6, <1>7, <2>3, <3>1
  <2> QED BY <1>6, <2>3, <2>4
<1>9. CASE ProcessOrphan(b)
  <2>1. job.queue \in Seq(Block) /\ job.queue # << >>
    BY <1>9 DEF ProcessOrphan, JobType, HandlerOK
  <2>2. \/ known' = known /\ ReturnTo("orphan", b, job.queue, FALSE)
        \/ /\ known' = known \cup {b}
           /\ job'.pc = "setbest" /\ job'.caller = "orphan" /\ job'.block = b
        \/ known' = known \cup {b} /\ ~MoreWork(b) /\ ReturnTo("orphan", b, job.queue, TRUE)
    BY <1>9, ProcessOrphanChainInv
  <2>3. ASSUME NEW ok \in BOOLEAN, ReturnTo("orphan", b, job.queue, ok)
        PROVE  job'.pc \in {"idle", "orphans"} /\ job'.caller = "none"
    BY <1>5, <2>1, <2>3
  <2>4. CASE known' = known /\ ReturnTo("orphan", b, job.queue, FALSE)
    <3>1. FALSE \in BOOLEAN OBVIOUS
    <3>2. job'.pc \in {"idle", "orphans"} /\ job'.caller = "none" BY <2>3, <2>4, <3>1, Zenon
    <3> QED BY <1>7, <2>4, <3>2
  <2>5. CASE /\ known' = known \cup {b} /\ ~MoreWork(b)
             /\ ReturnTo("orphan", b, job.queue, TRUE)
    BY <1>7, <2>3, <2>5
  <2> QED BY <1>6, <2>2, <2>4, <2>5
<1> QED BY <1>8, <1>9

LEMMA ReturnsFirstRun ==
    ASSUME NoRepeats, TypeInv, WalkOK, WorkOK, ChainInv, FirstRunInv,
           SetBestGenesis \/ ExtendBest \/ ExtendBestFails \/ ReorganizeFails \/ SecondariesDone
    PROVE  FirstRunInv'
<1> USE DEF TypeInv, TypeOK
<1>1. /\ node = "up" /\ node' = "up" /\ job.pc \notin {"idle", "orphans"}
      /\ job.block \in Block /\ job'.pc \in {"idle", "orphans"} /\ job'.caller = "none"
  BY HandlerReturns DEF Returns
<1>2. SUFFICES MostWorkOK'
  BY <1>1 DEF FirstRunInv
<1>3. known' = known
  <2>1. CASE SecondariesDone BY <2>1, SecondaryChainInv
  <2>2. CASE ReorganizeFails BY <2>2, EndChainInv
  <2>3. CASE SetBestGenesis \/ ExtendBest \/ ExtendBestFails BY <2>3, SetBestChainInv
  <2> QED BY <2>1, <2>2, <2>3
<1>4. known \in SUBSET Block BY KnownIsClosed DEF ChainInv
<1>5. CASE SetBestGenesis
  <2>1. known = {Genesis} /\ pindexBest' = Genesis
    BY <1>1, <1>5 DEF SetBestGenesis, ChainInv, MemoryOK
  <2> QED BY <1>3, <2>1, WorkGrows, TreeAssumption DEF MostWorkOK
<1>6. CASE ExtendBest \/ SecondariesDone
  <2>1. pindexBest' = job.block /\ pindexBest # Null
    BY <1>1, <1>6 DEF ExtendBest, SecondariesDone, NewBest, Secondary, ChainInv, MemoryOK
  <2>2. pindexBest \in Block BY <2>1 DEF MemoryType
  <2>3. job.caller # "LoadBlockIndex" BY <2>1 DEF FirstRunInv
  <2>4. bnChainWork[job.block] > bnChainWork[pindexBest]
    BY <1>1, <2>1, <2>3 DEF WorkOK, MoreWork
  <2>5. \A c \in known \ {job.block} : ValidChain[c] => bnChainWork[c] <= bnChainWork[pindexBest]
    BY <1>1, <2>1 DEF FirstRunInv, MostWorkOK, Waiting
  <2>6. \A c \in known : ValidChain[c] => bnChainWork[c] <= bnChainWork[job.block]
    BY <1>1, <1>4, <2>2, <2>4, <2>5, WorkGrows
  <2> QED BY <1>3, <2>1, <2>6 DEF MostWorkOK
<1>7. CASE ExtendBestFails \/ ReorganizeFails
  <2>1. pindexBest' = pindexBest BY <1>7 DEF ExtendBestFails, ReorganizeFails
  <2>2. ~ValidChain[job.block] BY <1>7, RefusedIsInvalid
  <2>3. pindexBest # Null =>
           \A c \in known \ {job.block} :
              ValidChain[c] => bnChainWork[c] <= bnChainWork[pindexBest]
    BY <1>1 DEF FirstRunInv, MostWorkOK, Waiting
  <2> QED BY <1>1, <1>3, <2>1, <2>2, <2>3 DEF MostWorkOK
<1> QED BY <1>5, <1>6, <1>7

LEMMA FirstRunStep ==
    ASSUME NoRepeats, TypeInv, DownOK, WalkOK, WorkOK, ChainInv, FirstRunInv, Next, ~Crash
    PROVE  FirstRunInv'
<1> USE DEF TypeInv, TypeOK
<1>1. Idle.pc = "idle" /\ Idle.caller = "none" BY DEF Idle
<1>2. CASE StartFresh
  <2>1. /\ node' = "up" /\ pindexBest' = pindexBest /\ pindexBest = Null
        /\ AddToBlockIndex("LoadBlockIndex", Genesis, << >>)
    BY <1>2 DEF StartFresh, DownOK
  <2>2. job' = [Idle EXCEPT !.pc = "setbest", !.caller = "LoadBlockIndex",
                            !.block = Genesis, !.queue = << >>]
    BY <2>1 DEF AddToBlockIndex, MoreWork
  <2>3. job'.pc = "setbest" BY <2>2 DEF Idle
  <2> QED BY <2>1, <2>3 DEF FirstRunInv, MostWorkOK
<1>3. CASE Start
  <2>1. node = "down" /\ tip # Null BY <1>3 DEF Start, tip
  <2>2. tip \in known /\ known = {} BY <2>1 DEF ChainInv, CommittedOK, FirstRunInv
  <2> QED BY <2>2
<1>4. CASE \E b \in NonGenesis : ProcessBlock(b) \/ ProcessOrphan(b) BY <1>4, EntryFirstRun
<1>5. CASE \/ \E b \in NonGenesis : HoldOrphan(b)
           \/ \E t \in Tx : AcceptToMemoryPool(t) \/ ReacceptWalletTransaction(t)
  <2>1. node' = node /\ job' = job /\ txdb' = txdb /\ pindexBest' = pindexBest
    BY <1>5 DEF HoldOrphan, AcceptToMemoryPool, ReacceptWalletTransaction
  <2> QED BY <1>1, <2>1 DEF FirstRunInv, MostWorkOK, Waiting, known
<1>6. CASE OrphansDone
  <2>1. /\ node' = node /\ job.pc = "orphans" /\ txdb' = txdb /\ pindexBest' = pindexBest
        /\ job' = Idle \/ job' = [job EXCEPT !.queue = Tail(@)]
    BY <1>6 DEF OrphansDone, memory
  <2>2. job'.pc \in {"idle", "orphans"} /\ job'.caller = "none"
    BY <1>1, <2>1 DEF JobType, ChainInv, TargetOK
  <2> QED BY <1>1, <2>1, <2>2 DEF FirstRunInv, MostWorkOK, Waiting, known
<1>7. CASE Branches \/ Postpone \/ BeginReorganize \/ Disconnect \/ Connect
  <2>1. /\ node' = node /\ txdb' = txdb /\ pindexBest' = pindexBest
        /\ job.pc \in {"setbest", "postpone", "reorganize"}
    BY <1>7 DEF Branches, Postpone, BeginReorganize, Disconnect, Connect, SettingBest,
       Postponing, Reorganizing, memory
  <2>2. /\ job'.pc \in {"postpone", "reorganize"} /\ job'.caller = job.caller
        /\ job'.block = job.block
    <3>1. CASE Branches BY <3>1 DEF Branches, JobType
    <3>2. CASE Postpone BY <3>2 DEF Postpone, Postponing, JobType
    <3>3. CASE BeginReorganize BY <3>3 DEF BeginReorganize, JobType
    <3>4. CASE Disconnect BY <3>4 DEF Disconnect, Reorganizing, JobType
    <3>5. CASE Connect BY <3>5 DEF Connect, Reorganizing, JobType
    <3> QED BY <1>7, <3>1, <3>2, <3>3, <3>4, <3>5
  <2> QED BY <2>1, <2>2 DEF FirstRunInv, MostWorkOK, Waiting, known
<1>8. CASE Commit
  <2>1. /\ job.pc = "reorganize" /\ node = "up" /\ node' = "up" /\ pindexBest \in Block
        /\ pindexBest # Null /\ pindexBest' = pindexBest
        /\ job.mid \in Ancestors[job.block] /\ job.block \in Block /\ job.at = job.mid
    BY <1>8, TreeAssumption DEF Commit, Reorganizing, Running, BranchOK, HandlerOK
  <2>2. known' = known BY <1>8, EndChainInv
  <2>3. /\ job'.pc = "secondary" /\ job'.at = job.at /\ job'.block = job.block
        /\ job'.caller = job.caller
    BY <1>8 DEF Commit, JobType
  <2>4. job.caller # "LoadBlockIndex" BY <2>1 DEF FirstRunInv
  <2>5. bnChainWork[job.mid] > bnChainWork[pindexBest]
    BY <2>1, <2>4 DEF ChainInv, TargetOK, MoreWork
  <2>6. ValidChain[job.mid] BY <2>1 DEF ChainInv, TransactionOK
  <2>7. job.mid \in known /\ job.mid \in Block
    BY <2>1, AncestorsType, KnownIsClosed DEF ChainInv, MemoryOK
  <2>8. job.mid = job.block
    <3> SUFFICES ASSUME job.mid # job.block PROVE FALSE
        OBVIOUS
    <3>1. bnChainWork[job.mid] <= bnChainWork[pindexBest]
      BY <2>1, <2>6, <2>7 DEF FirstRunInv, MostWorkOK, Waiting
    <3> QED BY <2>1, <2>5, <2>7, <3>1, WorkGrows
  <2> QED BY <2>1, <2>2, <2>3, <2>8 DEF FirstRunInv, MostWorkOK, Waiting
<1>9. CASE ConnectSecondary \/ ConnectSecondaryFails
  BY <1>9 DEF ConnectSecondary, ConnectSecondaryFails, Secondary, FirstRunInv
<1>10. CASE \/ SetBestGenesis \/ ExtendBest \/ ExtendBestFails \/ ReorganizeFails
            \/ SecondariesDone
  BY <1>10, ReturnsFirstRun
<1> QED BY <1>2, <1>3, <1>4, <1>5, <1>6, <1>7, <1>8, <1>9, <1>10 DEF Next, Step

LEMMA CrashesCount ==
    ASSUME TypeInv, [Next]_vars, crashes' = 0
    PROVE  crashes = 0 /\ ~Crash
<1>1. crashes \in 0..MaxCrash BY DEF TypeInv, TypeOK, MemoryType
<1>2. ~Crash BY <1>1, ChainAssumption DEF Crash
<1>3. crashes' = crashes
  BY <1>2 DEF vars, Next, Step, StartFresh, Start, HoldOrphan, ProcessBlock, AcceptToMemoryPool,
     ReacceptWalletTransaction, ProcessOrphan, OrphansDone, SetBestGenesis, ExtendBest,
     ExtendBestFails, Branches, Postpone, BeginReorganize, Disconnect, Connect,
     ReorganizeFails, Commit, ConnectSecondary, ConnectSecondaryFails, SecondariesDone
<1> QED BY <1>2, <1>3

LEMMA FirstRun ==
    ASSUME NoRepeats
    PROVE  Spec => [](/\ TypeInv /\ DownOK /\ WalkOK /\ WorkOK
                      /\ crashes = 0 => ChainInv /\ FirstRunInv)
<1> DEFINE Inv == /\ TypeInv /\ DownOK /\ WalkOK /\ WorkOK
                  /\ crashes = 0 => ChainInv /\ FirstRunInv
<1>1. Init => Inv
  <2> SUFFICES ASSUME Init PROVE Inv
      OBVIOUS
  <2>1. WalkOK BY DEF Init, Idle, WalkOK
  <2>2. FirstRunInv BY DEF Init, Idle, FirstRunInv, MostWorkOK, known
  <2> QED BY <2>1, <2>2, InitTypeInv, DownInv, InitChainInv
<1>2. Inv /\ [Next]_vars => Inv'
  <2> SUFFICES ASSUME Inv, [Next]_vars PROVE Inv'
      OBVIOUS
  <2>1. TypeInv' /\ DownOK' /\ WalkOK' BY TypeInvStep
  <2>2. WorkOK' BY WorkOKStep
  <2>3. ASSUME crashes' = 0 PROVE ChainInv' /\ FirstRunInv'
    <3>1. crashes = 0 /\ ~Crash BY <2>3, CrashesCount
    <3>2. ~ConnectSecondaryFails
      BY <3>1 DEF FirstRunInv, ConnectSecondaryFails, Secondary
    <3>3. ChainInv' BY <3>1, <3>2, ChainInvStep
    <3>4. CASE Next BY <3>1, <3>3, <3>4, FirstRunStep
    <3>5. CASE UNCHANGED vars
      BY <3>1, <3>3, <3>5 DEF vars, memory, FirstRunInv, MostWorkOK, Waiting, known
    <3> QED BY <3>4, <3>5
  <2> QED BY <2>1, <2>2, <2>3
<1> HIDE DEF Inv
<1>3. Spec => []Inv BY <1>1, <1>2, PTL DEF Spec
<1> QED BY <1>3 DEF Inv

(* Until the process first ends, no block of the index that ends a valid   *)
(* chain has more work than the best (main.cpp 1764, 1577).                *)
THEOREM MostWorkWinsAtFirst ==
    ASSUME NoRepeats
    PROVE  Spec => [](crashes = 0 => MostWorkWins)
<1>1. ChainInv /\ FirstRunInv => MostWorkWins
  BY DEF ChainInv, MemoryOK, FirstRunInv, MostWorkOK, Waiting, MostWorkWins, Ready, Idle, known
<1> QED BY <1>1, FirstRun, PTL

(* The hypothesis of the theorems above holds of a process that never ends *)
(* early, and wherever every block that reaches the index is valid.        *)
THEOREM PostponedBlocksConnect ==
    ASSUME NoRepeats, MaxCrash = 0 \/ \A b \in Block : ValidChain[b]
    PROVE  Spec => SecondariesConnect
<1>1. ASSUME MaxCrash = 0 PROVE Spec => SecondariesConnect
  <2>1. /\ TypeInv
        /\ crashes = 0 => ChainInv /\ FirstRunInv
        => ~ConnectSecondaryFails
    BY <1>1 DEF TypeInv, TypeOK, MemoryType, FirstRunInv, ConnectSecondaryFails, Secondary
  <2> QED BY <2>1, FirstRun, PTL DEF SecondariesConnect
<1>2. ASSUME \A b \in Block : ValidChain[b] PROVE Spec => SecondariesConnect
  <2> DEFINE Inv == TypeInv /\ DownOK /\ WalkOK /\ WorkOK /\ ChainInv
  <2>1. Inv => ~ConnectSecondaryFails
    <3> SUFFICES ASSUME Inv, ConnectSecondaryFails PROVE FALSE
        OBVIOUS
    <3> DEFINE next == NextOnBranch(job.at, job.block)
    <3>1. /\ job.pc = "secondary" /\ node = "up" /\ job.at \in Ancestors[job.block]
          /\ job.block \in Block /\ job.at # job.block /\ ~ConnectBlockOK(txdb.tx, next)
      BY DEF ConnectSecondaryFails, Secondary, Running, TypeInv, BranchOK, HandlerOK
    <3>2. next \in Ancestors[job.block] \ {Genesis} /\ hashPrevBlock[next] = job.at
      BY <3>1, NextOnBranchType
    <3>3. next \in NonGenesis /\ next \in Block BY <3>1, <3>2, AncestorsType DEF NonGenesis
    <3>4. tip = job.at /\ tip # Null
      BY <3>1, AncestorsType, TreeAssumption DEF ChainInv, MemoryOK
    <3>5. txdb.tx = TxIndexOf[job.at] BY <3>4 DEF ChainInv, CommittedOK
    <3> HIDE DEF next
    <3>6. ConnectBlockOK(TxIndexOf[job.at], next) BY <1>2, <3>2, <3>3, ValidUnfold
    <3> QED BY <3>1, <3>5, <3>6
  <2>2. Init => Inv
    <3>1. Init => WalkOK BY DEF Init, Idle, WalkOK
    <3> QED BY <3>1, InitTypeInv, DownInv, InitChainInv
  <2>3. Inv /\ [Next]_vars => Inv'
    BY <2>1, TypeInvStep, WorkOKStep, ChainInvStep
  <2> HIDE DEF Inv
  <2> QED BY <2>1, <2>2, <2>3, PTL DEF Spec, SecondariesConnect
<1> QED BY <1>1, <1>2

(***************************************************************************)
(* No orphan is left behind                                                *)
(***************************************************************************)
InProgress(b) ==
    job.pc \notin {"idle", "orphans"} /\ job.caller = "orphan" /\ b = job.block

(* An orphan is in the index only while ProcessBlock works on it, and one  *)
(* whose predecessor has been indexed is what ProcessBlock works on or is  *)
(* found when the predecessor's turn in the work queue comes.              *)
OrphansOK ==
    /\ node = "down" \/ job.caller = "LoadBlockIndex" => mapOrphanBlocks = {}
    /\ \A b \in mapOrphanBlocks \cap known : InProgress(b)
    /\ \A b \in mapOrphanBlocks :
          hashPrevBlock[b] \in known =>
             \/ ~ValidChain[hashPrevBlock[b]]
             \/ hashPrevBlock[b] \in Queued(job.queue) \cup Waiting
             \/ InProgress(b)

LEMMA EntryOrphansOK ==
    ASSUME TypeInv, ChainInv, OrphansOK, NEW b \in NonGenesis,
           ProcessBlock(b) \/ ProcessOrphan(b)
    PROVE  OrphansOK'
<1> USE DEF TypeInv, TypeOK
<1>1. /\ node = "up" /\ node' = "up" /\ job.pc \in {"idle", "orphans"} /\ b \in Block
  <2>1. b \in Block BY DEF NonGenesis
  <2>2. CASE ProcessBlock(b) BY <2>1, <2>2 DEF ProcessBlock, Ready, Idle
  <2>3. CASE ProcessOrphan(b) BY <2>1, <2>3 DEF ProcessOrphan, Running
  <2> QED BY <2>2, <2>3
<1>2. mapBlockIndex = txdb.blockindex BY <1>1 DEF ChainInv, MemoryOK
<1>3. mapOrphanBlocks \in SUBSET NonGenesis /\ JobType BY DEF MemoryType
<1>4. \A c \in mapOrphanBlocks :
         /\ c \notin known
         /\ hashPrevBlock[c] \in known =>
               ~ValidChain[hashPrevBlock[c]] \/ hashPrevBlock[c] \in Queued(job.queue)
  BY <1>1 DEF OrphansOK, InProgress, Waiting
<1>5. ASSUME NEW caller \in {"ProcessBlock", "orphan"}, NEW queue \in Seq(Block),
             NEW ok \in BOOLEAN, caller = "orphan" => queue # << >>,
             ReturnTo(caller, b, queue, ok)
      PROVE  /\ job'.pc \in {"idle", "orphans"} /\ job'.caller = "none"
             /\ ok = TRUE => Queued(job'.queue) = Queued(queue) \cup {b}
             /\ ok = FALSE => Queued(job'.queue) = Queued(queue)
             /\ mapOrphanBlocks' = IF caller = "orphan" THEN mapOrphanBlocks \ {b}
                                   ELSE mapOrphanBlocks
  <2>1. /\ caller \in {"ProcessBlock", "orphan", "LoadBlockIndex"}
        /\ caller # "LoadBlockIndex"
    OBVIOUS
  <2>2. job'.pc \in {"idle", "orphans"} /\ job'.caller = "none"
    BY <1>1, <1>3, <1>5, ReturnToInv
  <2>3. /\ caller # "LoadBlockIndex" /\ ok = TRUE => Queued(job'.queue) = Queued(queue) \cup {b}
        /\ caller # "LoadBlockIndex" /\ ok = FALSE => Queued(job'.queue) = Queued(queue)
        /\ mapOrphanBlocks' = IF caller = "orphan" THEN mapOrphanBlocks \ {b}
                              ELSE mapOrphanBlocks
    <3>1. CASE ok = TRUE BY <1>1, <1>5, <2>1, <3>1, ReturnToQueue
    <3>2. CASE ok = FALSE BY <1>1, <1>5, <2>1, <3>2, ReturnToQueue
    <3> QED BY <3>1, <3>2
  <2> QED BY <2>1, <2>2, <2>3
<1>6. CASE /\ known' = known \cup {b} /\ mapOrphanBlocks' = mapOrphanBlocks
           /\ job'.pc = "setbest" /\ job'.block = b /\ job'.caller # "LoadBlockIndex"
           /\ Queued(job'.queue) = Queued(job.queue)
           /\ job'.caller = "orphan" \/ b \notin mapOrphanBlocks
  BY <1>1, <1>4, <1>6 DEF OrphansOK, InProgress, Waiting
<1>7. CASE /\ known' = known \cup {b} /\ mapOrphanBlocks' = mapOrphanBlocks \ {b}
           /\ job'.pc \in {"idle", "orphans"} /\ job'.caller = "none"
           /\ Queued(job'.queue) = Queued(job.queue) \cup {b}
  BY <1>1, <1>4, <1>7 DEF OrphansOK
<1>8. CASE /\ known' = known /\ mapOrphanBlocks' = mapOrphanBlocks \ {b}
           /\ job'.pc \in {"idle", "orphans"} /\ job'.caller = "none"
           /\ Queued(job'.queue) = Queued(job.queue)
  BY <1>1, <1>4, <1>8 DEF OrphansOK
<1>9. CASE ProcessBlock(b)
  <2>1. /\ b \notin DOMAIN mapBlockIndex /\ b \notin mapOrphanBlocks
        /\ hashPrevBlock[b] \in known /\ job = Idle
        /\ AddToBlockIndex("ProcessBlock", b, << >>) /\ pindexBest' = pindexBest
    BY <1>2, <1>9 DEF ProcessBlock, NewBlock, Ready, known
  <2>2. << >> \in Seq(Block) /\ Queued(<< >>) = {} BY DEF Queued
  <2>3. Queued(job.queue) = {} BY <2>1, <2>2 DEF Idle
  <2>4. /\ known' = known \cup {b}
        /\ \/ /\ job'.pc = "setbest" /\ job'.caller = "ProcessBlock" /\ job'.block = b
              /\ job'.queue = << >> /\ mapOrphanBlocks' = mapOrphanBlocks
           \/ ReturnTo("ProcessBlock", b, << >>, TRUE)
    BY <1>1, <2>1, <2>2, NewEntryInv
  <2>5. CASE ReturnTo("ProcessBlock", b, << >>, TRUE)
    <3>1. /\ job'.pc \in {"idle", "orphans"} /\ job'.caller = "none"
          /\ Queued(job'.queue) = {b} /\ mapOrphanBlocks' = mapOrphanBlocks
      BY <1>5, <2>2, <2>5
    <3>2. mapOrphanBlocks' = mapOrphanBlocks \ {b} BY <2>1, <3>1
    <3> QED BY <1>7, <2>3, <2>4, <3>1, <3>2
  <2> QED BY <1>6, <2>1, <2>2, <2>3, <2>4, <2>5
<1>10. CASE ProcessOrphan(b)
  <2>1. job.queue \in Seq(Block) /\ job.queue # << >>
    BY <1>10 DEF ProcessOrphan, JobType, HandlerOK
  <2>2. \/ known' = known /\ ReturnTo("orphan", b, job.queue, FALSE)
        \/ /\ known' = known \cup {b} /\ mapOrphanBlocks' = mapOrphanBlocks
           /\ job'.pc = "setbest" /\ job'.caller = "orphan" /\ job'.block = b
           /\ job'.queue = job.queue
        \/ known' = known \cup {b} /\ ReturnTo("orphan", b, job.queue, TRUE)
    BY <1>10, ProcessOrphanChainInv
  <2>3. ASSUME NEW ok \in BOOLEAN, ReturnTo("orphan", b, job.queue, ok)
        PROVE  /\ job'.pc \in {"idle", "orphans"} /\ job'.caller = "none"
               /\ ok = TRUE => Queued(job'.queue) = Queued(job.queue) \cup {b}
               /\ ok = FALSE => Queued(job'.queue) = Queued(job.queue)
               /\ mapOrphanBlocks' = mapOrphanBlocks \ {b}
    BY <1>5, <2>1, <2>3
  <2>4. CASE known' = known /\ ReturnTo("orphan", b, job.queue, FALSE)
    BY <1>8, <2>3, <2>4
  <2>5. CASE known' = known \cup {b} /\ ReturnTo("orphan", b, job.queue, TRUE)
    BY <1>7, <2>3, <2>5
  <2> QED BY <1>6, <2>2, <2>4, <2>5
<1> QED BY <1>9, <1>10

LEMMA ReturnsOrphansOK ==
    ASSUME NoRepeats, TypeInv, WalkOK, ChainInv, OrphansOK,
           SetBestGenesis \/ ExtendBest \/ ExtendBestFails \/ ReorganizeFails \/ SecondariesDone
    PROVE  OrphansOK'
<1> USE DEF TypeInv, TypeOK
<1>1. known' = known
  <2>1. CASE SecondariesDone BY <2>1, SecondaryChainInv
  <2>2. CASE ReorganizeFails BY <2>2, EndChainInv
  <2>3. CASE SetBestGenesis \/ ExtendBest \/ ExtendBestFails BY <2>3, SetBestChainInv
  <2> QED BY <2>1, <2>2, <2>3
<1>2. PICK ok \in BOOLEAN : Returns(ok) /\ (ok = TRUE \/ ~ValidChain[job.block])
  <2>1. CASE SetBestGenesis \/ ExtendBest \/ SecondariesDone
    <3>1. Returns(TRUE) BY <2>1, HandlerReturns
    <3> QED BY <3>1
  <2>2. CASE ExtendBestFails \/ ReorganizeFails
    <3>1. Returns(FALSE) /\ ~ValidChain[job.block] BY <2>2, HandlerReturns, RefusedIsInvalid
    <3> QED BY <3>1
  <2> QED BY <2>1, <2>2
<1>3. /\ node = "up" /\ node' = "up" /\ job.pc \notin {"idle", "orphans"}
      /\ job'.pc \in {"idle", "orphans"} /\ job'.caller = "none"
  BY <1>2 DEF Returns
<1>4. /\ job.caller \in {"ProcessBlock", "orphan", "LoadBlockIndex"}
      /\ job.queue \in Seq(Block) /\ job.block \in Block
  BY <1>3 DEF JobType, HandlerOK
<1>5. ReturnTo(job.caller, job.block, job.queue, ok) BY <1>2 DEF Returns, Return
<1>6. mapOrphanBlocks' = IF job.caller = "orphan" THEN mapOrphanBlocks \ {job.block}
                         ELSE mapOrphanBlocks
  <2>1. CASE ok = TRUE BY <1>4, <1>5, <2>1, ReturnToQueue
  <2>2. CASE ok = FALSE BY <1>4, <1>5, <2>2, ReturnToQueue
  <2> QED BY <2>1, <2>2
<1>7. /\ job.caller # "LoadBlockIndex" /\ ok = TRUE =>
            Queued(job'.queue) = Queued(job.queue) \cup {job.block}
      /\ job.caller # "LoadBlockIndex" /\ ok = FALSE => Queued(job'.queue) = Queued(job.queue)
  <2>1. CASE ok = TRUE BY <1>4, <1>5, <2>1, ReturnToQueue
  <2>2. CASE ok = FALSE BY <1>4, <1>5, <2>2, ReturnToQueue
  <2> QED BY <2>1, <2>2
<1>8. Waiting = {job.block} BY <1>3 DEF Waiting
<1>9. CASE job.caller = "LoadBlockIndex"
  BY <1>3, <1>6, <1>9 DEF OrphansOK
<1>10. CASE job.caller # "LoadBlockIndex"
  <2>1. \A b \in mapOrphanBlocks' : b \in mapOrphanBlocks /\ ~InProgress(b)
    BY <1>6 DEF InProgress
  <2>2. \A b \in mapOrphanBlocks' :
           /\ b \notin known
           /\ hashPrevBlock[b] \in known =>
                 \/ ~ValidChain[hashPrevBlock[b]]
                 \/ hashPrevBlock[b] \in Queued(job.queue) \cup {job.block}
    BY <1>8, <2>1 DEF OrphansOK
  <2>3. \A b \in mapOrphanBlocks' :
           hashPrevBlock[b] \in known =>
              ~ValidChain[hashPrevBlock[b]] \/ hashPrevBlock[b] \in Queued(job'.queue)
    BY <1>2, <1>7, <1>10, <2>2
  <2> QED BY <1>1, <1>3, <2>2, <2>3 DEF OrphansOK
<1> QED BY <1>9, <1>10

LEMMA OrphansStep ==
    ASSUME NoRepeats, TypeInv, DownOK, WalkOK, WorkOK, ChainInv, OrphansOK,
           [Next /\ ~ConnectSecondaryFails]_vars
    PROVE  OrphansOK'
<1> USE DEF TypeInv, TypeOK
<1>1. Idle.pc = "idle" /\ Idle.caller = "none" /\ Queued(Idle.queue) = {}
  BY DEF Idle, Queued
<1>2. CASE StartFresh
  <2>1. /\ node = "down" /\ pindexBest = Null
        /\ AddToBlockIndex("LoadBlockIndex", Genesis, << >>)
    BY <1>2 DEF StartFresh, DownOK
  <2>2. mapOrphanBlocks' = mapOrphanBlocks BY <2>1 DEF AddToBlockIndex, MoreWork
  <2> QED BY <2>1, <2>2 DEF OrphansOK
<1>3. CASE Start \/ Crash
  <2>1. mapOrphanBlocks' = {} BY <1>3 DEF Start, Crash, LoseMemory, OrphansOK
  <2> QED BY <2>1 DEF OrphansOK
<1>4. CASE \E b \in NonGenesis : ProcessBlock(b) \/ ProcessOrphan(b) BY <1>4, EntryOrphansOK
<1>5. CASE \E b \in NonGenesis : HoldOrphan(b)
  <2>1. PICK b \in NonGenesis : HoldOrphan(b) BY <1>5
  <2>2. /\ node = "up" /\ node' = node /\ job = Idle /\ job' = Idle /\ txdb' = txdb
        /\ mapOrphanBlocks' = mapOrphanBlocks \cup {b}
        /\ b \notin DOMAIN mapBlockIndex /\ hashPrevBlock[b] \notin DOMAIN mapBlockIndex
    BY <2>1 DEF HoldOrphan, NewBlock, Ready
  <2>3. b \notin known /\ hashPrevBlock[b] \notin known
    BY <2>2 DEF ChainInv, MemoryOK, known
  <2> QED BY <1>1, <2>2, <2>3 DEF OrphansOK, InProgress, Waiting, known
<1>6. CASE \E t \in Tx : AcceptToMemoryPool(t) \/ ReacceptWalletTransaction(t)
  <2>1. node' = node /\ job' = job /\ txdb' = txdb /\ mapOrphanBlocks' = mapOrphanBlocks
    BY <1>6 DEF AcceptToMemoryPool, ReacceptWalletTransaction
  <2> QED BY <2>1 DEF OrphansOK, InProgress, Waiting, known
<1>7. CASE OrphansDone
  <2>1. /\ node = "up" /\ node' = node /\ job.pc = "orphans" /\ txdb' = txdb
        /\ mapOrphanBlocks' = mapOrphanBlocks
        /\ \A b \in mapOrphanBlocks : hashPrevBlock[b] # Head(job.queue)
        /\ job' = IF Len(job.queue) = 1 THEN Idle ELSE [job EXCEPT !.queue = Tail(@)]
    BY <1>7 DEF OrphansDone, Running, memory
  <2>2. job.queue \in Seq(Block) /\ job.queue # << >> /\ job.caller = "none"
    BY <2>1 DEF JobType, HandlerOK, ChainInv, TargetOK
  <2>3. \A i \in DOMAIN job.queue :
           \/ job.queue[i] = Head(job.queue)
           \/ /\ Len(job.queue) # 1 /\ i - 1 \in DOMAIN Tail(job.queue)
              /\ Tail(job.queue)[i - 1] = job.queue[i]
    BY <2>2
  <2>4. job'.pc \in {"idle", "orphans"} /\ job'.caller = "none"
    BY <1>1, <2>1, <2>2 DEF JobType
  <2>5. Queued(job.queue) \ {Head(job.queue)} \subseteq Queued(job'.queue)
    <3>1. CASE Len(job.queue) = 1 BY <2>3, <3>1 DEF Queued
    <3>2. CASE Len(job.queue) # 1
      <4>1. job'.queue = Tail(job.queue) BY <2>1, <3>2 DEF JobType
      <4> QED BY <2>3, <4>1 DEF Queued
    <3> QED BY <3>1, <3>2
  <2>6. \A b \in mapOrphanBlocks :
           /\ b \notin known
           /\ hashPrevBlock[b] \in known =>
                 ~ValidChain[hashPrevBlock[b]] \/ hashPrevBlock[b] \in Queued(job'.queue)
    BY <2>1, <2>5 DEF OrphansOK, InProgress, Waiting
  <2> QED BY <2>1, <2>4, <2>6 DEF OrphansOK, known
<1>8. CASE \/ Branches \/ Postpone \/ BeginReorganize \/ Disconnect \/ Connect \/ Commit
           \/ ConnectSecondary
  <2>1. /\ node = "up" /\ node' = node /\ mapOrphanBlocks' = mapOrphanBlocks
        /\ job.pc \in {"setbest", "postpone", "reorganize", "secondary"}
    BY <1>8 DEF Branches, Postpone, BeginReorganize, Disconnect, Connect, Commit,
       ConnectSecondary, SettingBest, Postponing, Reorganizing, Secondary, Running, memory
  <2>2. /\ job'.pc \in {"postpone", "reorganize", "secondary"} /\ job'.caller = job.caller
        /\ job'.block = job.block /\ job'.queue = job.queue
    <3>1. CASE Branches BY <3>1 DEF Branches, JobType
    <3>2. CASE Postpone BY <3>2 DEF Postpone, Postponing, JobType
    <3>3. CASE BeginReorganize BY <3>3 DEF BeginReorganize, JobType
    <3>4. CASE Disconnect BY <3>4 DEF Disconnect, Reorganizing, JobType
    <3>5. CASE Connect BY <3>5 DEF Connect, Reorganizing, JobType
    <3>6. CASE Commit BY <3>6 DEF Commit, JobType
    <3>7. CASE ConnectSecondary BY <3>7 DEF ConnectSecondary, Secondary, JobType
    <3> QED BY <1>8, <3>1, <3>2, <3>3, <3>4, <3>5, <3>6, <3>7
  <2>3. known' = known
    <3>1. CASE Branches \/ Postpone \/ BeginReorganize
      BY <3>1 DEF Branches, Postpone, BeginReorganize, known
    <3>2. CASE Disconnect \/ Connect \/ Commit BY <3>2, WalkChainInv, EndChainInv
    <3>3. CASE ConnectSecondary BY <3>3, SecondaryChainInv
    <3> QED BY <1>8, <3>1, <3>2, <3>3
  <2> QED BY <2>1, <2>2, <2>3 DEF OrphansOK, InProgress, Waiting
<1>9. CASE \/ SetBestGenesis \/ ExtendBest \/ ExtendBestFails \/ ReorganizeFails
           \/ SecondariesDone
  BY <1>9, ReturnsOrphansOK
<1>10. CASE UNCHANGED vars
  BY <1>10 DEF vars, memory, OrphansOK, InProgress, Waiting, known
<1> QED BY <1>2, <1>3, <1>4, <1>5, <1>6, <1>7, <1>8, <1>9, <1>10 DEF Next, Step

(* Between handlers, no orphan waits for a block that is in the index at   *)
(* the end of a valid chain (main.cpp 1924, 1949).                         *)
THEOREM ValidOrphansGoIn ==
    ASSUME NoRepeats
    PROVE  Spec /\ SecondariesConnect => []ValidOrphansAccepted
<1> DEFINE Inv == TypeInv /\ DownOK /\ WalkOK /\ WorkOK /\ ChainInv
<1>1. Init => OrphansOK BY DEF Init, OrphansOK
<1>2. Inv /\ OrphansOK /\ [Next]_vars /\ [~ConnectSecondaryFails]_vars => OrphansOK'
  BY OrphansStep
<1>3. ChainInv /\ OrphansOK => ValidOrphansAccepted
  <2> SUFFICES ASSUME ChainInv, OrphansOK, Ready PROVE ValidOrphansAccepted
      BY DEF ValidOrphansAccepted
  <2>1. job.pc = "idle" /\ Queued(job.queue) = {} /\ mapBlockIndex = txdb.blockindex
    BY DEF Ready, Idle, Queued, ChainInv, MemoryOK
  <2> QED BY <2>1 DEF OrphansOK, InProgress, Waiting, ValidOrphansAccepted, known
<1>4. Spec /\ SecondariesConnect => []Inv BY ChainInvariant
<1>5. Inv => ChainInv OBVIOUS
<1> HIDE DEF Inv
<1> QED BY <1>1, <1>2, <1>3, <1>4, <1>5, PTL DEF Spec, SecondariesConnect
=============================================================================
