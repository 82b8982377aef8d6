------------------------------- MODULE Wallet -------------------------------
(***************************************************************************)
(* The wallet's transactions, mapWallet and wallet.dat, beside the chain   *)
(* and the memory pool (src/src/wallet.cpp, wallet.h, init.cpp): what it   *)
(* learns from blocks while they are being connected, from relayed         *)
(* transactions and by sending, and how a start brings it up to date.      *)
(*                                                                         *)
(* cs_wallet is held for one transaction at a time, until the change it    *)
(* makes is written record by record, and throughout a scan.  The          *)
(* transaction index is the one the chain determines (invariant            *)
(* IndexDescribesChain of BlockChain).  That a handler and Reaccept may    *)
(* both let conflicting transactions into the pool is in BlockChain; here, *)
(* where the pool decides nothing the wallet knows, accept is one step.    *)
(***************************************************************************)
EXTENDS Mempool

CONSTANTS
  Mine,            \* the outputs paid to the wallet's keys, each of nMinimumInputValue
  Sendable,        \* transactions this wallet may make; all others are made elsewhere
  MaturityMargin,  \* the 20 of GetBlocksToMaturity
  COPY_DEPTH,
  FirstBest        \* the locator wallet.dat begins with: Genesis', or Null in a new file

ASSUME WalletAssumption ==
  /\ Null \notin Tx /\ Null \notin [pindex : Block, n : Nat, fUpdate : BOOLEAN, ret : BOOLEAN]
  /\ Sendable \subseteq Tx
  /\ Mine \subseteq OutPoint /\ \A o \in Mine : o.n < vout[o.hash]
  /\ MaturityMargin \in Nat /\ COPY_DEPTH \in Nat
  /\ FirstBest \in {Genesis, Null}

VARIABLES
  best,       \* pindexBest, as committed
  pool,
  mapWallet,  \* hashBlock, the outputs vfSpent marks, vtxPrev with its hashBlocks
  disk,       \* the "tx" records of wallet.dat
  bestblock,  \* the block of its "bestblock" locator, or Null
  backup,     \* a copy of the two
  writing,    \* the transaction whose record is to be written first, or Null
  marking,    \* those whose records are to be written after it
  pc,         \* what cs_main is held for: "idle", "chain", "locate", "commit"; or "down"
  target, at, \* SetBestChain's pindexNew and the block it has connected last
  told,       \* how many of the transactions of at the wallet has been told
  scan,       \* ScanForWalletTransactions: pindex, those told of it, fUpdate, ret; or Null
  sending,    \* CommitTransaction's wtxNew
  reaccepted, \* ReacceptWalletTransactions is done
  sent,       \* history: what the wallet has made
  givenUp     \* history: blocks its records may name though it was told nothing after

chain == <<best, target, at, told>>
file == <<disk, bestblock, backup>>
history == <<sent, givenUp>>
vars == <<best, pool, mapWallet, disk, bestblock, backup, writing, marking, pc, target,
          at, told, scan, sending, reaccepted, sent, givenUp>>

Init ==
  /\ best = Genesis /\ pool = EmptyPool
  /\ mapWallet = << >> /\ disk = << >> /\ bestblock = FirstBest
  /\ backup = [disk |-> << >>, bestblock |-> FirstBest]
  /\ writing = Null /\ marking = {} /\ scan = Null
  /\ pc = "idle" /\ target = Null /\ at = Null /\ told = 0
  /\ sending = Null /\ reaccepted = TRUE /\ sent = {} /\ givenUp = {}

-----------------------------------------------------------------------------
(* CMerkleTx::GetDepthInMainChain                                          *)
GetDepthInMainChain(hashBlock) ==
  IF hashBlock # Null /\ hashBlock \in Ancestors[best]
  THEN nHeight[best] - nHeight[hashBlock] + 1 ELSE 0

IsMine(t) == \E o \in Mine : o.hash = t

IsFromMe(w, t) == \E o \in vin[t] \cap Mine : o.hash \in DOMAIN w

Written == writing = Null /\ marking = {}
Free == scan = Null /\ Written    \* nobody holds cs_wallet

MarkSpent(w, coins) ==
  [h \in DOMAIN w |-> [w[h] EXCEPT !.spent = @ \cup {o.n : o \in {x \in coins : x.hash = h}}]]

Hashes(coins) == {o.hash : o \in coins}

(* What a call makes of the wallet w and which records it writes.          *)
WalletUpdateSpent(w, t, fWrite) ==
  LET found == {o \in vin[t] \cap Mine : o.hash \in DOMAIN w /\ o.n \notin w[o.hash].spent}
  IN  [w |-> MarkSpent(w, found), first |-> IF fWrite THEN t ELSE Null, then |-> Hashes(found)]

(* AddToWallet: insert or merge, write when that changed something, then   *)
(* look for coins it spends.                                               *)
AddToWallet(w, t, wtxIn) ==
  LET fExisted == t \in DOMAIN w
      fUpdated == fExisted /\ wtxIn.hashBlock \notin {Null, w[t].hashBlock}
      wtx == IF ~fExisted THEN wtxIn
             ELSE IF fUpdated THEN [w[t] EXCEPT !.hashBlock = wtxIn.hashBlock] ELSE w[t]
  IN  WalletUpdateSpent([h \in DOMAIN w \cup {t} |-> IF h = t THEN wtx ELSE w[h]],
                        t, fExisted => fUpdated)

(* AddToWalletIfInvolvingMe for a transaction of block b, or Null.         *)
AddToWalletIfInvolvingMe(w, t, b, fUpdate) ==
  LET fExisted == t \in DOMAIN w IN
    IF fExisted /\ ~fUpdate THEN [w |-> w, first |-> Null, then |-> {}]
    ELSE IF fExisted \/ IsMine(t) \/ IsFromMe(w, t)
    THEN AddToWallet(w, t, [hashBlock |-> b, spent |-> {}, vtxPrev |-> << >>])
    ELSE WalletUpdateSpent(w, t, FALSE)

Becomes(S) == mapWallet' = S.w /\ writing' = S.first /\ marking' = S.then

WriteMarksFirst(t) ==  \* mutant: the coins first, then the transaction
  /\ t \in marking \/ (marking = {} /\ t = writing)
  /\ disk' = [h \in DOMAIN disk \cup {t} |-> IF h = t THEN mapWallet[t] ELSE disk[h]]
  /\ writing' = (IF t = writing THEN Null ELSE writing) /\ marking' = marking \ {t}
  /\ UNCHANGED <<pool, mapWallet, bestblock, backup, pc, scan, sending, reaccepted, chain, history>>

(* A write of a record to wallet.dat, committed by itself.                 *)
WriteToDisk(t) ==
  /\ IF writing # Null THEN t = writing ELSE t \in marking
  /\ disk' = [h \in DOMAIN disk \cup {t} |-> IF h = t THEN mapWallet[t] ELSE disk[h]]
  /\ writing' = Null /\ marking' = IF writing # Null THEN marking ELSE marking \ {t}
  /\ UNCHANGED <<pool, mapWallet, bestblock, backup, pc, scan, sending, reaccepted, chain, history>>

(***************************************************************************)
(* The chain                                                               *)
(***************************************************************************)
Fork(a, b) == CHOOSE c \in Ancestors[a] \cap Ancestors[b] :
                \A d \in Ancestors[a] \cap Ancestors[b] : nHeight[d] <= nHeight[c]

AllTold == told = Len(vtx[at])

(* A branch that is committed in several transactions is in BlockChain.    *)
SetBestChain(b) ==
  /\ pc = "idle" /\ Free
  /\ bnChainWork[b] > bnChainWork[best] /\ bnChainWork[hashPrevBlock[b]] <= bnChainWork[best]
  /\ UNION {txs(c) : c \in Ancestors[b]} \cap Sendable \subseteq sent
  /\ pc' = "chain" /\ target' = b /\ at' = Fork(best, b) /\ told' = Len(vtx[at'])
  /\ UNCHANGED <<best, pool, mapWallet, file, writing, marking, scan, sending, reaccepted, history>>

(* ConnectBlock up to the loop that tells the wallet.                      *)
ConnectNext ==
  /\ pc = "chain" /\ AllTold /\ at # target
  /\ ConnectBlockOK(TxIndexOf[at], NextOnBranch(at, target))
  /\ at' = NextOnBranch(at, target) /\ told' = 0
  /\ UNCHANGED <<best, target, pool, mapWallet, file, writing, marking, pc, scan, sending,
                 reaccepted, history>>

(* One round of that loop, before anything is known of the transaction the *)
(* block is part of.                                                       *)
SyncWithWallets ==
  /\ pc = "chain" /\ ~AllTold /\ Free
  /\ Becomes(AddToWalletIfInvolvingMe(mapWallet, vtx[at][told + 1], at, TRUE))
  /\ told' = told + 1
  /\ UNCHANGED <<best, target, at, pool, file, pc, scan, sending, reaccepted, history>>

(* ConnectBlock fails: SetBestChain aborts its transaction, and the wallet *)
(* keeps what it heard of the blocks before.                               *)
ConnectFails ==
  /\ pc = "chain" /\ AllTold /\ at # target
  /\ ~ConnectBlockOK(TxIndexOf[at], NextOnBranch(at, target))
  /\ pc' = "idle" /\ target' = Null /\ at' = Null /\ told' = 0
  /\ givenUp' = givenUp \cup (Ancestors[at] \ Ancestors[best])
  /\ UNCHANGED <<best, pool, mapWallet, file, writing, marking, scan, sending, reaccepted, sent>>

Commit ==
  /\ pc = "chain" /\ AllTold /\ Free /\ at = target
  /\ LET fork == Fork(best, target)
         moved(b) == UNION {txs(c) : c \in Ancestors[b] \ Ancestors[fork]}
     IN  \E R \in Resurrections(pool, {}, moved(best)) : pool' = PoolAfter(pool, {}, {}, R, moved(target))
  /\ best' = target /\ target' = Null /\ at' = Null /\ told' = 0 /\ pc' = "locate"
  /\ UNCHANGED <<mapWallet, file, writing, marking, scan, sending, reaccepted, history>>

(* CWallet::SetBestChain, unless the chain is being downloaded.            *)
WriteBestBlock ==
  /\ pc = "locate" /\ Free
  /\ \E fIsInitialDownload \in BOOLEAN :
       bestblock' = IF fIsInitialDownload THEN bestblock ELSE best
  /\ pc' = "idle"
  /\ UNCHANGED <<pool, mapWallet, disk, backup, writing, marking, scan, sending, reaccepted,
                 chain, history>>

(***************************************************************************)
(* Relayed and sent transactions                                           *)
(***************************************************************************)
(* The "tx" message and sendrawtransaction.                                *)
RelayedTx(t) ==
  /\ pc = "idle" /\ Free
  /\ t \in (Tx \ Sendable) \cup sent
  /\ AcceptOK(pool, TxIndexOf[best], best, t)
  /\ pool' = AddUnchecked(pool, {t})
  /\ Becomes(AddToWalletIfInvolvingMe(mapWallet, t, Null, TRUE))
  /\ UNCHANGED <<file, pc, scan, sending, reaccepted, chain, history>>

(* CWalletTx::IsConfirmed: in the chain, or ours with all it depends on in *)
(* the chain or ours, as far as vtxPrev goes.                              *)
IsConfirmed(t) ==
  LET prev == mapWallet[t].vtxPrev
      block(u) == IF u = t THEN mapWallet[t].hashBlock ELSE prev[u]
      settled(u, W) ==
        \/ GetDepthInMainChain(block(u)) >= 1
        \/ IsFromMe(mapWallet, u) /\ \A o \in vin[u] : o.hash \in W \cap DOMAIN prev
  IN  \E W \in SUBSET (DOMAIN prev \cup {t}) : t \in W /\ \A u \in W : settled(u, W)

GetBlocksToMaturity(t) ==
  IF IsCoinBase(t)
  THEN COINBASE_MATURITY + MaturityMargin - GetDepthInMainChain(mapWallet[t].hashBlock) ELSE 0

AvailableCoins ==
  {o \in Mine : /\ o.hash \in DOMAIN mapWallet
                /\ o.n \notin mapWallet[o.hash].spent
                /\ IsConfirmed(o.hash)
                /\ GetBlocksToMaturity(o.hash) <= 0}

(* AddSupportingTransactions: copies of the transactions t depends on, and *)
(* of theirs unless they are COPY_DEPTH deep, with the block the index     *)
(* has for them now.                                                       *)
AddSupportingTransactions(t) ==
  LET idx == TxIndexOf[best]
      block(u) == IF u \in DOMAIN idx THEN idx[u].pos
                  ELSE IF u \in DOMAIN mapWallet THEN mapWallet[u].hashBlock ELSE Null
      known == DOMAIN mapWallet \cup DOMAIN idx
               \cup UNION {DOMAIN mapWallet[u].vtxPrev : u \in DOMAIN mapWallet}
      inputs(u) == {o.hash : o \in vin[u]} \cap known
      closed(W) == /\ inputs(t) \subseteq W
                   /\ \A u \in W : GetDepthInMainChain(block(u)) < COPY_DEPTH => inputs(u) \subseteq W
      W == CHOOSE W \in SUBSET known : closed(W) /\ \A X \in SUBSET W : closed(X) => X = W
  IN  [u \in W |-> block(u)]

(* CreateTransaction and the first half of CommitTransaction, under        *)
(* cs_main and cs_wallet: t is added and its coins are marked; writing     *)
(* their records a second time changes nothing.                            *)
Send(t) ==
  /\ pc = "idle" /\ Free
  /\ t \in Sendable \ sent /\ vin[t] \subseteq AvailableCoins
  /\ Becomes(AddToWallet(mapWallet, t, [hashBlock |-> Null, spent |-> {},
                                        vtxPrev |-> AddSupportingTransactions(t)]))
  /\ pc' = "commit" /\ sending' = t /\ sent' = sent \cup {t}
  /\ UNCHANGED <<pool, file, scan, reaccepted, chain, givenUp>>

(* The second half: AcceptToMemoryPool.                                    *)
Broadcast ==
  /\ pc = "commit" /\ Free
  /\ pool' = IF AcceptOK(pool, TxIndexOf[best], best, sending)
             THEN AddUnchecked(pool, {sending}) ELSE pool
  /\ pc' = "idle" /\ sending' = Null
  /\ UNCHANGED <<mapWallet, file, writing, marking, scan, reaccepted, chain, history>>

(***************************************************************************)
(* Stop, start, and a copy of the file                                     *)
(***************************************************************************)
(* The process may die at any point.                                       *)
Stop ==
  /\ pc # "down"
  /\ pc' = "down"
  /\ pool' = EmptyPool /\ mapWallet' = << >> /\ writing' = Null /\ marking' = {}
  /\ target' = Null /\ at' = Null /\ told' = 0 /\ scan' = Null
  /\ sending' = Null /\ reaccepted' = FALSE
  /\ givenUp' = givenUp \cup (IF pc = "chain" THEN Ancestors[at] \ Ancestors[best] ELSE {})
  /\ UNCHANGED <<best, file, sent>>

From(b, update) == [pindex |-> b, n |-> 0, fUpdate |-> update, ret |-> FALSE]

StartWithoutRescan ==  \* mutant
  /\ pc = "down"
  /\ mapWallet' = disk /\ pc' = "idle"
  /\ UNCHANGED <<pool, file, writing, marking, scan, sending, reaccepted, chain, history>>

(* AppInit2: the wallet is loaded, and the blocks above the one its        *)
(* locator finds are scanned.                                              *)
Start ==
  /\ pc = "down"
  /\ mapWallet' = disk /\ pc' = "idle"
  /\ LET pindexRescan == IF bestblock = Null THEN best ELSE Fork(bestblock, best)
     IN  scan' = IF best # pindexRescan THEN From(pindexRescan, TRUE) ELSE Null
  /\ UNCHANGED <<pool, file, writing, marking, sending, reaccepted, chain, history>>

(* One transaction of ScanForWalletTransactions.  When the scan was for    *)
(* missing transactions and found none, ReacceptWalletTransactions ends.   *)
ScanNext ==
  /\ scan # Null /\ Written
  /\ LET b == scan.pindex
         t == vtx[b][scan.n + 1]
         ret == scan.ret \/ t \in DOMAIN mapWallet' \ DOMAIN mapWallet
         done == scan.n + 1 = Len(vtx[b])
     IN  /\ Becomes(AddToWalletIfInvolvingMe(mapWallet, t, b, scan.fUpdate))
         /\ scan' = IF ~done THEN [scan EXCEPT !.n = @ + 1, !.ret = ret]
                    ELSE IF b # best
                    THEN [scan EXCEPT !.pindex = NextOnBranch(b, best), !.n = 0, !.ret = ret]
                    ELSE Null
         /\ reaccepted' = (reaccepted \/ (scan' = Null /\ ~scan.fUpdate /\ ~ret))
  /\ UNCHANGED <<pool, file, pc, sending, chain, history>>

(* One round of ReacceptWalletTransactions, under cs_wallet alone: spends  *)
(* the index knows and the wallet does not are marked; what is in no block *)
(* goes to the pool, with what it depends on and unchecked; and when there *)
(* were such spends the whole chain is scanned for them.                   *)
Reaccept ==
  /\ ~reaccepted /\ pc \notin {"down", "commit"} /\ Free
  /\ LET idx == TxIndexOf[best]
         skipped(t) == IsCoinBase(t) /\ 0 \in mapWallet[t].spent
         missing == {o \in Mine : /\ o.hash \in DOMAIN mapWallet \cap DOMAIN idx
                                  /\ ~skipped(o.hash)
                                  /\ o.n \notin mapWallet[o.hash].spent
                                  /\ ~Unspent(idx[o.hash], o.n)}
         loose == {t \in DOMAIN mapWallet : t \notin DOMAIN idx /\ ~IsCoinBase(t)}
         back == (loose \cup UNION {DOMAIN mapWallet[t].vtxPrev : t \in loose}) \ DOMAIN idx
     IN  /\ Becomes([w |-> MarkSpent(mapWallet, missing), first |-> Null, then |-> Hashes(missing)])
         /\ scan' = IF missing = {} THEN Null ELSE From(Genesis, FALSE)
         /\ reaccepted' = (missing = {})
         /\ \E R \in Resurrections(pool, {}, back) : pool' = AddUnchecked(pool, R)
  /\ UNCHANGED <<file, pc, sending, chain, history>>

(* backupwallet; and a user who puts the copy in place of wallet.dat: its  *)
(* records may name a branch its locator knows nothing of.                 *)
BackupWallet ==
  /\ pc = "idle" /\ Free
  /\ backup' = [disk |-> disk, bestblock |-> bestblock]
  /\ UNCHANGED <<pool, mapWallet, disk, bestblock, writing, marking, pc, scan, sending, reaccepted,
                 chain, history>>

Restore ==
  /\ pc = "down"
  /\ disk' = backup.disk /\ bestblock' = backup.bestblock
  /\ givenUp' = givenUp \cup ({disk'[t].hashBlock : t \in DOMAIN disk'} \ Ancestors[bestblock'])
  /\ UNCHANGED <<pool, mapWallet, backup, writing, marking, pc, scan, sending, reaccepted, chain, sent>>

Next ==
  \/ ConnectNext \/ SyncWithWallets \/ ConnectFails \/ Commit \/ WriteBestBlock
  \/ Broadcast \/ Stop \/ Start \/ ScanNext \/ Reaccept \/ BackupWallet \/ Restore
  \/ \E b \in NonGenesis : SetBestChain(b)
  \/ \E t \in Tx : WriteToDisk(t) \/ RelayedTx(t) \/ Send(t)

Spec == Init /\ [][Next]_vars

-----------------------------------------------------------------------------
AtRest == pc = "idle" /\ Free

(* "make sure all wallets know about the given transaction, in the given   *)
(* block" (main.cpp 118): what the chain pays the wallet is in mapWallet   *)
(* and its hashBlock says in which block of the chain it is, across        *)
(* reorganisations, deaths and restarts.  The one way to be wrong is to    *)
(* name a block of a branch that was given up: ConnectBlock told the       *)
(* wallet, no one told it otherwise (main.cpp 1488), and the transaction   *)
(* then has no depth though the chain has it.                              *)
ChainIsKnown ==
  AtRest => \A t \in DOMAIN TxIndexOf[best] :
              IsMine(t) => /\ t \in DOMAIN mapWallet
                           /\ mapWallet[t].hashBlock \in {TxIndexOf[best][t].pos} \cup givenUp

(* WalletUpdateSpent and the rescan: an output of the wallet's that the    *)
(* chain spends is marked as spent, also after wallet.dat was replaced by  *)
(* an older copy (wallet.cpp 298-300); and none is ever marked, in the     *)
(* file either, without the transaction that spends it: no death leaves    *)
(* money marked as gone.                                                   *)
MarkedAsSpent ==
  /\ AtRest => \A t \in DOMAIN TxIndexOf[best] : \A o \in vin[t] \cap Mine :
                 o.hash \in DOMAIN mapWallet /\ o.n \in mapWallet[o.hash].spent
  /\ \A t \in DOMAIN disk : \A n \in disk[t].spent :
       \E u \in DOMAIN disk : [hash |-> t, n |-> n] \in vin[u]
=============================================================================
