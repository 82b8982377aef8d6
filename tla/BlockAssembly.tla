--------------------------- MODULE BlockAssembly ---------------------------
(***************************************************************************)
(* How CreateNewBlock fills a block from the memory pool                    *)
(* (src/src/main.cpp 3440-3580): by priority, and a transaction that       *)
(* spends others of the pool after all of them.  The loop runs under       *)
(* cs_main and the pool's lock, so nothing changes under it.               *)
(***************************************************************************)
EXTENDS Naturals, FiniteSets, FiniteSetsExt, SequencesExt

CONSTANTS
  Tx,          \* transactions a pool may hold
  ChainTx,     \* transactions the index has
  vin,         \* the outpoints a transaction of Tx spends
  vout,        \* how many outputs a transaction has
  Immature,    \* coinbases of ChainTx that cannot be spent yet
  NotFinal,
  Bytes,       \* GetSerializeSize
  SigOps,
  Dust,        \* how many outputs are below a cent
  Priority,    \* dPriority / size, from the inputs that are in the chain
  FreePriority,      \* what AllowFree asks for, COIN * 576 / 250
  Fees,        \* what transactions may pay, in units of MIN_TX_FEE
  MAX_BLOCK_SIZE_GEN,
  MAX_BLOCK_SIGOPS

OutPoint == [hash : Tx \cup ChainTx, n : Nat]

ASSUME AssemblyAssumption ==
  /\ Tx \cap ChainTx = {} /\ Immature \subseteq ChainTx /\ NotFinal \subseteq Tx
  /\ vin \in [Tx -> SUBSET OutPoint]
  /\ vout \in [Tx \cup ChainTx -> Nat]
  /\ Bytes \in [Tx -> Nat] /\ SigOps \in [Tx -> Nat] /\ Dust \in [Tx -> Nat]
  /\ Priority \in [Tx -> Nat] /\ Fees \subseteq Nat
  /\ MAX_BLOCK_SIZE_GEN \in Nat /\ MAX_BLOCK_SIGOPS \in Nat

VARIABLES
  mapTx,        \* the pool
  nTxFees,      \* what each of its transactions pays
  spent,        \* outpoints the index has as spent
  mapPriority,  \* how often each transaction is in the queue
  setDependsOn, \* what the COrphan of a transaction waits for
  mapTestPool,  \* [spent: outpoints the block spends, added: its transactions]
  vtx,          \* the block, behind its coinbase
  nBlockSize, nBlockSigOps

(* What does not change while the block is filled.                         *)
given == <<mapTx, nTxFees, spent>>
assemblyVars == <<given, mapPriority, setDependsOn, mapTestPool, vtx, nBlockSize, nBlockSigOps>>

(* The inputs of tx that are not on disk: the transactions it waits for.   *)
NotOnDisk(tx) == {o.hash : o \in vin[tx]} \ ChainTx
Considered == mapTx \ NotFinal

(* A pool agrees with itself, but a block may have spent what one of its   *)
(* transactions spends, and a reorganisation may have taken away a parent. *)
AssemblyInit ==
  /\ mapTx \in SUBSET Tx
  /\ \A s, t \in mapTx : s # t => vin[s] \cap vin[t] = {}
  /\ nTxFees \in [mapTx -> Fees]
  /\ spent \in SUBSET {o \in UNION {vin[t] : t \in Tx} : o.hash \in ChainTx}
  /\ setDependsOn = [t \in Tx |-> IF t \in Considered THEN NotOnDisk(t) ELSE {}]
  /\ mapPriority = [t \in Tx |-> IF t \in Considered /\ NotOnDisk(t) = {} THEN 1 ELSE 0]
  /\ mapTestPool = [spent |-> {}, added |-> {}]
  /\ vtx = << >> /\ nBlockSize = 1000 /\ nBlockSigOps = 100

-----------------------------------------------------------------------------
(* CTransaction::GetMinFee(nBlockSize, fAllowFree, GMF_BLOCK).  The size   *)
(* has been checked, so a full block, which costs MAX_MONEY, does not      *)
(* come up.                                                                *)
MinFee(tx, fAllowFree) ==
  LET nNewBlockSize == nBlockSize + Bytes[tx]
      base == IF fAllowFree /\ nNewBlockSize < 27000 THEN 0 ELSE 1 + Bytes[tx] \div 1000
      raise == IF nNewBlockSize < MAX_BLOCK_SIZE_GEN \div 2 THEN 1
               ELSE MAX_BLOCK_SIZE_GEN \div (MAX_BLOCK_SIZE_GEN - nNewBlockSize)
  IN  (base + Dust[tx]) * raise

AllowFree(tx) ==
  nBlockSize + Bytes[tx] < 1500 \/ Priority[tx] > FreePriority

SizeAllows(tx) ==
  /\ nBlockSize + Bytes[tx] < MAX_BLOCK_SIZE_GEN
  /\ nBlockSigOps + SigOps[tx] < MAX_BLOCK_SIGOPS

FeeAllows(tx) == nTxFees[tx] >= MinFee(tx, AllowFree(tx))

(* FetchInputs for the miner: from the block so far, otherwise from the    *)
(* index.                                                                  *)
FetchInputs(tx) ==
  \A o \in vin[tx] : o.hash \in mapTestPool.added \cup ChainTx /\ o.n < vout[o.hash]

ConnectInputsUnspent(tx) ==  \* mutant: vSpent is read from mapTestPool alone
  \A o \in vin[tx] : o.hash \notin Immature /\ o \notin mapTestPool.spent

ConnectInputs(tx) ==
  \A o \in vin[tx] : o.hash \notin Immature /\ o \notin mapTestPool.spent \cup spent

-----------------------------------------------------------------------------
Queued == {t \in Tx : mapPriority[t] > 0}
First(tx) == tx \in Queued /\ \A t \in Queued : Priority[t] <= Priority[tx]

Skip(tx) ==
  /\ First(tx)
  /\ ~(SizeAllows(tx) /\ FetchInputs(tx) /\ FeeAllows(tx) /\ ConnectInputs(tx))
  /\ mapPriority' = [mapPriority EXCEPT ![tx] = @ - 1]
  /\ UNCHANGED <<given, setDependsOn, mapTestPool, vtx, nBlockSize, nBlockSigOps>>

(* mapDependers has an orphan once for every input that waits for tx; only *)
(* the first of them finds something left to erase.                        *)
Dependers(tx) == {t \in Considered : tx \in setDependsOn[t]}
Released(tx) == {t \in Dependers(tx) : setDependsOn[t] = {tx}}

QueueAfter(tx) ==
  [t \in Tx |-> (IF t = tx THEN mapPriority[t] - 1 ELSE mapPriority[t])
                + (IF t \in Released(tx) THEN 1 ELSE 0)]

DependsAfter(tx) == [t \in Tx |-> setDependsOn[t] \ {tx}]

Add(tx) ==
  /\ First(tx)
  /\ SizeAllows(tx) /\ FetchInputs(tx) /\ FeeAllows(tx) /\ ConnectInputs(tx)
  /\ mapTestPool' = [spent |-> mapTestPool.spent \cup vin[tx],
                     added |-> mapTestPool.added \cup {tx}]
  /\ vtx' = Append(vtx, tx)
  /\ nBlockSize' = nBlockSize + Bytes[tx]
  /\ nBlockSigOps' = nBlockSigOps + SigOps[tx]
  /\ mapPriority' = QueueAfter(tx)
  /\ setDependsOn' = DependsAfter(tx)
  /\ UNCHANGED given

AssemblyNext == \E tx \in Tx : Skip(tx) \/ Add(tx)

AssemblySpec == AssemblyInit /\ [][AssemblyNext]_assemblyVars

-----------------------------------------------------------------------------
(* The block connects: read from its start, every input is an output of    *)
(* the chain or of an earlier transaction that nothing has spent           *)
(* (main.cpp 1405-1456).                                                   *)
BlockConnects ==
  \A i \in DOMAIN vtx : \A o \in vin[vtx[i]] :
    LET earlier == {vtx[j] : j \in 1 .. i - 1} IN
    /\ o.hash \in (ChainTx \ Immature) \cup earlier
    /\ o.n < vout[o.hash]
    /\ o \notin spent
    /\ \A t \in earlier : o \notin vin[t]
=============================================================================
