------------------------------- MODULE Miner -------------------------------
(***************************************************************************)
(* AltcoinMiner and CheckWork (src/src/main.cpp 3422-3424, 3579-3594,      *)
(* 3656-3688, 3703-3858): threads that read pindexBest and                 *)
(* nTransactionsUpdated without cs_main, build a block for what they read  *)
(* and hand it in under cs_main when they have solved it.  A block's time  *)
(* and extra nonce are left out.                                           *)
(*                                                                         *)
(* Chain and pool move as their own modules promise: the best chain never  *)
(* returns to a tip it has left, and a transaction is in one of the two.   *)
(* What CreateNewBlock takes from the pool is BlockAssembly's subject;     *)
(* here it is all of it.                                                   *)
(***************************************************************************)
EXTENDS Naturals, FiniteSets

CONSTANTS
  MinerThread,
  MinerTx,
  Parent,       \* Parent[x]: the transactions x spends
  MaxTip,       \* bound on how often the best chain moves
  MaxBreaks     \* bound on how often peers are lost, nonces run out, a download begins

ASSUME MinerAssumption ==
  /\ Parent \in [MinerTx -> SUBSET MinerTx]
  /\ MaxTip \in Nat /\ MaxBreaks \in Nat

VARIABLES
  pindexBest,   \* the tip, by the number of tips so far
  inChain,      \* transactions of the best chain
  minerPool,    \* transactions of the pool
  initialDownload, \* what IsInitialBlockDownload() returns
  breaks,
  fGenerateAltcoins,
  vNodes,       \* there are peers
  miner,        \* the locals of each thread
  updated,      \* nTransactionsUpdated # a thread's nTransactionsUpdatedLast
  refused       \* ProcessBlock was given a block it refuses

node == <<pindexBest, inChain, minerPool, initialDownload>>
outside == <<breaks, fGenerateAltcoins, vNodes>>
minerVars == <<node, outside, miner, updated, refused>>

(* The locals of AltcoinMiner's loop, before it goes round once more.      *)
Waiting ==
  [pc |-> "wait", pindexPrev |-> 1, block |-> [prev |-> 1, txs |-> {}, rules |-> 1],
   aged |-> FALSE]

MinerInit ==
  /\ pindexBest = 1 /\ inChain = {} /\ minerPool = {} /\ initialDownload = TRUE
  /\ breaks = 0 /\ fGenerateAltcoins = TRUE /\ vNodes = TRUE
  /\ miner = [t \in MinerThread |-> Waiting]
  /\ updated = [t \in MinerThread |-> FALSE] /\ refused = FALSE

-----------------------------------------------------------------------------
(* The node, under cs_main                                                 *)

WithParents(xs) == \A x \in xs : Parent[x] \subseteq xs
CountUpdate == updated' = [t \in MinerThread |-> TRUE]

(* addUnchecked.                                                           *)
AcceptTx(x) ==
  /\ x \notin minerPool \cup inChain /\ Parent[x] \subseteq minerPool \cup inChain
  /\ minerPool' = minerPool \cup {x}
  /\ CountUpdate
  /\ UNCHANGED <<pindexBest, inChain, initialDownload, outside, miner, refused>>

(* SetBestChain, for a block that extends the chain or by a reorganisation;*)
(* the new tip may be below the last checkpoint or older than a day.       *)
SetBestChain(xs) ==
  /\ pindexBest < MaxTip
  /\ pindexBest' = pindexBest + 1
  /\ inChain' = xs
  /\ minerPool' = (minerPool \cup inChain) \ xs
  /\ initialDownload' \in BOOLEAN
  /\ CountUpdate

PeerBlock ==
  /\ \E xs \in SUBSET (minerPool \cup inChain) : WithParents(xs) /\ SetBestChain(xs)
  /\ UNCHANGED <<outside, miner, refused>>

-----------------------------------------------------------------------------
(* A thread                                                                *)

Stands(t, pc) == miner[t].pc = pc
Others == <<node, outside, refused>>

WaitForPeers(t) ==
  /\ Stands(t, "wait") /\ fGenerateAltcoins /\ vNodes /\ ~initialDownload
  /\ miner' = [miner EXCEPT ![t].pc = "start"]
  /\ UNCHANGED <<Others, updated>>

ReadUpdated(t) ==
  /\ Stands(t, "start")
  /\ miner' = [miner EXCEPT ![t].pc = "best"]
  /\ updated' = [updated EXCEPT ![t] = FALSE]
  /\ UNCHANGED Others

ReadBest(t) ==
  /\ Stands(t, "best")
  /\ miner' = [miner EXCEPT ![t].pc = "create", ![t].pindexPrev = pindexBest]
  /\ UNCHANGED <<Others, updated>>

(* CreateNewBlock reads pindexBest once more, before it takes cs_main.     *)
CreateNewBlock(t) ==
  /\ Stands(t, "create")
  /\ miner' = [miner EXCEPT ![t].pc = "collect", ![t].block.prev = pindexBest]
  /\ UNCHANGED <<Others, updated>>

(* Its rest: the transactions, under cs_main, and a header by the rules    *)
(* that hold after prev (nBits and the reward).                            *)
Collect(t) ==
  /\ Stands(t, "collect")
  /\ miner' = [miner EXCEPT ![t].block.txs = minerPool, ![t].block.rules = miner[t].block.prev,
                            ![t].pc = "search"]
  /\ UNCHANGED <<Others, updated>>

SearchStarts(t) ==
  Stands(t, "search") /\ miner' = [miner EXCEPT ![t].pc = "work", ![t].aged = FALSE]

SearchAndRead(t) ==  \* mutant: nTransactionsUpdatedLast is read when the search begins
  /\ SearchStarts(t)
  /\ updated' = [updated EXCEPT ![t] = FALSE]
  /\ UNCHANGED Others

(* nStart is the time when the search begins.                              *)
StartSearch(t) ==
  /\ SearchStarts(t)
  /\ UNCHANGED <<Others, updated>>

(* 256 nonces without a solution, or one with.                             *)
Search(t) ==
  /\ Stands(t, "work")
  /\ \E pc \in {"check"} \cup (IF pindexBest < MaxTip THEN {"found"} ELSE {}) :
       miner' = [miner EXCEPT ![t].pc = pc]
  /\ UNCHANGED <<Others, updated>>

(* ConnectBlock and AcceptBlock of a block after the best one.             *)
Valid(block) ==
  /\ block.rules = block.prev
  /\ block.txs \cap inChain = {} /\ WithParents(block.txs \cup inChain)

CheckWorkStale(t) ==  \* mutant: whether the block is stale is not looked at
  /\ Stands(t, "found")
  /\ miner' = [miner EXCEPT ![t].pc = "check"]
  /\ LET block == miner[t].block IN
     IF Valid(block)
     THEN SetBestChain(inChain \cup block.txs) /\ UNCHANGED refused
     ELSE refused' = TRUE /\ UNCHANGED <<node, updated>>
  /\ UNCHANGED outside

CheckWork(t) ==
  /\ Stands(t, "found")
  /\ miner' = [miner EXCEPT ![t].pc = "check"]
  /\ LET block == miner[t].block IN
     IF block.prev # pindexBest
     THEN UNCHANGED <<node, updated, refused>>
     ELSE IF Valid(block)
     THEN SetBestChain(inChain \cup block.txs) /\ UNCHANGED refused
     ELSE refused' = TRUE /\ UNCHANGED <<node, updated>>
  /\ UNCHANGED outside

Rebuild(t) ==
  \/ ~vNodes
  \/ updated[t] /\ miner[t].aged
  \/ miner[t].pindexPrev # pindexBest

StopMining(t) ==
  /\ Stands(t, "wait") \/ Stands(t, "check")
  /\ ~fGenerateAltcoins
  /\ miner' = [miner EXCEPT ![t] = [Waiting EXCEPT !.pc = "gone"]]
  /\ UNCHANGED <<Others, updated>>

(* A new block, with the old one given up; also when the nonces run out.   *)
Break(t) ==
  /\ Stands(t, "check") /\ fGenerateAltcoins
  /\ \/ Rebuild(t) /\ UNCHANGED breaks
     \/ breaks < MaxBreaks /\ breaks' = breaks + 1
  /\ miner' = [miner EXCEPT ![t] = Waiting]
  /\ UNCHANGED <<node, fGenerateAltcoins, vNodes, updated, refused>>

(* UpdateTime(pindexPrev).                                                 *)
GoOn(t) ==
  /\ Stands(t, "check") /\ fGenerateAltcoins /\ ~Rebuild(t)
  /\ miner' = [miner EXCEPT ![t].pc = "work", ![t].block.rules = miner[t].pindexPrev]
  /\ UNCHANGED <<Others, updated>>

-----------------------------------------------------------------------------
(* Time, peers and the user                                                *)

(* GetTime() - nStart > 60.                                                *)
MinuteOver(t) ==
  /\ ~miner[t].aged /\ miner[t].pc \in {"work", "found", "check"}
  /\ miner' = [miner EXCEPT ![t].aged = TRUE]
  /\ UNCHANGED <<Others, updated>>

PeersChange ==
  /\ vNodes => breaks < MaxBreaks
  /\ vNodes' = ~vNodes /\ breaks' = IF vNodes THEN breaks + 1 ELSE breaks
  /\ UNCHANGED <<node, fGenerateAltcoins, miner, updated, refused>>

(* Ten seconds pass without a new tip, or the tip turns a day old in them. *)
DownloadChanges ==
  /\ ~initialDownload => breaks < MaxBreaks
  /\ initialDownload' = ~initialDownload
  /\ breaks' = IF initialDownload THEN breaks ELSE breaks + 1
  /\ UNCHANGED <<pindexBest, inChain, minerPool, fGenerateAltcoins, vNodes, miner, updated,
                 refused>>

StopGenerating ==
  /\ fGenerateAltcoins /\ fGenerateAltcoins' = FALSE
  /\ UNCHANGED <<node, breaks, vNodes, miner, updated, refused>>

Run(t) ==
  \/ WaitForPeers(t) \/ ReadUpdated(t) \/ ReadBest(t) \/ CreateNewBlock(t) \/ Collect(t)
  \/ StartSearch(t) \/ Search(t) \/ CheckWork(t) \/ StopMining(t) \/ Break(t) \/ GoOn(t)

MinerNext ==
  \/ \E x \in MinerTx : AcceptTx(x)
  \/ PeerBlock
  \/ \E t \in MinerThread : Run(t) \/ MinuteOver(t)
  \/ PeersChange \/ DownloadChanges \/ StopGenerating

MinerSpec == MinerInit /\ [][MinerNext]_minerVars

-----------------------------------------------------------------------------
(* The block that CheckWork hands in is one that ProcessBlock takes: what  *)
(* was read without the lock made it stale, or it fits the chain           *)
(* (main.cpp 3422, 3442, 3673).                                            *)
SolvedBlocksAccepted == ~refused

(* A transaction of the pool gets into the block every thread works on, or *)
(* leaves the pool; no update is missed between the reads (main.cpp 3734,  *)
(* 3841).  Without peers and while the chain is downloaded nothing is      *)
(* mined (3721).                                                           *)
PoolGetsMined ==
  \A t \in MinerThread, x \in MinerTx :
    x \in minerPool ~> \/ x \notin minerPool
                       \/ Stands(t, "work") /\ x \in miner[t].block.txs
                       \/ ~fGenerateAltcoins \/ ~vNodes \/ initialDownload
=============================================================================
