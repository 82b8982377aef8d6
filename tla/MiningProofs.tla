---------------------------- MODULE MiningProofs ----------------------------
(***************************************************************************)
(* Theorems about the blocks this node makes: what getwork hands out and   *)
(* takes back, what the miner threads find, how a block is assembled and   *)
(* how its difficulty is measured.                                         *)
(*                                                                         *)
(* WorkInv: a header handed out names a block that is still kept, and has  *)
(* that block's predecessor, as long as it builds on the best block.       *)
(* MinerInv: what a thread has read is no newer than the chain, in the     *)
(* order it was read, and a block for the best chain follows its rules.    *)
(* AssemblyInv: the pool that a transaction is tested against is what the  *)
(* block so far has added and spent.                                       *)
(* DifficultyInv: the stretch measured last ends at the last multiple of   *)
(* the interval.                                                           *)
(***************************************************************************)
EXTENDS Difficulty, BlockAssembly, Miner, GetWork, TLAPS

-----------------------------------------------------------------------------
(* getwork                                                                 *)

Best == [height : Nat, nTime : Nat]
Sig == [nTime : Nat, extra : Nat]
Root == Pointer \X Sig
HeapBlock == [hashPrevBlock : Best, nTime : Nat, scriptSig : Sig \cup {NoBlock}]

WorkTypes ==
  /\ bestBlock \in Best /\ workTime \in Nat /\ nExtraNonce \in Nat
  /\ DOMAIN heap \subseteq Pointer /\ heap \in [DOMAIN heap -> HeapBlock]
  /\ live \subseteq DOMAIN heap
  /\ DOMAIN mapNewBlock \subseteq Root
  /\ data \subseteq [hashPrevBlock : Best, hashMerkleRoot : Root, nTime : Nat]

(* A header names its block by pointer and scriptSig, whatever the block   *)
(* now has; the block before it is the block's for good.                   *)
RootsAgree == \A r \in DOMAIN mapNewBlock : mapNewBlock[r] = r[2]

HandedOut ==
  \A d \in data :
    /\ d.hashMerkleRoot[1] \in DOMAIN heap
    /\ d.hashPrevBlock = heap[d.hashMerkleRoot[1]].hashPrevBlock
    /\ d.hashPrevBlock.height <= bestBlock.height

(* What was handed out for the best block is still there.                  *)
StillThere ==
  \A d \in data : d.hashPrevBlock = bestBlock =>
    /\ pindexPrev = bestBlock
    /\ d.hashMerkleRoot \in DOMAIN mapNewBlock /\ d.hashMerkleRoot[1] \in live

HeapFits == \A p \in DOMAIN heap : heap[p].hashPrevBlock.height <= bestBlock.height

WorkInv == WorkTypes /\ RootsAgree /\ HandedOut /\ StillThere /\ HeapFits

(* What a call hands out is remembered, and so is what was there before.   *)
LEMMA HandOutKeeps ==
  ASSUME WorkInv, NEW p \in Pointer, NEW h, NEW saved, HandOut(p, h, saved),
         p \in DOMAIN h, DOMAIN heap \subseteq DOMAIN h, DOMAIN h \subseteq Pointer,
         h \in [DOMAIN h -> HeapBlock],
         \A q \in DOMAIN heap : h[q] = heap[q],
         \A q \in DOMAIN h : h[q].hashPrevBlock.height <= bestBlock.height,
         DOMAIN saved \subseteq DOMAIN mapNewBlock,
         \A r \in DOMAIN saved : saved[r] = mapNewBlock[r],
         live' \subseteq DOMAIN h, p \in live',
         UNCHANGED <<bestBlock, workTime>>,
         pindexPrev' = bestBlock,
         \A d \in data : d.hashPrevBlock = bestBlock =>
           d.hashMerkleRoot \in DOMAIN saved /\ d.hashMerkleRoot[1] \in live'
  PROVE  WorkInv'
<1> DEFINE prev == h[p].hashPrevBlock
           sig == [nTime |-> workTime, extra |-> NonceAfter(prev)]
           root == <<p, sig>>
           d0 == [hashPrevBlock |-> prev, hashMerkleRoot |-> root, nTime |-> workTime]
<1>1. h[p] \in HeapBlock /\ prev \in Best /\ prev.height <= bestBlock.height
  BY DEF HeapBlock
<1>2. UpdateTime(h[p]) \in HeapBlock /\ UpdateTime(h[p]).hashPrevBlock = prev
  BY <1>1 DEF UpdateTime, HeapBlock, WorkInv, WorkTypes
<1>3. sig \in Sig BY DEF Sig, NonceAfter, WorkInv, WorkTypes
<1>4. /\ nExtraNonce' = sig.extra
      /\ heap' = [h EXCEPT ![p] = [UpdateTime(h[p]) EXCEPT !.scriptSig = sig]]
      /\ mapNewBlock' = [r \in DOMAIN saved \cup {root} |-> IF r = root THEN sig ELSE saved[r]]
      /\ data' = data \cup {d0}
  BY <1>2 DEF HandOut
<1>5. root \in Root /\ d0 \in [hashPrevBlock : Best, hashMerkleRoot : Root, nTime : Nat]
  BY <1>1, <1>3 DEF Root, WorkInv, WorkTypes
<1>6. /\ d0.hashPrevBlock = prev /\ d0.hashMerkleRoot = root
      /\ root[1] = p /\ root[2] = sig
  OBVIOUS
<1>7. [UpdateTime(h[p]) EXCEPT !.scriptSig = sig] \in HeapBlock
      /\ [UpdateTime(h[p]) EXCEPT !.scriptSig = sig].hashPrevBlock = prev
  BY <1>2, <1>3 DEF HeapBlock
<1>8. /\ DOMAIN heap' = DOMAIN h /\ heap' \in [DOMAIN h -> HeapBlock]
      /\ \A q \in DOMAIN h : heap'[q].hashPrevBlock = h[q].hashPrevBlock
  BY <1>4, <1>7
<1>9. nExtraNonce' \in Nat BY <1>3, <1>4 DEF Sig
<1>10. /\ DOMAIN mapNewBlock' = DOMAIN saved \cup {root}
       /\ \A r \in DOMAIN mapNewBlock' : mapNewBlock'[r] = r[2]
  <2> HIDE DEF root, sig
  <2>1. DOMAIN mapNewBlock' = DOMAIN saved \cup {root} BY <1>4
  <2>2. ASSUME NEW r \in DOMAIN mapNewBlock' PROVE mapNewBlock'[r] = r[2]
    BY <1>4, <1>6, <2>1 DEF WorkInv, RootsAgree
  <2> QED BY <2>1, <2>2
<1> HIDE DEF prev, sig, root, d0
<1>11. WorkTypes' BY <1>4, <1>5, <1>8, <1>9, <1>10 DEF WorkInv, WorkTypes
<1>12. HandedOut' BY <1>1, <1>4, <1>6, <1>8 DEF WorkInv, HandedOut, prev
<1>13. StillThere' BY <1>4, <1>6, <1>10 DEF StillThere
<1>14. HeapFits' BY <1>8 DEF HeapFits
<1> QED BY <1>10, <1>11, <1>12, <1>13, <1>14 DEF WorkInv, RootsAgree

LEMMA GetNewWorkInv ==
  ASSUME WorkInv, GetNewWork
  PROVE  WorkInv'
<1>1. PICK p \in Pointer \ DOMAIN heap :
        /\ pindexPrev' = bestBlock /\ live' = KeptBlocks \cup {p}
        /\ HandOut(p, [q \in DOMAIN heap \cup {p} |-> IF q = p THEN NewBlock(bestBlock) ELSE heap[q]],
                   Kept)
        /\ UNCHANGED <<bestBlock, workTime>>
  BY DEF GetNewWork
<1> DEFINE h == [q \in DOMAIN heap \cup {p} |-> IF q = p THEN NewBlock(bestBlock) ELSE heap[q]]
<1>2. NewBlock(bestBlock) \in HeapBlock /\ NewBlock(bestBlock).hashPrevBlock = bestBlock
  BY DEF NewBlock, HeapBlock, WorkInv, WorkTypes
<1>3. bestBlock.height \in Nat BY DEF WorkInv, WorkTypes, Best
<1>4. /\ DOMAIN h = DOMAIN heap \cup {p} /\ h \in [DOMAIN h -> HeapBlock]
      /\ h[p] = NewBlock(bestBlock) /\ \A q \in DOMAIN heap : h[q] = heap[q]
  BY <1>2 DEF WorkInv, WorkTypes
<1>5. DOMAIN h \subseteq Pointer BY <1>4 DEF WorkInv, WorkTypes
<1>6. \A q \in DOMAIN h : h[q].hashPrevBlock.height <= bestBlock.height
  BY <1>2, <1>3, <1>4 DEF WorkInv, HeapFits
<1>7. /\ DOMAIN Kept \subseteq DOMAIN mapNewBlock
      /\ \A r \in DOMAIN Kept : Kept[r] = mapNewBlock[r]
  BY DEF Kept, EmptyMap
<1>8. live' \subseteq DOMAIN h /\ p \in live' BY <1>1, <1>4 DEF KeptBlocks, WorkInv, WorkTypes
<1>9. \A d \in data : d.hashPrevBlock = bestBlock =>
        d.hashMerkleRoot \in DOMAIN Kept /\ d.hashMerkleRoot[1] \in live'
  BY <1>1 DEF WorkInv, StillThere, Kept, KeptBlocks, Stale
<1> HIDE DEF h
<1>10. HandOut(p, h, Kept) BY <1>1 DEF h
<1> QED BY <1>1, <1>4, <1>5, <1>6, <1>7, <1>8, <1>9, <1>10, HandOutKeeps

LEMMA GetSameWorkInv ==
  ASSUME WorkInv, GetSameWork
  PROVE  WorkInv'
<1>1. /\ pindexPrev = bestBlock /\ pblock \in live /\ HandOut(pblock, heap, mapNewBlock)
      /\ UNCHANGED <<bestBlock, workTime, pending, pindexPrev, pblock, live>>
  BY DEF GetSameWork, Stale
<1>2. pblock \in DOMAIN heap /\ pblock \in Pointer BY <1>1 DEF WorkInv, WorkTypes
<1>3. \A d \in data : d.hashPrevBlock = bestBlock =>
        d.hashMerkleRoot \in DOMAIN mapNewBlock /\ d.hashMerkleRoot[1] \in live'
  BY <1>1 DEF WorkInv, StillThere
<1>4. live' \subseteq DOMAIN heap BY <1>1 DEF WorkInv, WorkTypes
<1>5. heap \in [DOMAIN heap -> HeapBlock] /\ DOMAIN heap \subseteq Pointer
      /\ \A q \in DOMAIN heap : heap[q].hashPrevBlock.height <= bestBlock.height
  BY DEF WorkInv, WorkTypes, HeapFits
<1> QED BY <1>1, <1>2, <1>3, <1>4, <1>5, HandOutKeeps

(* No header is for a block that has just become the best.                 *)
LEMMA SubmitInv ==
  ASSUME WorkInv, NEW d \in data, Submit(d)
  PROVE  WorkInv'
<1> DEFINE p == d.hashMerkleRoot[1]
           b == Restored(heap[p], d)
<1>1. /\ d.hashMerkleRoot \in DOMAIN mapNewBlock
      /\ heap' = [heap EXCEPT ![p] = b]
      /\ bestBlock' \in {bestBlock, [height |-> bestBlock.height + 1, nTime |-> b.nTime]}
      /\ UNCHANGED <<workTime, pindexPrev, live, mapNewBlock, nExtraNonce, data>>
  BY DEF Submit
<1>2. /\ p \in DOMAIN heap /\ heap[p] \in HeapBlock /\ d.nTime \in Nat
      /\ mapNewBlock[d.hashMerkleRoot] \in Sig
  BY <1>1 DEF WorkInv, WorkTypes, HandedOut, RootsAgree, Root
<1>3. b \in HeapBlock /\ b.hashPrevBlock = heap[p].hashPrevBlock /\ b.nTime \in Nat
  BY <1>2 DEF Restored, HeapBlock
<1>4. /\ DOMAIN heap' = DOMAIN heap /\ heap' \in [DOMAIN heap -> HeapBlock]
      /\ \A q \in DOMAIN heap : heap'[q].hashPrevBlock = heap[q].hashPrevBlock
  BY <1>1, <1>3 DEF WorkInv, WorkTypes
<1> HIDE DEF p, b
<1>5. bestBlock \in Best /\ bestBlock.height \in Nat BY DEF WorkInv, WorkTypes, Best
<1>6. /\ bestBlock' \in Best /\ bestBlock'.height \in Nat
      /\ bestBlock' = bestBlock \/ bestBlock'.height = bestBlock.height + 1
  BY <1>1, <1>3, <1>5 DEF Best
<1>7. WorkTypes' BY <1>1, <1>4, <1>6 DEF WorkInv, WorkTypes
<1>8. \A e \in data : e.hashPrevBlock.height \in Nat /\ e.hashPrevBlock.height <= bestBlock.height
  BY DEF WorkInv, WorkTypes, Best, HandedOut
<1>9. HandedOut' BY <1>1, <1>4, <1>5, <1>6, <1>8 DEF WorkInv, HandedOut
<1>10. StillThere'
  <2>1. CASE bestBlock' = bestBlock BY <1>1, <2>1 DEF WorkInv, StillThere
  <2>2. CASE bestBlock'.height = bestBlock.height + 1
    <3>1. \A e \in data : e.hashPrevBlock # bestBlock' BY <1>5, <1>8, <2>2
    <3> QED BY <1>1, <3>1 DEF StillThere
  <2> QED BY <1>6, <2>1, <2>2
<1>11. HeapFits'
  <2>1. \A q \in DOMAIN heap : heap[q].hashPrevBlock.height \in Nat
    BY DEF WorkInv, WorkTypes, HeapBlock, Best
  <2> QED BY <1>4, <1>5, <1>6, <2>1 DEF WorkInv, HeapFits
<1>12. RootsAgree' BY <1>1 DEF WorkInv, RootsAgree
<1> QED BY <1>7, <1>9, <1>10, <1>11, <1>12 DEF WorkInv

LEMMA WorkInvStep ==
  ASSUME WorkInv, [WorkNext]_workVars
  PROVE  WorkInv'
<1>1. CASE GetNewWorkFails
  <2>1. /\ pindexPrev' = bestBlock /\ live' = KeptBlocks /\ mapNewBlock' = Kept
        /\ UNCHANGED <<bestBlock, workTime, heap, nExtraNonce, data>>
    BY <1>1 DEF GetNewWorkFails
  <2>2. /\ live' \subseteq live /\ DOMAIN mapNewBlock' \subseteq DOMAIN mapNewBlock
        /\ \A r \in DOMAIN mapNewBlock' : mapNewBlock'[r] = mapNewBlock[r]
    BY <2>1 DEF KeptBlocks, Kept, EmptyMap
  <2>3. WorkTypes' BY <2>1, <2>2 DEF WorkInv, WorkTypes
  <2>4. StillThere' BY <2>1 DEF WorkInv, StillThere, Kept, KeptBlocks, Stale
  <2> QED BY <2>1, <2>2, <2>3, <2>4 DEF WorkInv, RootsAgree, HandedOut, HeapFits
<1>2. CASE OtherBlock
  <2>1. /\ bestBlock' = [height |-> bestBlock.height + 1, nTime |-> workTime]
        /\ UNCHANGED <<workTime, pindexPrev, heap, live, mapNewBlock, nExtraNonce, data>>
    BY <1>2 DEF OtherBlock, statics
  <2>2. bestBlock.height \in Nat BY DEF WorkInv, WorkTypes, Best
  <2>3. bestBlock' \in Best /\ bestBlock'.height = bestBlock.height + 1
    BY <2>1, <2>2 DEF Best, WorkInv, WorkTypes
  <2>4. WorkTypes' BY <2>1, <2>3 DEF WorkInv, WorkTypes
  <2>5. \A e \in data : e.hashPrevBlock.height \in Nat /\ e.hashPrevBlock.height <= bestBlock.height
    BY DEF WorkInv, WorkTypes, Best, HandedOut
  <2>6. \A e \in data : e.hashPrevBlock # bestBlock' BY <2>2, <2>3, <2>5
  <2>7. \A q \in DOMAIN heap : heap[q].hashPrevBlock.height \in Nat
    BY DEF WorkInv, WorkTypes, HeapBlock, Best
  <2>8. HandedOut' BY <2>1, <2>2, <2>3, <2>5 DEF WorkInv, HandedOut
  <2>9. HeapFits' BY <2>1, <2>2, <2>3, <2>7 DEF WorkInv, HeapFits
  <2> QED BY <2>1, <2>4, <2>6, <2>8, <2>9 DEF WorkInv, RootsAgree, StillThere
<1>3. CASE PoolChanges \/ WorkTick \/ UNCHANGED workVars
  <2>1. /\ UNCHANGED <<bestBlock, pindexPrev, heap, live, mapNewBlock, nExtraNonce, data>>
        /\ workTime' \in {workTime, workTime + 1}
    BY <1>3 DEF PoolChanges, WorkTick, statics, workVars
  <2>2. workTime' \in Nat BY <2>1 DEF WorkInv, WorkTypes
  <2> QED BY <2>1, <2>2 DEF WorkInv, WorkTypes, RootsAgree, HandedOut, StillThere, HeapFits
<1> QED BY <1>1, <1>2, <1>3, GetNewWorkInv, GetSameWorkInv, SubmitInv DEF WorkNext

(* Whoever solves a header he was given for the best block is paid, for    *)
(* any number of blocks, headers and tips (altcoinrpc.cpp 2041-2090).      *)
THEOREM WorkIsAccepted == WorkSpec => []SolvedWorkAccepted
<1>1. WorkInit => WorkInv
  BY DEF WorkInit, WorkInv, WorkTypes, Best, RootsAgree, HandedOut, StillThere, HeapFits, EmptyMap
<1>2. WorkInv /\ [WorkNext]_workVars => WorkInv' BY WorkInvStep
<1>3. ASSUME WorkInv PROVE SolvedWorkAccepted
  <2> SUFFICES ASSUME NEW d \in data, d.hashPrevBlock = bestBlock
               PROVE  /\ d.hashMerkleRoot \in DOMAIN mapNewBlock /\ d.hashMerkleRoot[1] \in live
                      /\ CheckSubmitted(d.hashMerkleRoot[1],
                                        Restored(heap[d.hashMerkleRoot[1]], d), d)
      BY DEF SolvedWorkAccepted
  <2> DEFINE p == d.hashMerkleRoot[1]
  <2>1. d.hashMerkleRoot \in DOMAIN mapNewBlock /\ p \in live BY <1>3 DEF WorkInv, StillThere
  <2>2. /\ d \in [hashPrevBlock : Best, hashMerkleRoot : Root, nTime : Nat]
        /\ heap[p] \in HeapBlock /\ heap[p].hashPrevBlock = bestBlock
        /\ mapNewBlock[d.hashMerkleRoot] = d.hashMerkleRoot[2]
    BY <1>3, <2>1 DEF WorkInv, WorkTypes, HandedOut, RootsAgree
  <2>3. d.hashMerkleRoot = <<p, mapNewBlock[d.hashMerkleRoot]>> BY <2>2 DEF Root
  <2>4. /\ Restored(heap[p], d).hashPrevBlock = bestBlock /\ Restored(heap[p], d).nTime = d.nTime
        /\ Restored(heap[p], d).scriptSig = mapNewBlock[d.hashMerkleRoot]
    BY <2>2 DEF Restored, HeapBlock
  <2>5. Header(p, Restored(heap[p], d)) = d BY <2>2, <2>3, <2>4 DEF Header
  <2> QED BY <2>1, <2>4, <2>5 DEF CheckSubmitted
<1> QED BY <1>1, <1>2, <1>3, PTL DEF WorkSpec

-----------------------------------------------------------------------------
(* The miner's threads                                                     *)

BlockTypes == [prev : Nat, txs : SUBSET MinerTx, rules : Nat]
ThreadTypes ==
  [pc : {"wait", "start", "best", "create", "collect", "search", "work", "found", "check", "gone"},
   pindexPrev : Nat, block : BlockTypes, aged : BOOLEAN]

MinerTypes ==
  /\ pindexBest \in Nat \ {0} /\ inChain \subseteq MinerTx /\ minerPool \subseteq MinerTx
  /\ miner \in [MinerThread -> ThreadTypes]

(* Chain and pool agree.                                                   *)
PoolFollows ==
  /\ minerPool \cap inChain = {}
  /\ WithParents(inChain) /\ WithParents(minerPool \cup inChain)

(* What a thread read is not newer than the chain, in the order it read.   *)
ReadsInOrder ==
  \A t \in MinerThread :
    /\ miner[t].pindexPrev <= pindexBest
    /\ miner[t].block.prev <= pindexBest
    /\ miner[t].pc \in {"search", "work", "found", "check"} =>
         miner[t].pindexPrev <= miner[t].block.prev
    /\ miner[t].pc = "collect" => miner[t].pindexPrev <= miner[t].block.prev

(* A block for the best one that is finished connects.                     *)
FreshIsValid ==
  \A t \in MinerThread :
    miner[t].pc \in {"search", "work", "found", "check"} /\ miner[t].block.prev = pindexBest
      => Valid(miner[t].block)

MinerInv == MinerTypes /\ PoolFollows /\ ReadsInOrder /\ FreshIsValid /\ refused = FALSE

(* However the best chain moves, it leaves every thread with a stale block.*)
LEMMA ChainMoves ==
  ASSUME MinerInv, NEW xs \in SUBSET MinerTx, SetBestChain(xs),
         WithParents(xs), WithParents(minerPool \cup inChain \cup xs),
         miner' \in [MinerThread -> ThreadTypes], refused' = FALSE,
         \A t \in MinerThread :
           /\ miner'[t].pindexPrev = miner[t].pindexPrev /\ miner'[t].block = miner[t].block
           /\ miner'[t].pc = miner[t].pc \/ (miner[t].pc = "found" /\ miner'[t].pc = "check")
  PROVE  MinerInv'
<1>1. /\ pindexBest' = pindexBest + 1 /\ inChain' = xs
      /\ minerPool' = (minerPool \cup inChain) \ xs /\ pindexBest \in Nat
  BY DEF SetBestChain, MinerInv, MinerTypes
<1>2. MinerTypes' BY <1>1 DEF MinerInv, MinerTypes
<1>3. minerPool' \cup inChain' = minerPool \cup inChain \cup xs BY <1>1
<1>4. PoolFollows' BY <1>1, <1>3 DEF PoolFollows, WithParents
<1>5. \A t \in MinerThread : /\ miner[t].pindexPrev \in Nat /\ miner[t].block.prev \in Nat
                             /\ miner[t].block.prev <= pindexBest /\ miner[t].pindexPrev <= pindexBest
  BY DEF MinerInv, MinerTypes, ThreadTypes, BlockTypes, ReadsInOrder
<1>6. ReadsInOrder' BY <1>1, <1>5 DEF MinerInv, ReadsInOrder
<1>7. \A t \in MinerThread : miner'[t].block.prev # pindexBest' BY <1>1, <1>5
<1> QED BY <1>2, <1>4, <1>6, <1>7 DEF MinerInv, FreshIsValid

(* A thread's own step, which touches nothing but its locals.              *)
LEMMA ThreadMoves ==
  ASSUME MinerInv, UNCHANGED <<node, refused>>, NEW t \in MinerThread, NEW m \in ThreadTypes,
         miner' = [miner EXCEPT ![t] = m],
         m.pindexPrev <= pindexBest, m.block.prev <= pindexBest,
         m.pc \in {"collect", "search", "work", "found", "check"} => m.pindexPrev <= m.block.prev,
         m.pc \in {"search", "work", "found", "check"} /\ m.block.prev = pindexBest => Valid(m.block)
  PROVE  MinerInv'
<1>1. pindexBest' = pindexBest /\ inChain' = inChain /\ minerPool' = minerPool /\ refused' = refused
  BY DEF node
<1>2. miner'[t] = m /\ \A u \in MinerThread \ {t} : miner'[u] = miner[u]
  BY DEF MinerInv, MinerTypes
<1>3. MinerTypes' BY <1>1 DEF MinerInv, MinerTypes
<1>4. ReadsInOrder' BY <1>1, <1>2 DEF MinerInv, ReadsInOrder
<1>5. FreshIsValid' BY <1>1, <1>2 DEF MinerInv, FreshIsValid, Valid, WithParents
<1>6. PoolFollows' BY <1>1 DEF MinerInv, PoolFollows, WithParents
<1> QED BY <1>1, <1>3, <1>4, <1>5, <1>6 DEF MinerInv

LEMMA RunInv ==
  ASSUME MinerInv, NEW t \in MinerThread, Run(t) \/ MinuteOver(t)
  PROVE  MinerInv'
<1> DEFINE l == miner[t]
<1>1. /\ l \in ThreadTypes /\ l.block \in BlockTypes /\ l.block.prev \in Nat /\ l.pindexPrev \in Nat
      /\ pindexBest \in Nat /\ l.pindexPrev <= pindexBest /\ l.block.prev <= pindexBest
      /\ l.pc \in {"collect", "search", "work", "found", "check"} => l.pindexPrev <= l.block.prev
      /\ l.pc \in {"search", "work", "found", "check"} /\ l.block.prev = pindexBest => Valid(l.block)
      /\ miner \in [MinerThread -> ThreadTypes]
  BY DEF MinerInv, MinerTypes, ThreadTypes, BlockTypes, ReadsInOrder, FreshIsValid
<1>2. ASSUME NEW pc \in {"start", "best", "create"}, miner' = [miner EXCEPT ![t].pc = pc],
             UNCHANGED Others
      PROVE  MinerInv'
  <2> DEFINE m == [l EXCEPT !.pc = pc]
  <2>1. m \in ThreadTypes /\ m.pc = pc /\ m.pindexPrev = l.pindexPrev /\ m.block = l.block
    BY <1>1 DEF ThreadTypes
  <2>2. miner' = [miner EXCEPT ![t] = m] BY <1>1, <1>2
  <2>3. UNCHANGED <<node, refused>> BY <1>2 DEF Others
  <2> HIDE DEF m
  <2> QED BY <1>1, <2>1, <2>2, <2>3, ThreadMoves
<1>3. CASE WaitForPeers(t) BY <1>2, <1>3 DEF WaitForPeers
<1>4. CASE ReadUpdated(t) BY <1>2, <1>4 DEF ReadUpdated
<1>5. CASE ReadBest(t)
  <2> DEFINE m == [[l EXCEPT !.pc = "create"] EXCEPT !.pindexPrev = pindexBest]
  <2>1. m \in ThreadTypes /\ m.pc = "create" /\ m.pindexPrev = pindexBest /\ m.block = l.block
    BY <1>1 DEF ThreadTypes
  <2>2. miner' = [miner EXCEPT ![t] = m] /\ UNCHANGED <<node, refused>>
    BY <1>1, <1>5 DEF ReadBest, Others
  <2> HIDE DEF m
  <2>3. /\ m.pindexPrev <= pindexBest /\ m.block.prev <= pindexBest
        /\ m.pc \notin {"collect", "search", "work", "found", "check"}
    BY <1>1, <2>1
  <2> QED BY <2>1, <2>2, <2>3, ThreadMoves
<1>6. CASE CreateNewBlock(t)
  <2> DEFINE m == [l EXCEPT !.pc = "collect", !.block.prev = pindexBest]
  <2>1. m \in ThreadTypes /\ m.pc = "collect" /\ m.pindexPrev = l.pindexPrev
        /\ m.block.prev = pindexBest
    BY <1>1 DEF ThreadTypes, BlockTypes
  <2>2. miner' = [miner EXCEPT ![t] = m] /\ UNCHANGED <<node, refused>>
    BY <1>1, <1>6 DEF CreateNewBlock, Others
  <2> HIDE DEF m
  <2>3. /\ m.pindexPrev <= pindexBest /\ m.block.prev <= pindexBest
        /\ m.pindexPrev <= m.block.prev /\ m.pc \notin {"search", "work", "found", "check"}
    BY <1>1, <2>1
  <2> QED BY <2>1, <2>2, <2>3, ThreadMoves
<1>7. CASE Collect(t)
  <2> DEFINE m == [l EXCEPT !.block.txs = minerPool, !.block.rules = l.block.prev, !.pc = "search"]
  <2>1. minerPool \subseteq MinerTx BY DEF MinerInv, MinerTypes
  <2>2. /\ m \in ThreadTypes /\ m.pindexPrev = l.pindexPrev
        /\ m.block.prev = l.block.prev /\ m.block.txs = minerPool /\ m.block.rules = m.block.prev
    BY <1>1, <2>1 DEF ThreadTypes, BlockTypes
  <2>3. miner' = [miner EXCEPT ![t] = m] /\ UNCHANGED <<node, refused>> /\ l.pc = "collect"
    BY <1>1, <1>7 DEF Collect, Others, Stands
  <2> HIDE DEF m
  <2>4. Valid(m.block) BY <2>2 DEF Valid, MinerInv, PoolFollows
  <2> QED BY <1>1, <2>2, <2>3, <2>4, ThreadMoves
<1>8. ASSUME NEW pc \in {"work", "check", "found"}, NEW aged \in BOOLEAN,
             miner' = [miner EXCEPT ![t] = [[l EXCEPT !.pc = pc] EXCEPT !.aged = aged]],
             l.pc \in {"search", "work", "found", "check"}, UNCHANGED <<node, refused>>
      PROVE  MinerInv'
  <2> DEFINE m == [[l EXCEPT !.pc = pc] EXCEPT !.aged = aged]
  <2>1. m \in ThreadTypes /\ m.pindexPrev = l.pindexPrev /\ m.block = l.block
    BY <1>1 DEF ThreadTypes
  <2>2. miner' = [miner EXCEPT ![t] = m] BY <1>8
  <2> HIDE DEF m
  <2> QED BY <1>1, <1>8, <2>1, <2>2, ThreadMoves
<1>9. l.aged \in BOOLEAN /\ FALSE \in BOOLEAN /\ TRUE \in BOOLEAN BY <1>1 DEF ThreadTypes
<1>10. CASE StartSearch(t)
  <2>1. miner' = [miner EXCEPT ![t] = [[l EXCEPT !.pc = "work"] EXCEPT !.aged = FALSE]]
    BY <1>1, <1>10 DEF StartSearch, SearchStarts
  <2> QED BY <1>8, <1>9, <1>10, <2>1 DEF StartSearch, SearchStarts, Others, Stands
<1>11. ASSUME NEW pc \in {"check", "found"}, miner' = [miner EXCEPT ![t].pc = pc],
              l.pc \in {"search", "work", "found", "check"}, UNCHANGED <<node, refused>>
       PROVE  MinerInv'
  <2>1. [[l EXCEPT !.pc = pc] EXCEPT !.aged = l.aged] = [l EXCEPT !.pc = pc]
    BY <1>1 DEF ThreadTypes
  <2>2. miner' = [miner EXCEPT ![t] = [[l EXCEPT !.pc = pc] EXCEPT !.aged = l.aged]]
    BY <1>1, <1>11, <2>1
  <2> QED BY <1>8, <1>9, <1>11, <2>2
<1>12. CASE Search(t) BY <1>11, <1>12 DEF Search, Stands, Others
<1>13. CASE CheckWork(t)
  <2>1. l.pc = "found" /\ miner' = [miner EXCEPT ![t].pc = "check"]
    BY <1>13 DEF CheckWork, Stands
  <2>2. CASE l.block.prev # pindexBest BY <1>11, <1>13, <2>1, <2>2 DEF CheckWork
  <2>3. CASE l.block.prev = pindexBest
    <3>1. Valid(l.block) BY <1>1, <2>1, <2>3
    <3>2. SetBestChain(inChain \cup l.block.txs) /\ refused' = FALSE
      BY <1>13, <2>3, <3>1 DEF CheckWork, MinerInv
    <3>3. inChain \cup l.block.txs \in SUBSET MinerTx
      BY <1>1 DEF MinerInv, MinerTypes, BlockTypes
    <3>4. WithParents(inChain \cup l.block.txs)
          /\ WithParents(minerPool \cup inChain \cup (inChain \cup l.block.txs))
      BY <3>1 DEF Valid, MinerInv, PoolFollows, WithParents
    <3>5. miner' \in [MinerThread -> ThreadTypes]
          /\ \A u \in MinerThread :
               /\ miner'[u].pindexPrev = miner[u].pindexPrev /\ miner'[u].block = miner[u].block
               /\ miner'[u].pc = miner[u].pc \/ (miner[u].pc = "found" /\ miner'[u].pc = "check")
      <4>1. "check" # "found" /\ [l EXCEPT !.pc = "check"] \in ThreadTypes BY <1>1 DEF ThreadTypes
      <4>2. miner' = [miner EXCEPT ![t] = [l EXCEPT !.pc = "check"]] BY <1>1, <2>1
      <4>3. miner' \in [MinerThread -> ThreadTypes] BY <1>1, <4>1, <4>2
      <4>4. ASSUME NEW u \in MinerThread
            PROVE  /\ miner'[u].pindexPrev = miner[u].pindexPrev /\ miner'[u].block = miner[u].block
                   /\ miner'[u].pc = miner[u].pc \/ (miner[u].pc = "found" /\ miner'[u].pc = "check")
        <5>1. CASE u # t BY <1>1, <4>2, <5>1
        <5>2. CASE u = t
          <6>1. miner'[u] = [l EXCEPT !.pc = "check"] BY <1>1, <4>2, <5>2
          <6> QED BY <1>1, <2>1, <5>2, <6>1 DEF ThreadTypes
        <5> QED BY <5>1, <5>2
      <4> QED BY <4>3, <4>4
    <3> QED BY <3>2, <3>3, <3>4, <3>5, ChainMoves
  <2> QED BY <2>2, <2>3
<1>14. ASSUME NEW pc \in {"wait", "gone"}, miner' = [miner EXCEPT ![t] = [Waiting EXCEPT !.pc = pc]],
              UNCHANGED <<node, refused>>
       PROVE  MinerInv'
  <2> DEFINE m == [Waiting EXCEPT !.pc = pc]
  <2>1. m \in ThreadTypes /\ m.pindexPrev = 1 /\ m.block.prev = 1 /\ m.pc = pc
    BY DEF Waiting, ThreadTypes, BlockTypes
  <2> HIDE DEF m
  <2>2. miner' = [miner EXCEPT ![t] = m] BY <1>14 DEF m
  <2>3. 1 <= pindexBest /\ m.pc \notin {"collect", "search", "work", "found", "check"}
    BY <2>1 DEF MinerInv, MinerTypes
  <2> QED BY <1>14, <2>1, <2>2, <2>3, ThreadMoves
<1>15. CASE StopMining(t) BY <1>14, <1>15 DEF StopMining, Others
<1>16. CASE Break(t)
  <2>1. [Waiting EXCEPT !.pc = "wait"] = Waiting BY DEF Waiting
  <2>2. miner' = [miner EXCEPT ![t] = [Waiting EXCEPT !.pc = "wait"]] /\ UNCHANGED <<node, refused>>
    BY <1>16, <2>1 DEF Break
  <2> QED BY <1>14, <2>2
<1>17. CASE GoOn(t)
  <2> DEFINE m == [l EXCEPT !.pc = "work", !.block.rules = l.pindexPrev]
  <2>1. /\ m \in ThreadTypes /\ m.pindexPrev = l.pindexPrev /\ m.block.txs = l.block.txs
        /\ m.block.prev = l.block.prev /\ m.block.rules = l.pindexPrev
    BY <1>1 DEF ThreadTypes, BlockTypes
  <2>2. /\ miner' = [miner EXCEPT ![t] = m] /\ UNCHANGED <<node, refused>>
        /\ l.pc = "check" /\ l.pindexPrev = pindexBest
    BY <1>1, <1>17 DEF GoOn, Others, Stands, Rebuild
  <2> HIDE DEF m
  <2>3. m.block.prev = pindexBest => Valid(m.block)
    BY <1>1, <2>1, <2>2 DEF Valid
  <2> QED BY <1>1, <2>1, <2>2, <2>3, ThreadMoves
<1>18. CASE MinuteOver(t)
  <2>1. /\ miner' = [miner EXCEPT ![t].aged = TRUE] /\ UNCHANGED <<node, refused>>
        /\ l.pc \in {"work", "found", "check"}
    BY <1>18 DEF MinuteOver, Others
  <2>2. [[l EXCEPT !.pc = l.pc] EXCEPT !.aged = TRUE] = [l EXCEPT !.aged = TRUE]
    BY <1>1 DEF ThreadTypes
  <2>3. miner' = [miner EXCEPT ![t] = [[l EXCEPT !.pc = l.pc] EXCEPT !.aged = TRUE]]
    BY <1>1, <2>1, <2>2
  <2> QED BY <1>8, <1>9, <2>1, <2>3
<1> QED BY <1>3, <1>4, <1>5, <1>6, <1>7, <1>10, <1>12, <1>13, <1>15, <1>16, <1>17, <1>18 DEF Run

LEMMA MinerInvStep ==
  ASSUME MinerInv, [MinerNext]_minerVars
  PROVE  MinerInv'
<1>1. ASSUME NEW x \in MinerTx, AcceptTx(x) PROVE MinerInv'
  <2>1. /\ x \notin minerPool \cup inChain /\ Parent[x] \subseteq minerPool \cup inChain
        /\ minerPool' = minerPool \cup {x} /\ UNCHANGED <<pindexBest, inChain, miner, refused>>
    BY <1>1 DEF AcceptTx
  <2>2. MinerTypes' BY <2>1 DEF MinerInv, MinerTypes
  <2>3. PoolFollows' BY <2>1 DEF MinerInv, PoolFollows, WithParents
  <2>4. ReadsInOrder' BY <2>1 DEF MinerInv, ReadsInOrder
  <2>5. FreshIsValid' BY <2>1 DEF MinerInv, FreshIsValid, Valid, WithParents
  <2> QED BY <2>1, <2>2, <2>3, <2>4, <2>5 DEF MinerInv
<1>2. CASE PeerBlock
  <2>1. PICK xs \in SUBSET (minerPool \cup inChain) : WithParents(xs) /\ SetBestChain(xs)
    BY <1>2 DEF PeerBlock
  <2>2. UNCHANGED <<miner, refused>> BY <1>2 DEF PeerBlock
  <2>3. xs \in SUBSET MinerTx /\ minerPool \cup inChain \cup xs = minerPool \cup inChain
    BY DEF MinerInv, MinerTypes
  <2>4. WithParents(minerPool \cup inChain \cup xs) BY <2>3 DEF MinerInv, PoolFollows
  <2>5. miner' \in [MinerThread -> ThreadTypes] /\ refused' = FALSE
    BY <2>2 DEF MinerInv, MinerTypes
  <2> QED BY <2>1, <2>2, <2>3, <2>4, <2>5, ChainMoves
<1>3. CASE PeersChange \/ DownloadChanges \/ StopGenerating \/ UNCHANGED minerVars
  <2>1. UNCHANGED <<pindexBest, inChain, minerPool, miner, refused>>
    BY <1>3 DEF PeersChange, DownloadChanges, StopGenerating, minerVars, node
  <2> QED BY <2>1 DEF MinerInv, MinerTypes, PoolFollows, ReadsInOrder, FreshIsValid, Valid, WithParents
<1> QED BY <1>1, <1>2, <1>3, RunInv DEF MinerNext

(* However many threads mine, with whatever they read without the lock,    *)
(* the node refuses none of their blocks (main.cpp 3422, 3442, 3673).      *)
THEOREM MinersBlocksAccepted == MinerSpec => []SolvedBlocksAccepted
<1>1. ASSUME MinerInit PROVE MinerInv
  <2>1. Waiting \in ThreadTypes BY DEF Waiting, ThreadTypes, BlockTypes
  <2>2. MinerTypes BY <1>1, <2>1 DEF MinerInit, MinerTypes
  <2>3. PoolFollows BY <1>1 DEF MinerInit, PoolFollows, WithParents
  <2>4. \A t \in MinerThread : miner[t] = Waiting BY <1>1 DEF MinerInit
  <2>5. ReadsInOrder /\ FreshIsValid
    BY <1>1, <2>4 DEF MinerInit, ReadsInOrder, FreshIsValid, Waiting
  <2> QED BY <1>1, <2>2, <2>3, <2>5 DEF MinerInit, MinerInv
<1>2. MinerInv /\ [MinerNext]_minerVars => MinerInv' BY MinerInvStep
<1>3. MinerInv => SolvedBlocksAccepted BY DEF MinerInv, SolvedBlocksAccepted
<1> QED BY <1>1, <1>2, <1>3, PTL DEF MinerSpec

-----------------------------------------------------------------------------
(* CreateNewBlock                                                          *)

(* mapTestPool is what the block has taken and spends so far.              *)
BlockSoFar ==
  /\ vtx \in Seq(Tx)
  /\ mapTestPool.added = {vtx[i] : i \in DOMAIN vtx}
  /\ mapTestPool.spent = UNION {vin[vtx[i]] : i \in DOMAIN vtx}

AssemblyInv == BlockSoFar /\ BlockConnects

LEMMA AddInv ==
  ASSUME AssemblyInv, NEW tx \in Tx, Add(tx)
  PROVE  AssemblyInv'
<1> DEFINE n == Len(vtx)
<1>1. /\ vtx' = Append(vtx, tx) /\ spent' = spent
      /\ mapTestPool' = [spent |-> mapTestPool.spent \cup vin[tx],
                         added |-> mapTestPool.added \cup {tx}]
      /\ FetchInputs(tx) /\ ConnectInputs(tx)
  BY DEF Add, given
<1>2. /\ vtx \in Seq(Tx) /\ n \in Nat /\ DOMAIN vtx = 1 .. n
      /\ vtx' \in Seq(Tx) /\ DOMAIN vtx' = 1 .. n + 1
      /\ vtx'[n + 1] = tx /\ \A i \in 1 .. n : vtx'[i] = vtx[i]
  BY <1>1 DEF AssemblyInv, BlockSoFar
<1>3. 1 .. n + 1 = (1 .. n) \cup {n + 1} BY <1>2
<1>4. BlockSoFar'
  <2>1. {vtx'[i] : i \in DOMAIN vtx'} = {vtx[i] : i \in DOMAIN vtx} \cup {tx}
    BY <1>2, <1>3
  <2>2. UNION {vin[vtx'[i]] : i \in DOMAIN vtx'} = (UNION {vin[vtx[i]] : i \in DOMAIN vtx}) \cup vin[tx]
    BY <1>2, <1>3
  <2> QED BY <1>1, <1>2, <2>1, <2>2 DEF AssemblyInv, BlockSoFar
<1>5. ASSUME NEW i \in 1 .. n + 1
      PROVE  /\ {vtx'[j] : j \in 1 .. i - 1} = {vtx[j] : j \in 1 .. i - 1}
             /\ i - 1 \in 0 .. n
  BY <1>2
<1>6. ASSUME NEW i \in DOMAIN vtx', NEW o \in vin[vtx'[i]]
      PROVE  LET earlier == {vtx'[j] : j \in 1 .. i - 1} IN
             /\ o.hash \in (ChainTx \ Immature) \cup earlier
             /\ o.n < vout[o.hash]
             /\ o \notin spent
             /\ \A t \in earlier : o \notin vin[t]
  <2>1. CASE i \in 1 .. n
    <3>1. i \in DOMAIN vtx /\ o \in vin[vtx[i]] BY <1>2, <1>6, <2>1
    <3>2. {vtx'[j] : j \in 1 .. i - 1} = {vtx[j] : j \in 1 .. i - 1} BY <1>5, <1>2, <1>6
    <3> QED BY <3>1, <3>2 DEF AssemblyInv, BlockConnects
  <2>2. CASE i = n + 1
    <3>1. o \in vin[tx] /\ i - 1 = n BY <1>2, <1>6, <2>2
    <3>2. {vtx'[j] : j \in 1 .. i - 1} = mapTestPool.added
      BY <1>2, <1>5, <1>6, <3>1 DEF AssemblyInv, BlockSoFar
    <3>3. o.hash \in mapTestPool.added \cup ChainTx /\ o.n < vout[o.hash]
          /\ o.hash \notin Immature /\ o \notin mapTestPool.spent /\ o \notin spent
      BY <1>1, <3>1 DEF FetchInputs, ConnectInputs
    <3>4. \A t \in mapTestPool.added : o \notin vin[t]
      BY <3>3 DEF AssemblyInv, BlockSoFar
    <3> QED BY <3>2, <3>3, <3>4
  <2> QED BY <1>2, <1>3, <1>6, <2>1, <2>2
<1>7. BlockConnects' BY <1>1, <1>6 DEF BlockConnects
<1> QED BY <1>4, <1>7 DEF AssemblyInv

(* Whatever pool, fees, priorities and limits the block is filled from, it *)
(* connects after the chain (main.cpp 1405-1456, 3515-3548).               *)
THEOREM AssembledConnects == AssemblySpec => []BlockConnects
<1>1. AssemblyInit => AssemblyInv
  BY DEF AssemblyInit, AssemblyInv, BlockSoFar, BlockConnects
<1>2. AssemblyInv /\ [AssemblyNext]_assemblyVars => AssemblyInv'
  <2> SUFFICES ASSUME AssemblyInv, [AssemblyNext]_assemblyVars PROVE AssemblyInv' OBVIOUS
  <2>1. ASSUME UNCHANGED <<vtx, mapTestPool, spent>> PROVE AssemblyInv'
    BY <2>1 DEF AssemblyInv, BlockSoFar, BlockConnects
  <2>2. ASSUME NEW tx \in Tx, Skip(tx) PROVE AssemblyInv'
    BY <2>1, <2>2 DEF Skip, given
  <2> QED BY <2>1, <2>2, AddInv DEF AssemblyNext, assemblyVars, given
<1> QED BY <1>1, <1>2, PTL DEF AssemblySpec, AssemblyInv

-----------------------------------------------------------------------------
(* The retargets                                                           *)

(* The heights up to which the retargets before height h have measured.    *)
Measured(h) == {0} \cup {g \in 0 .. h - 1 : (g + 1) % nInterval = 0}

Blocks == {chain[i] : i \in DOMAIN chain}

DifficultyInv ==
  /\ chain \in Seq(Blocks) /\ chain # << >>
  /\ \A i \in DOMAIN chain : chain[i].nTime \in Int
  /\ chain[1].nTime = 0
  /\ Max(Measured(Height)) \in 0 .. Height
  /\ measured = BlockAt(Max(Measured(Height))).nTime

LEMMA DivMod ==
  ASSUME NEW n \in Nat \ {0}, NEW a \in Nat
  PROVE  a = n * (a \div n) + (a % n) /\ a \div n \in Nat /\ a % n \in 0 .. n - 1
OBVIOUS

LEMMA MultipleDivides ==
  ASSUME NEW n \in Nat \ {0}, NEW a \in Nat, NEW q \in Nat, a = n * q
  PROVE  a % n = 0
OBVIOUS

LEMMA MultiplesApart ==
  ASSUME NEW n \in Nat \ {0}, NEW a \in Nat, NEW b \in Nat, a % n = 0, b % n = 0, a < b
  PROVE  a + n <= b
<1> DEFINE p == a \div n
           q == b \div n
<1>1. a = n * p /\ b = n * q /\ p \in Nat /\ q \in Nat BY DivMod
<1> HIDE DEF p, q
<1>2. p < q
  <2> SUFFICES ASSUME q <= p PROVE FALSE BY <1>1
  <2>1. PICK d \in Nat : p = q + d BY <1>1
  <2>2. n * p = n * q + n * d BY <1>1, <2>1
  <2>3. n * d >= 0 OBVIOUS
  <2> QED BY <1>1, <2>2, <2>3
<1>3. PICK d \in Nat : q = p + 1 + d BY <1>1, <1>2
<1>4. n * q = n * p + n + n * d BY <1>1, <1>3
<1>5. n * d >= 0 OBVIOUS
<1> QED BY <1>1, <1>4, <1>5

LEMMA MaxIs ==
  ASSUME NEW S \in SUBSET Nat, NEW m \in S, \A g \in S : g <= m
  PROVE  Max(S) = m
<1>1. Max(S) = CHOOSE x \in S : \A y \in S : x >= y BY DEF Max
<1>2. m \in S /\ \A y \in S : m >= y OBVIOUS
<1>3. \A x \in S : (\A y \in S : x >= y) => x = m OBVIOUS
<1> QED BY <1>1, <1>2, <1>3

(* A retarget goes back to the end of the stretch before.                  *)
LEMMA GoesBackToLast ==
  ASSUME NEW h \in Nat, (h + 1) % nInterval = 0
  PROVE  Max(Measured(h)) = IF h + 1 # nInterval THEN h - nInterval ELSE h - (nInterval - 1)
<1> DEFINE n == nInterval
<1>1. n \in Nat \ {0} BY DifficultyAssumption
<1> HIDE DEF n
<1>2. n \in Nat /\ n % n = 0 BY <1>1, MultipleDivides
<1>3. Measured(h) \in SUBSET Nat /\ 0 \in Measured(h) BY DEF Measured
<1>4. ASSUME NEW g \in 0 .. h - 1, (g + 1) % n = 0 PROVE g + n <= h /\ n <= g + 1
  <2>1. (g + 1) + n <= h + 1
    <3>1. g + 1 \in Nat /\ h + 1 \in Nat /\ g + 1 < h + 1 BY <1>4
    <3>2. (g + 1) % n = 0 /\ (h + 1) % n = 0 BY <1>4 DEF n
    <3> QED BY <1>1, <3>1, <3>2, MultiplesApart
  <2>2. n <= g + 1
    <3>1. 0 % n = 0 BY <1>1, MultipleDivides
    <3>2. 0 + n <= g + 1 BY <1>1, <1>4, <3>1, MultiplesApart
    <3> QED BY <3>2, <1>2
  <2> QED BY <2>1, <2>2, <1>2
<1>5. CASE h + 1 = n
  <2>1. Measured(h) = {0} BY <1>4, <1>5, <1>2 DEF Measured, n
  <2>2. Max(Measured(h)) = 0 BY <2>1, <1>3, MaxIs
  <2> QED BY <1>5, <2>2, <1>2 DEF n
<1>6. CASE h + 1 # n
  <2>1. n + n <= h + 1
    <3>1. 0 % n = 0 BY <1>1, MultipleDivides
    <3>2. 0 + n <= h + 1 BY <1>1, <3>1, MultiplesApart DEF n
    <3>3. n < h + 1 BY <3>2, <1>6, <1>2
    <3> QED BY <1>1, <1>2, <3>3, MultiplesApart DEF n
  <2>2. (h - n) \in 0 .. h - 1 BY <2>1, <1>1
  <2>3. ((h - n) + 1) % n = 0
    <3> DEFINE q == (h + 1) \div n
    <3>1. h + 1 = n * q /\ q \in Nat BY <1>1, DivMod DEF n
    <3> HIDE DEF q
    <3>2. q # 0 BY <3>1, <1>1
    <3>3. PICK r \in Nat : q = r + 1 BY <3>1, <3>2
    <3>4. n * q = n * r + n BY <3>3, <1>2
    <3>5. (h - n) + 1 = n * r /\ (h - n) + 1 \in Nat BY <3>1, <3>4, <2>2, <1>2
    <3> QED BY <1>1, <3>5, MultipleDivides
  <2>4. h - n \in Measured(h) BY <2>2, <2>3 DEF Measured, n
  <2>5. \A g \in Measured(h) : g <= h - n BY <1>2, <1>4, <2>2 DEF Measured, n
  <2>6. Max(Measured(h)) = h - n BY <1>3, <2>4, <2>5, MaxIs
  <2> QED BY <1>6, <2>6 DEF n
<1> QED BY <1>5, <1>6

LEMMA OneMoreBlock ==
  ASSUME NEW h \in Nat
  PROVE  /\ (h + 1) % nInterval = 0 => Max(Measured(h + 1)) = h
         /\ (h + 1) % nInterval # 0 => Measured(h + 1) = Measured(h)
<1>1. 0 .. h + 1 - 1 = (0 .. h - 1) \cup {h} OBVIOUS
<1>2. Measured(h + 1) \in SUBSET Nat /\ \A g \in Measured(h + 1) : g <= h BY DEF Measured
<1>3. ASSUME (h + 1) % nInterval = 0 PROVE Max(Measured(h + 1)) = h
  <2>1. h \in Measured(h + 1) BY <1>1, <1>3 DEF Measured
  <2> QED BY <1>2, <2>1, MaxIs
<1>4. ASSUME (h + 1) % nInterval # 0 PROVE Measured(h + 1) = Measured(h)
  BY <1>1, <1>4 DEF Measured
<1> QED BY <1>3, <1>4

(* The next stretch begins where the last one ended, or at genesis.        *)
LEMMA AcceptBlockInv ==
  ASSUME DifficultyInv, NEW nTime \in Int, AcceptBlock(nTime)
  PROVE  DifficultyInv'
<1> DEFINE b == [nTime |-> nTime, nBits |-> NextWorkRequired(nTime)]
           h == Height
           last == Max(Measured(h))
<1>1. chain' = Append(chain, b) /\ b.nTime = nTime BY DEF AcceptBlock
<1>2. measured' = measured + (IF Retargets THEN ActualTimespan ELSE 0) BY DEF AcceptBlock
<1> HIDE DEF b
<1>3. /\ chain \in Seq(Blocks \cup {b}) /\ Len(chain) \in Nat \ {0}
      /\ DOMAIN chain = 1 .. Len(chain)
  BY DEF DifficultyInv
<1>4. /\ chain' \in Seq(Blocks \cup {b}) /\ Len(chain') = Len(chain) + 1
      /\ DOMAIN chain' = 1 .. Len(chain) + 1
      /\ chain'[Len(chain) + 1] = b /\ \A i \in DOMAIN chain : chain'[i] = chain[i]
  BY <1>1, <1>3
<1>5. Blocks' = Blocks \cup {b}
  <2>1. DOMAIN chain' = DOMAIN chain \cup {Len(chain) + 1} BY <1>3, <1>4
  <2> QED BY <1>4, <2>1 DEF Blocks
<1>6. h \in Nat /\ h + 1 = Len(chain) /\ Height' = h + 1 /\ last \in 0 .. h
  BY <1>3, <1>4 DEF Height, DifficultyInv
<1>7. \A g \in 0 .. h : /\ BlockAt(g) = chain[g + 1] /\ chain'[g + 1] = chain[g + 1]
                        /\ chain[g + 1].nTime \in Int
  <2> TAKE g \in 0 .. h
  <2>1. g + 1 \in DOMAIN chain BY <1>3, <1>6
  <2>2. BlockAt(g) = chain[g + 1] BY DEF BlockAt
  <2> QED BY <1>4, <2>1, <2>2 DEF DifficultyInv
<1>8. \A i \in DOMAIN chain' : chain'[i].nTime \in Int
  BY <1>1, <1>3, <1>4 DEF DifficultyInv
<1>9. chain'[1].nTime = 0 /\ chain' # << >> BY <1>3, <1>4 DEF DifficultyInv
<1>10. measured = chain[last + 1].nTime BY <1>6, <1>7 DEF DifficultyInv
<1>11. /\ Max(Measured(h + 1)) \in 0 .. h + 1
       /\ measured' = chain'[Max(Measured(h + 1)) + 1].nTime
  <2>1. CASE (h + 1) % nInterval = 0
    <3>1. Retargets /\ ActualTimespan = chain[h + 1].nTime - BlockAt(h - BlocksToGoBack).nTime
      BY <1>6, <1>7, <2>1 DEF Retargets, ActualTimespan, LastBlock
    <3>2. h - BlocksToGoBack = last
      BY <1>6, <2>1, GoesBackToLast DEF BlocksToGoBack
    <3>3. measured' = measured + (chain[h + 1].nTime - chain[last + 1].nTime)
      BY <1>2, <1>6, <1>7, <3>1, <3>2
    <3>4. chain[h + 1].nTime \in Int /\ chain[last + 1].nTime \in Int BY <1>6, <1>7
    <3>5. measured' = chain[h + 1].nTime BY <1>10, <3>3, <3>4
    <3>6. Max(Measured(h + 1)) = h BY <1>6, <2>1, OneMoreBlock
    <3> QED BY <1>6, <1>7, <3>5, <3>6
  <2>2. CASE (h + 1) % nInterval # 0
    <3>1. ~Retargets BY <2>2 DEF Retargets
    <3>2. measured' = measured BY <1>2, <1>6, <1>7, <1>10, <3>1
    <3>3. Max(Measured(h + 1)) = last BY <1>6, <2>2, OneMoreBlock
    <3> QED BY <1>6, <1>7, <1>10, <3>2, <3>3
  <2> QED BY <2>1, <2>2
<1>12. BlockAt(Max(Measured(Height)))' = chain'[Max(Measured(h + 1)) + 1]
  BY <1>6 DEF BlockAt, Measured
<1>13. Max(Measured(Height))' = Max(Measured(h + 1)) BY <1>6 DEF Measured
<1> QED BY <1>4, <1>5, <1>6, <1>8, <1>9, <1>11, <1>12, <1>13 DEF DifficultyInv

(* Every gap between two blocks enters one retarget, for any interval,     *)
(* spacing and limit and whatever times the blocks have (main.cpp 958).    *)
THEOREM GapsMeasuredOnce == ChainSpec => []EveryGapMeasuredOnce
<1>1. ASSUME ChainInit PROVE DifficultyInv
  <2> DEFINE b == [nTime |-> 0, nBits |-> Easiest]
  <2>1. chain = <<b>> /\ b.nTime = 0 /\ measured = 0 BY <1>1 DEF ChainInit
  <2> HIDE DEF b
  <2>2. Len(chain) = 1 /\ DOMAIN chain = {1} /\ chain[1] = b BY <2>1
  <2>3. chain \in Seq(Blocks) /\ chain # << >> BY <2>1, <2>2 DEF Blocks
  <2>4. Height = 0 BY <2>2 DEF Height
  <2>5. Measured(0) = {0} BY DEF Measured
  <2>6. Max(Measured(Height)) = 0 BY <2>4, <2>5, MaxIs
  <2> QED BY <2>1, <2>2, <2>3, <2>4, <2>6 DEF DifficultyInv, BlockAt
<1>2. DifficultyInv /\ [ChainNext]_chainVars => DifficultyInv'
  <2> SUFFICES ASSUME DifficultyInv, [ChainNext]_chainVars PROVE DifficultyInv' OBVIOUS
  <2>1. CASE UNCHANGED chainVars
    BY <2>1 DEF chainVars, DifficultyInv, Blocks, BlockAt, Height, Measured
  <2>2. ASSUME NEW gap \in Gaps, AcceptBlock(LastBlock.nTime + gap) PROVE DifficultyInv'
    <3>1. Len(chain) \in DOMAIN chain BY DEF DifficultyInv
    <3>2. LastBlock.nTime \in Int BY <3>1 DEF DifficultyInv, LastBlock, BlockAt, Height
    <3>3. LastBlock.nTime + gap \in Int BY <3>2, DifficultyAssumption
    <3> QED BY <2>2, <3>3, AcceptBlockInv
  <2> QED BY <2>1, <2>2 DEF ChainNext
<1>3. DifficultyInv => EveryGapMeasuredOnce BY DEF DifficultyInv, EveryGapMeasuredOnce, Measured
<1> QED BY <1>1, <1>2, <1>3, PTL DEF ChainSpec
=============================================================================
