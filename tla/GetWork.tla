------------------------------ MODULE GetWork ------------------------------
(***************************************************************************)
(* getwork (src/src/altcoinrpc.cpp 1989-2092): the node hands out headers  *)
(* and keeps the blocks they belong to, in variables that live from call   *)
(* to call.  Every call holds cs_main; between the calls the chain, the    *)
(* pool and the clock move on.  The network is the main one, where nBits   *)
(* follows from the previous block; on the test network UpdateTime changes *)
(* it as well, and getwork does not put it back.                           *)
(***************************************************************************)
EXTENDS Integers, FiniteSets, Functions

CONSTANTS
  NoBlock,
  MaxBlocks,   \* bound on the blocks that CreateNewBlock makes
  MaxWorkTip,  \* bounds on the chain, the extra nonce and the clock
  MaxNonce,
  MaxWorkTime

ASSUME GetWorkAssumption ==
  /\ {MaxBlocks, MaxWorkTip, MaxNonce, MaxWorkTime} \subseteq Nat
  /\ NoBlock \notin Nat

Pointer == 1 .. MaxBlocks

VARIABLES
  bestBlock,       \* [height, nTime] of the best block
  workTime,
  pending,         \* nTransactionsUpdated # nTransactionsUpdatedLast
  pindexPrev,
  pblock,          \* the pointer; NoBlock before the first call
  heap,            \* what the pointers stand for
  live,            \* the blocks that are not deleted, which is vNewBlock
  mapNewBlock,     \* a header's hashMerkleRoot to the block and scriptSig
  nExtraNonce,
  lastPrevBlock,   \* IncrementExtraNonce's own: the block nExtraNonce counts for
  data             \* headers that were handed out

workVars == <<bestBlock, workTime, pending, pindexPrev, pblock, heap, live, mapNewBlock,
              nExtraNonce, lastPrevBlock, data>>
statics == <<pindexPrev, pblock, heap, live, mapNewBlock, nExtraNonce, lastPrevBlock, data>>

EmptyMap == [r \in {} |-> NoBlock]

WorkInit ==
  /\ bestBlock = [height |-> 0, nTime |-> 0] /\ workTime = 0 /\ pending = FALSE
  /\ pindexPrev = NoBlock /\ pblock = NoBlock /\ nExtraNonce = 0 /\ lastPrevBlock = NoBlock
  /\ heap = [p \in {} |-> NoBlock] /\ live = {} /\ mapNewBlock = EmptyMap
  /\ data = {}

-----------------------------------------------------------------------------
(* The block that CreateNewBlock returns; its contents are the pointer's.  *)
NewBlock(prev) == [hashPrevBlock |-> prev, nTime |-> workTime, scriptSig |-> NoBlock]

UpdateTime(b) == [b EXCEPT !.nTime = workTime]

NonceAfter(prev) == IF lastPrevBlock # prev THEN 1 ELSE nExtraNonce + 1

(* UpdateTime, IncrementExtraNonce and the entry in mapNewBlock.           *)
HandOut(p, h, saved) ==
  LET updated == UpdateTime(h[p])
      sig == [nTime |-> workTime, extra |-> NonceAfter(updated.hashPrevBlock)]
      root == <<p, sig>>
  IN /\ nExtraNonce < MaxNonce \/ lastPrevBlock # updated.hashPrevBlock
     /\ nExtraNonce' = sig.extra /\ lastPrevBlock' = updated.hashPrevBlock
     /\ heap' = [h EXCEPT ![p] = [updated EXCEPT !.scriptSig = sig]]
     /\ mapNewBlock' = [r \in DOMAIN saved \cup {root} |-> IF r = root THEN sig ELSE saved[r]]
     /\ data' = data \cup {[hashPrevBlock |-> updated.hashPrevBlock, hashMerkleRoot |-> root,
                            nTime |-> workTime]}

Stale == pindexPrev # bestBlock
KeptBlocks == IF Stale THEN {} ELSE live

Kept == IF Stale THEN EmptyMap ELSE mapNewBlock

GetNewWork ==
  \E p \in Pointer \ DOMAIN heap :
    /\ \A q \in Pointer \ DOMAIN heap : p <= q
    /\ Stale \/ pending  \* and a minute has passed, which is left open
    /\ pindexPrev' = bestBlock /\ pblock' = p /\ pending' = FALSE
    /\ live' = KeptBlocks \cup {p}
    /\ HandOut(p, [q \in DOMAIN heap \cup {p} |-> IF q = p THEN NewBlock(bestBlock) ELSE heap[q]],
               Kept)
    /\ UNCHANGED <<bestBlock, workTime>>

(* CreateNewBlock throws: what was done before it stays.                   *)
GetNewWorkFails ==
  /\ Stale \/ pending
  /\ pindexPrev' = bestBlock /\ pending' = FALSE
  /\ live' = KeptBlocks /\ mapNewBlock' = Kept
  /\ UNCHANGED <<bestBlock, workTime, pblock, heap, nExtraNonce, lastPrevBlock, data>>

(* What a call does whose block was deleted by one that failed is          *)
(* undefined; the program is not followed there.                           *)
GetSameWork ==
  /\ ~Stale /\ pblock \in live
  /\ HandOut(pblock, heap, mapNewBlock)
  /\ UNCHANGED <<bestBlock, workTime, pending, pindexPrev, pblock, live>>

-----------------------------------------------------------------------------
RestoredTime(b, d) == [b EXCEPT !.nTime = d.nTime]  \* mutant: the last scriptSig stays

(* What the submitted header d puts back into its block.                   *)
Restored(b, d) == [b EXCEPT !.nTime = d.nTime, !.scriptSig = mapNewBlock[d.hashMerkleRoot]]

Header(p, b) ==
  [hashPrevBlock |-> b.hashPrevBlock, hashMerkleRoot |-> <<p, b.scriptSig>>, nTime |-> b.nTime]

(* The block's proof of work is the one that was found, if its header is   *)
(* the one it was found for.                                               *)
CheckSubmitted(p, b, d) == Header(p, b) = d /\ b.hashPrevBlock = bestBlock

Submit(d) ==
  /\ d \in data /\ bestBlock.height < MaxWorkTip
  /\ d.hashMerkleRoot \in DOMAIN mapNewBlock
  /\ LET p == d.hashMerkleRoot[1]
         b == Restored(heap[p], d)
     IN /\ heap' = [heap EXCEPT ![p] = b]
        /\ bestBlock' = IF CheckSubmitted(p, b, d)
                      THEN [height |-> bestBlock.height + 1, nTime |-> b.nTime]
                      ELSE bestBlock
  /\ UNCHANGED <<workTime, pending, pindexPrev, pblock, live, mapNewBlock, nExtraNonce, lastPrevBlock,
                 data>>

-----------------------------------------------------------------------------
OtherBlock ==
  /\ bestBlock.height < MaxWorkTip
  /\ bestBlock' = [height |-> bestBlock.height + 1, nTime |-> workTime]
  /\ UNCHANGED <<workTime, pending, statics>>

PoolChanges ==
  /\ ~pending /\ pending' = TRUE
  /\ UNCHANGED <<bestBlock, workTime, statics>>

WorkTick ==
  /\ workTime < MaxWorkTime /\ workTime' = workTime + 1
  /\ UNCHANGED <<bestBlock, pending, statics>>

WorkNext ==
  \/ GetNewWork \/ GetNewWorkFails \/ GetSameWork
  \/ \E d \in data : Submit(d)
  \/ OtherBlock \/ PoolChanges \/ WorkTick

WorkSpec == WorkInit /\ [][WorkNext]_workVars

-----------------------------------------------------------------------------
(* Whoever solves a header he was given for the best block is paid: the    *)
(* node can still put together the block it belongs to, however often it   *)
(* has handed out others since (altcoinrpc.cpp 2041-2049, 2080-2090).      *)
SolvedWorkAccepted ==
  \A d \in data : d.hashPrevBlock = bestBlock =>
    /\ d.hashMerkleRoot \in DOMAIN mapNewBlock /\ d.hashMerkleRoot[1] \in live
    /\ LET p == d.hashMerkleRoot[1] IN CheckSubmitted(p, Restored(heap[p], d), d)
=============================================================================
