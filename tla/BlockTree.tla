----------------------------- MODULE BlockTree -----------------------------
(***************************************************************************)
(* The tree of block headers.  A block's header fixes its predecessor and  *)
(* its proof of work, so everything here is constant: CBlockIndex::pprev,  *)
(* nHeight and bnChainWork are computed once, by AddToBlockIndex or when   *)
(* the index is loaded, and never change afterwards.                       *)
(***************************************************************************)
EXTENDS Integers, FiniteSets

CONSTANTS
    Block,          \* every block a peer, the miner or a file may deliver
    Genesis,        \* the block whose hash is hashGenesisBlock
    Null,           \* a null pointer, hash 0, or a null CDiskTxPos
    hashPrevBlock,  \* hashPrevBlock[b]: the header field of a block
    GetBlockWork    \* GetBlockWork[b]: 2^256 / (target + 1), at least 1

NonGenesis == Block \ {Genesis}

(* S contains the predecessor of each of its blocks. *)
ClosedUnderPrev(S) == \A b \in S \ {Genesis} : hashPrevBlock[b] \in S

ASSUME TreeAssumption ==
    /\ IsFiniteSet(Block)
    /\ Genesis \in Block
    /\ Null \notin Block
    /\ hashPrevBlock \in [NonGenesis -> Block]
    /\ GetBlockWork \in [Block -> Nat \ {0}]
    \* a header contains its predecessor's hash: every branch reaches genesis
    /\ \A S \in SUBSET Block :
         S # {} /\ (\A b \in S : b # Genesis /\ hashPrevBlock[b] \in S) => FALSE

(* A block and its ancestors: the blocks a walk along pprev visits. *)
Ancestors ==
    [b \in Block |->
        {a \in Block : \A S \in SUBSET Block :
                          (b \in S /\ ClosedUnderPrev(S)) => a \in S}]

nHeight == [b \in Block |-> Cardinality(Ancestors[b]) - 1]

bnChainWork[b \in Block] ==
    (IF b = Genesis THEN 0 ELSE bnChainWork[hashPrevBlock[b]]) + GetBlockWork[b]

(* The successor of a on the branch that ends in b. *)
NextOnBranch(a, b) ==
    CHOOSE c \in Ancestors[b] \ {Genesis} : hashPrevBlock[c] = a
=============================================================================
