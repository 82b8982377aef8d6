----------------------------- MODULE BestChain -----------------------------
(***************************************************************************)
(* What the block chain promises to those who read its database: blocks    *)
(* become known after their predecessors, and the best chain moves from    *)
(* one valid chain to another with more work or, when the node starts,     *)
(* back to before a block that fails its check.  At this level no crash,   *)
(* no orphan and no reorganisation in progress shows.                      *)
(***************************************************************************)
EXTENDS Integers

CONSTANTS
    Block, Genesis, Null,
    Prev,       \* Prev[b]: the block before b
    Branch,     \* Branch[b]: b and the blocks before it
    Work,       \* Work[b]: the work of the chain that ends in b
    Valid,      \* Valid[b]: whether all of that chain is valid
    Suspect     \* blocks whose check may fail when the node starts

VARIABLES
    known,      \* the blocks in the index
    tip         \* the last block of the best chain

Init == known = {} /\ tip = Null

Learn(b) ==
    /\ b \notin known
    /\ b # Genesis => Prev[b] \in known
    /\ known' = known \cup {b}
    /\ UNCHANGED tip

Adopt(b) ==
    /\ b \in known
    /\ Valid[b]
    /\ tip # Null => Work[b] > Work[tip]
    /\ tip' = b
    /\ UNCHANGED known

Retreat(b) ==
    /\ tip # Null
    /\ b \in Suspect \cap Branch[tip]
    /\ tip' = Prev[b]
    /\ UNCHANGED known

Next == \E b \in Block : Learn(b) \/ Adopt(b) \/ Retreat(b)

Spec == Init /\ [][Next]_<<known, tip>>
=============================================================================
