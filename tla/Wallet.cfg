\* Two branches of different work that carry the same payment, a copy of the
\* wallet that spends too, a block that fails behind the payment; the process
\* may die at any write, and wallet.dat may be replaced by an older copy of it.
CONSTANTS
    Null = Null
    Genesis = "g"
    Block <- MCBlock
    hashPrevBlock <- MCPrev
    GetBlockWork <- MCWork
    Tx <- MCTx
    vin <- MCVin
    vout <- MCVout
    vtx <- MCVtx
    BadContents = {"x2"}
    COINBASE_MATURITY = 1
    NonStandard = {"q1"}
    Mine <- MCMine
    Sendable <- MCSendable
    MaturityMargin = 0
    COPY_DEPTH = 2
    FirstBest = "g"
SPECIFICATION Spec
INVARIANTS
    ChainIsKnown
    MarkedAsSpent
