\* A block in the middle of a branch is not valid and the process may die once:
\* the best block in memory is not the committed one.
CONSTANTS
    Null = Null
    Genesis = "g"
    Block <- HoleBlock
    hashPrevBlock <- HolePrev
    GetBlockWork <- OneWork
    Tx <- HoleTx
    vin <- HoleVin
    vout <- HoleVout
    vtx <- HoleVtx
    BadContents = {"a2"}
    COINBASE_MATURITY = 1
    NonStandard = {}
    Unacceptable = {}
    BadAtLoad = {}
    WalletTx = {"t1", "t2"}
    MaxCrash = 1
SPECIFICATION Spec
INVARIANTS
    BestIsCommitted
CHECK_DEADLOCK FALSE
