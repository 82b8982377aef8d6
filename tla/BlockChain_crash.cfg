\* Blocks that connect and one that is refused; the process dies up to twice,
\* anywhere, and a block of the best chain may fail its check when the node
\* starts again.
CONSTANTS
    Null = Null
    Genesis = "g"
    Block <- CrashBlock
    hashPrevBlock <- CrashPrev
    GetBlockWork <- OneWork
    Tx <- CrashTx
    vin <- CrashVin
    vout <- CrashVout
    vtx <- CrashVtx
    BadContents = {}
    COINBASE_MATURITY = 1
    NonStandard = {}
    Unacceptable = {"u2"}
    BadAtLoad = {"a2", "b1"}
    WalletTx = {"t1", "t2", "t3", "t4", "t5"}
    MaxCrash = 2
SPECIFICATION Spec
INVARIANTS
    BestIsCommitted
    LinksFollowBest
PROPERTIES
    ImplementsBestChain
CHECK_DEADLOCK FALSE
