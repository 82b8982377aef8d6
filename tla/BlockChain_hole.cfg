\* A block in the middle of a branch is not valid; the process dies up to twice,
\* so that blocks before and behind it are postponed.
CONSTANTS
    Null = Null
    Genesis = "g"
    Block <- HoleBlock
    hashPrevBlock <- HolePrev
    GetBlockWork <- OneWork
    Tx <- HoleTx
    vin <- HoleVin
    vout <- HoleVout
    vtx <- HoleVtx
    BadContents = {"a2"}
    COINBASE_MATURITY = 1
    NonStandard = {}
    Unacceptable = {}
    BadAtLoad = {}
    WalletTx = {"t1", "t2"}
    MaxCrash = 2
SPECIFICATION FairSpec
PROPERTIES
    HandlersReturn
CHECK_DEADLOCK FALSE
