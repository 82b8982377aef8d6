\* Branches that overtake each other, conflicting transactions, invalid
\* blocks, orphans in every order; the process never dies.
CONSTANTS
    Null = Null
    Genesis = "g"
    Block <- ReorgBlock
    hashPrevBlock <- ReorgPrev
    GetBlockWork <- ReorgWork
    Tx <- ReorgTx
    vin <- ReorgVinAll
    vout <- ReorgVout
    vtx <- ReorgVtx
    BadContents = {}
    COINBASE_MATURITY = 1
    NonStandard = {"t5"}
    Unacceptable = {"u4"}
    BadAtLoad = {}
    WalletTx = {"t1", "t2", "t4", "t6", "w"}
    MaxCrash = 0
SPECIFICATION Spec
INVARIANTS
    TypeOK
    PoolIndexed
    NoConfirmedInPool
    IndexDescribesChain
    MostWorkWins
    ValidOrphansAccepted
PROPERTIES
    BestOnlyImproves
    DisconnectedReturn
CHECK_DEADLOCK FALSE
