\* A coinbase that is repeated once it is spent.
CONSTANTS
    Null = Null
    Genesis = "g"
    Block <- RepeatBlock
    hashPrevBlock <- RepeatPrev
    GetBlockWork <- OneWork
    Tx <- RepeatTx
    vin <- RepeatVin
    vout <- RepeatVout
    vtx <- RepeatVtx
    BadContents = {}
    COINBASE_MATURITY = 1
    NonStandard = {}
    Unacceptable = {}
    BadAtLoad = {}
    WalletTx = {"t4"}
    MaxCrash = 0
SPECIFICATION Spec
INVARIANTS
    BestChainDisconnects
CHECK_DEADLOCK FALSE
