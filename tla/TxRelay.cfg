\* Transactions in every order, a chain that moves under them, a holding area of two.
CONSTANTS
    Null = Null
    Genesis = "g"
    Block <- RelayBlock
    hashPrevBlock <- RelayPrev
    GetBlockWork <- RelayWork
    Tx <- RelayTx
    vin <- RelayVin
    vout <- RelayVout
    vtx <- RelayVtx
    BadContents = {}
    COINBASE_MATURITY = 1
    NonStandard = {}
    MAX_ORPHAN_TRANSACTIONS = 2
    Oversized = {"q"}
    Free = {"d"}
    WalletTx = {"p1", "p2", "q", "c", "e"}
SPECIFICATION Spec
INVARIANTS
    TypeOK
    OrphansIndexed
    CascadeComplete
    AcceptedNotHeld
CHECK_DEADLOCK FALSE
