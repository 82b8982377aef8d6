\* Keys: two threads and a pool of one key, with restarts at any point and
\* encryption; two relocking threads at a time; a thread that takes cs_wallet
\* and one that does not on the wallet and the chain's database.
\* Blocks: chains over three retargets of three blocks; every pool of seven
\* transactions, whatever they pay and the chain has spent; a thread, a chain
\* that moves three times and two transactions; three blocks for getwork.
CONSTANTS
    Thread = {t1, t2}
    KeyPoolSize = 1
    MaxKeys = 6
    Relocker = {r1, r2}
    Timeouts = {0, 1, 3}
    Null = Null
    DbThread = {rpc, miner}
    Locker = {rpc}
    File = {"wallet.dat", "blkindex.dat"}
    wallet = "wallet.dat"
    NoThread = NoThread
    MaxUses = 3
    nTargetSpacing = 4
    nInterval = 3
    nMedianTimeSpan = 3
    bnProofOfWorkLimit = 1000
    ByteBase = 4
    fTestNet = TRUE
    Gaps <- MCGaps
    MaxHeight = 9
    Tx <- MCTx
    ChainTx <- MCChainTx
    vin <- MCvin
    vout <- MCvout
    Immature = {"base"}
    NotFinal = {"timed"}
    Bytes <- MCBytes
    SigOps <- MCSigOps
    Dust <- MCDust
    Priority <- MCPriority
    FreePriority = 2
    Fees = {0, 27, 900000}
    MAX_BLOCK_SIZE_GEN = 500000
    MAX_BLOCK_SIGOPS = 20000
    x = x
    y = y
    MinerThread = {m1}
    MinerTx = {x, y}
    Parent <- MCParent
    MaxTip = 4
    MaxBreaks = 2
    NoBlock = NoBlock
    MaxBlocks = 3
    MaxWorkTip = 2
    MaxNonce = 3
    MaxWorkTime = 2
SPECIFICATION MCSpec
INVARIANTS
    PoolReadable
    OneOwner
    KeptForGood
    KeysSaved
    HandlesLive
    OneWholeCopy
    EveryGapMeasuredOnce
    BlockConnects
    SolvedBlocksAccepted
    SolvedWorkAccepted
PROPERTIES
    LockedAgain
    CopiesComplete
    PoolGetsMined
CHECK_DEADLOCK FALSE
