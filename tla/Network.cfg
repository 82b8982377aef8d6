\* Three nodes in a line of which one finds a block, with two connections;
\* three peers, one honest, that announce one transaction; five alerts from
\* two peers that come and go; two addresses with two ports from two sources
\* in buckets of one place, and two restarts.
CONSTANTS
    SyncNode = {"a", "b", "c"}
    Outbound <- MCOutbound
    Block <- MCBlock
    Genesis = "g"
    Null = Null
    hashPrevBlock <- MCPrev
    GetBlockWork <- MCWork
    InitialBest <- MCBest
    nLimit = 2
    Minable = {"s2"}
    MaxConnects = 2
    Peer = {p, q, h}
    Honest = {h}
    Item = {x}
    StartTime = 4
    Second = 5
    Retry = 10
    LastAnnounce = 5
    MaxAnnounce = 4
    MaxTime = 14
    AlertPeer = {p, q}
    Alert = {"a1", "a2", "a3", "a4", "a5"}
    nID <- MCID
    nCancel <- MCCancel
    setCancel <- MCSetCancel
    nExpiration <- MCExpiration
    nRelayUntil <- MCRelayUntil
    AppliesToMe = {"a1", "a2", "a3", "a5"}
    AppliesToVersion <- MCVersions
    MaxAlertTime = 3
    MaxAlertConnects = 2
    a1 = a1
    a2 = a2
    s1 = s1
    s2 = s2
    NetAddr = {a1, a2}
    Port = {1, 2}
    Source = {s1, s2}
    NewBuckets = {1, 2}
    TriedBuckets = {1, 2}
    NewBucketOf <- MCNewBucketOf
    TriedBucketOf <- MCTriedBucketOf
    NewBucketSize = 1
    TriedBucketSize = 1
    BucketsPerAddress = 2
    GetAddrPercent = 50
    MaxId = 3
    NoFile = NoFile
    MaxRestarts = 2
SPECIFICATION MCSpec
INVARIANTS
    AppliesIsTold
    Consistent
    SurvivesRestart
PROPERTIES
    CatchesUp
    AnnouncedIsHad
CHECK_DEADLOCK FALSE
