\* Two threads nest three locks three deep; the node at work, with a disk
\* that is not full; two threads that open connections, with one slot, to an
\* address which also connects to this node, and to the same by a host name
\* given to -connect, to a one-shot or, behind a name proxy, to -addnode.
CONSTANTS
    Thread = {t1, t2}
    Lock = {A, B, C}
    MaxDepth = 3
    Null = Null
    None = None
    NodeThread = {"message", "socket", "rpc", "relock", "miner", "gui"}
    Role <- MCRole
    LowDisk = FALSE
    Nil = Nil
    Node = {n1, n2}
    Opener = {o1, o2}
    Connector = o1
    OutAddr = {a1}
    Name = {h}
    Resolve <- MCResolve
    InAddr = {a1}
    MaxOutbound = 1
SYMMETRY Symmetry
SPECIFICATION MCSpec
INVARIANTS
    DeadlockIsReported
    NoDeadlock
    OutboundWithinLimit
    NoUseAfterDelete
CHECK_DEADLOCK FALSE
