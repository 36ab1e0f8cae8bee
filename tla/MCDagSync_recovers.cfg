SPECIFICATION SyncSpec
CONSTANTS
    Node = {1, 2}
    Producer = {1}
    NoBlock = NoBlock
    BlockId = {1, 2}
    Time = {1}
    MinChildren = 2
    LookBack = 10
    MaxNumber = 3
    Faults = {"throw"}
    MaxFaults = 1
    Peers = {{1, 2}}
    MaxReply = 2
    EmptyBlocks = {}
    Asking = {1, 2}
    MaxTasks = 1
    MaxBreaks = 1
INVARIANTS
    NoGap
    OrderInv
PROPERTIES
    ImplementsDag
    Convergence
    ReplyEnds
CHECK_DEADLOCK FALSE
