SPECIFICATION SyncSpec
CONSTANTS
    Node = {1, 2}
    Producer = {1}
    NoBlock = NoBlock
    BlockId = {1, 2, 3}
    Time = {1}
    MinChildren = 2
    LookBack = 10
    MaxNumber = 3
    Faults = {}
    MaxFaults = 0
    Peers = {{1, 2}}
    MaxReply = 2
    EmptyBlocks = {1}
    Asking = {1, 2}
    MaxTasks = 1
    MaxBreaks = 1
PROPERTY
    Convergence
CHECK_DEADLOCK FALSE
