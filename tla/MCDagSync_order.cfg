SPECIFICATION SyncSpec
CONSTANTS
    Node = {1, 2, 3}
    Producer = {1, 2}
    NoBlock = NoBlock
    BlockId = {1, 2, 3, 4}
    Time = {1}
    MinChildren = 2
    LookBack = 10
    MaxNumber = 4
    Faults = {}
    MaxFaults = 0
    Peers = {{1, 2}, {2, 3}}
    MaxReply = 1
    EmptyBlocks = {}
    Asking = {3}
    MaxTasks = 0
    MaxBreaks = 0
INVARIANTS
    ReplyInOrder
    NoGap
CHECK_DEADLOCK FALSE
