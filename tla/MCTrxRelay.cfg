SPECIFICATION RelaySpec
CONSTANTS
    a1 = a1
    NoSeed = NoSeed
    NoTrx = NoTrx
    Local = n1
    Node = {s1, s2, n1}
    Seed = {s1, s2}
    Trx = {t1}
    Account = {a1}
    Payer <- MCPayer
    Funds <- MCFunds
    MaxIndex = 3
    MaxTrx = 2
    Excluded <- MCExcluded
    MaxBlocks = 2
    Faults = {"throw", "crash"}
    MaxFaults = 1
    MaxBreaks = 1
    Returning = {s1, s2, n1}
INVARIANTS
    RelayInv
    OneSeed
PROPERTIES
    ImplementsPool
    Delivered
CHECK_DEADLOCK FALSE
