SPECIFICATION Spec
CONSTANTS
    a1 = a1
    a2 = a2
    t1 = t1
    t2 = t2
    t3 = t3
    Node = {s1, s2}
    Seed = {s1, s2}
    Trx = {t1, t2, t3}
    Account = {a1, a2}
    Payer <- MCPayer
    Funds <- MCFunds
    MaxIndex = 3
    MaxTrx = 2
    Excluded <- MCNoneExcluded
    MaxBlocks = 4
    Faults = {}
    MaxFaults = 0
INVARIANT
    BlocksAccepted
CHECK_DEADLOCK FALSE
