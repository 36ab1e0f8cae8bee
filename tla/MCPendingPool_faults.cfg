SPECIFICATION Spec
CONSTANTS
    a1 = a1
    a2 = a2
    t1 = t1
    t2 = t2
    t3 = t3
    Node = {s1, s2}
    Seed = {s1, s2}
    Trx = {t1, t2, t3}
    Account = {a1, a2}
    Payer <- MCPayer
    Funds <- MCFunds
    MaxIndex = 0
    MaxTrx = 2
    Excluded <- MCExcluded
    MaxBlocks = 3
    Faults = {"throw", "crash", "torn"}
    MaxFaults = 2
INVARIANTS
    PoolInv
    TypeOK
    PoolLayers
    PoolValid
CHECK_DEADLOCK FALSE
