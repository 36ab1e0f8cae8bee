SPECIFICATION Spec
CONSTANTS
    a1 = a1
    a2 = a2
    t1 = t1
    t2 = t2
    t3 = t3
    Node = {s1, n1}
    Seed = {s1}
    Trx = {t1, t2, t3}
    Account = {a1}
    Payer <- MCOnePayer
    Funds <- MCTwoUnits
    MaxIndex = 3
    MaxTrx = 1
    Excluded <- MCNoneExcluded
    MaxBlocks = 4
    Faults = {"throw", "crash"}
    MaxFaults = 2
INVARIANTS
    SingleInv
    PendingNotExecuted
    AtMostOnce
    BlocksAccepted
CHECK_DEADLOCK FALSE
