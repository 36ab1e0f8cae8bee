SPECIFICATION Spec
CONSTANTS
    Node = {n1, n2}
    Producer = {n1, n2}
    NoBlock = NoBlock
    BlockId = {1, 2, 3, 4}
    Time = {1}
    MinChildren = 2
    LookBack = 10
    MaxNumber = 4
    Faults = {"crash"}
    MaxFaults = 1
SYMMETRY NodeSymmetry
INVARIANT ExecutedOnce
CHECK_DEADLOCK FALSE
