SPECIFICATION Spec
CONSTANTS
    Node = {n1, n2}
    Producer = {n1, n2}
    NoBlock = NoBlock
    BlockId = {1, 2, 3, 4}
    Time = {1, 2}
    MinChildren = 2
    LookBack = 10
    MaxNumber = 4
    Faults = {"throw"}
    MaxFaults = 2
SYMMETRY NodeSymmetry
INVARIANTS
    WholeInv
    ExecutedOnce
    HeadLatest
    NumbersAgree
CHECK_DEADLOCK FALSE
