SPECIFICATION Spec
CONSTANTS
    Node = {n1, n2}
    Producer = {n1, n2}
    NoBlock = NoBlock
    BlockId = {1, 2, 3, 4}
    Time = {1}
    MinChildren = 2
    LookBack = 10
    MaxNumber = 4
    Faults = {"throw", "crash"}
    MaxFaults = 2
SYMMETRY NodeSymmetry
INVARIANTS
    DagInv
    TypeOK
    ParentRank
    AncestorsStored
    ChildrenLinked
    LastExists
    NumbersUnique
CHECK_DEADLOCK FALSE
