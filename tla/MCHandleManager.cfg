SPECIFICATION HMSpec
CONSTANTS
    c1 = c1
    c2 = c2
    c3 = c3
    c4 = c4
    c5 = c5
    Contexts <- MCContexts
    MaxInt = 5
SYMMETRY MCSymmetry
INVARIANTS
    HMTypeOK
    HandlesPartition
    TableOwnsHeap
    ExhaustionIsReal
CHECK_DEADLOCK FALSE
