SPECIFICATION Spec
CONSTANTS
    t1 = t1
    t2 = t2
    t3 = t3
    s1 = s1
    k1 = k1
    NULL = NULL
    Threads <- MCThreads
    Slabs <- MCSlabs
    Classes <- MCClasses
    NBlocks <- MCNBlocks
    NumVecs = 2
    VecSize = 2
SYMMETRY Symmetry
INVARIANTS ClaimedByFirstFree
CHECK_DEADLOCK FALSE
