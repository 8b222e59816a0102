SPECIFICATION Spec
CONSTANTS
    t1 = t1
    t2 = t2
    c1 = c1
    c2 = c2
    k1 = k1
    NULL = 0
    NoThread = NoThread
    Threads <- TwoThreads
    CPUs <- TwoCPUs
    Affinity <- Anywhere
    Classes <- OneClass
    NumSlabs = 2
    Slabs <- SlabRange
    NBlocks <- OneBlock
    NumVecs = 1
    VecSize = 1
    CacheSize = 1
INVARIANTS NoDoubleAllocation
CHECK_DEADLOCK FALSE
