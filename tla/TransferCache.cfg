SPECIFICATION Spec
CONSTANTS
    kCacheSize = 1
    MaxEmbed = 1
    Garbage = Garbage
    Threads = {t1, t2}
    Spans = {1, 2}
    B <- MCB
    PerSpan = 2
    FirstSlots <- MCFirst
    MaxSlots <- MCMax
    NoThread = NoThread
SYMMETRY Symmetry
INVARIANTS
    ObjectsInOnePlace
    CountsExact
