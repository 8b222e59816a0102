SPECIFICATION Spec
CONSTANTS
    AddressPages = 8
    TagMask = 4
    kMinSystemAlloc = 2
    kMinMmapAlloc = 4
    Threads = {t1, t2}
    kMaxPages = 2
    kLeafLength = 4
    Requests = {1, 3}
    AlignedRequests <- MCAligned
    ReleaseSizes = {1}
    Limits <- MCLimits
    NoLimit = NoLimit
    MaxSpans = 3
SYMMETRY Symmetry
INVARIANTS
    PageMapSound
    FreeListsExact
    InUseOnce
PROPERTIES
    HeldSpansStay
