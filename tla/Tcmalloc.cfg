SPECIFICATION PartsSpec
CONSTANTS
    t0 = t0
    t1 = t1
    t2 = t2
    None = None
    kPages = 4
    kNumHugePages = 1
    HugePages <- MCHugePages
    NoTracker = NoTracker
    Threads <- TwoThreads
    MinCacheLimit = 1
    MinSlack = 1
    Requests = {1, 3, 5}
    AlignedRequests = {4}
    ReleaseSizes = {1}
    Limits <- MCLimits
    NoLimit = NoLimit
    MaxSpans = 2
    MaxUnaccounted = 0
SYMMETRY Symmetry
INVARIANTS
    LimitsExact
    CachesFound
    ObjectsHome
    PagesLead
    ReportsTrue
    LiveSpansKept
    HugepagesInOnePlace
    ReturnedIsUnbacked
    FillerExact
