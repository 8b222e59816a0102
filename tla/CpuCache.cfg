SPECIFICATION Spec
CONSTANTS
    CPUs = {1, 2}
    o1 = o1
    o2 = o2
    o3 = o3
    NoObject = NoObject
    Threads = {t1, t2}
    Affinities <- MCAffinities
    ObjectsOf <- MCObjectsOf
    SizeOf <- MCSizeOf
    MaxCapacity = 1
    Batch = 2
    MaxBytes = 1
    Drained = {1}
    lazy_slabs = TRUE
SYMMETRY Symmetry
INVARIANTS
    ObjectsOnce
    CapacitySound
