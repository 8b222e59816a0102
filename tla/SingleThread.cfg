SPECIFICATION PartsSpec
CONSTANTS
    b1 = b1
    b2 = b2
    b3 = b3
    NULL = NULL
    BlockPtrs <- ThreeBlocks
    Width = 2
    Die = Die
    NoNumber = NoNumber
    NoName = NoName
    NoVariable = NoVariable
    Untouched = Untouched
    c1 = c1
    c2 = c2
    t1 = t1
    NoThread = NoThread
    None = None
SYMMETRY Symmetry
\* A failed assertion or access, or a parse that has ended, ends the program.
CHECK_DEADLOCK FALSE
INVARIANTS
    BlocksAtHome
    ContainerSound
    BlocksFound
    ParsedWhole
    HeaderTrusted
    SizesServed
    SystemMemorySound
    TreapExact
    FreelistExact
    SamplesExact
