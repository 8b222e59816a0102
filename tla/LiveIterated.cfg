SPECIFICATION TestedSpec
CONSTANTS
    b1 = b1
    b2 = b2
    b3 = b3
    NULL = NULL
    BlockPtrs <- ThreeBlocks
    Width = 2
    Die = Die
    NoNumber = NoNumber
    NoName = NoName
    NoVariable = NoVariable
    Untouched = Untouched
    c1 = c1
    c2 = c2
    t1 = t1
    NoThread = NoThread
    None = None
SYMMETRY Symmetry
\* A failed assertion or access ends the program.
CHECK_DEADLOCK FALSE
INVARIANT
    LiveIterated
