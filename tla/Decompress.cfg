SPECIFICATION FairSpec
CONSTANTS
    Calls <- MCCalls
    Behind = {0, 33, 255}
    Overhead = 6
INVARIANTS
    Inverts
    WithinRoom
    CutAtBlocks
    LooksOneByteBehind
PROPERTY
    Returns
CHECK_DEADLOCK FALSE
