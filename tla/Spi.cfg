SPECIFICATION Spec
CONSTANTS
    Codes = {12, 16, 36, 44}
    Requests <- MCRequests
    RamSize = 2
    Watched <- MCWatched
    First <- MCFirst
    Elsewhere = 99
    MaxPolls = 1
    MaxCalls = 3
INVARIANTS
    Truthful
    LeftoverInProbe
PROPERTY
    ChipObeys
CHECK_DEADLOCK FALSE
