SPECIFICATION Spec
CONSTANTS
    Wrap = 65536
    Word = 1073741824
    TicksPerMs = 29952
    Deadlines = {}
    Delays = {200}
    Steps = {100}
    MaxGap = 5800
    MaxElapsed = 5800
INVARIANT
    DelayLongEnough
CHECK_DEADLOCK FALSE
