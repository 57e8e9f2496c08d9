SPECIFICATION FairSpec
CONSTANTS
    Wrap = 4
    Word = 16
    TicksPerMs = 2999
    Deadlines = {0, 1, 5, 11}
    Delays = {1, 3}
    Steps = {1, 2, 3, 5}
    MaxGap = 9
    MaxElapsed = 24
INVARIANTS
    NeverEarly
    ExactWithinATurn
    LosesWholeTurns
PROPERTY
    WaitEnds
