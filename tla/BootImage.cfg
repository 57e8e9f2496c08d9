SPECIFICATION Spec
CONSTANTS
    Room = 5
    MinLength = 3
    MinImage = 1
    Bytes = {0, 1, 4, 90, 128, 255}
    Files <- MCFiles
    Areas <- MCAreas
    Bursts <- MCBursts
    Lengths <- MCLengths
INVARIANTS
    IsRemainder
    BootJudges
CHECK_DEADLOCK FALSE
