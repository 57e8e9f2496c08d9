SPECIFICATION FairSpec
CONSTANTS
    Size = 8
    QuickSize = 4
    Bits = 6
    Faults <- MCFaults
    Refreshes = 8
INVARIANTS
    ReadyBeforeUse
    TestsTell
PROPERTY
    Restarts
CHECK_DEADLOCK FALSE
