SPECIFICATION FairSpec
CONSTANTS
    Files <- MCFiles
    Typed <- MCTyped
    BlockLen = 3
    MaxLen = 29
    PidMod = 8
    Crc <- MCCrc
    Noise = {0, 1, 255}
    MaxFaults = 2
    MaxInvites = 2
    Retries = 2
INVARIANTS
    InOrder
    ShortOnlyAtEot
    SenderKnows
    NoOverflow
PROPERTIES
    CleanDelivery
    ReturnsOrSenderGone
CHECK_DEADLOCK FALSE
