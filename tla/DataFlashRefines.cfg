SPECIFICATION FairSpec
CONSTANTS
    PageSize = 2
    Pages = 3
    d1 = d1
    d2 = d2
    erased = erased
    junk = junk
    Data <- MCData
    Erased = erased
    Junk = junk
    Contents <- MCContents
    Stores <- WholeStores
    Loads <- PageLoads
    MaxPolls = 2
    ReadChunk = 3
    BigPages = 16384
    BusyStart = FALSE
INVARIANTS
    NeighboursKept
    WriteIsRight
PROPERTIES
    ImplementsStorage
    OperationReturns
