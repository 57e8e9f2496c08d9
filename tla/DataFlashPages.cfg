SPECIFICATION Spec
CONSTANTS
    PageSize = 2
    Pages = 2
    d1 = d1
    d2 = d2
    erased = erased
    junk = junk
    Data <- MCData
    Erased = erased
    Junk = junk
    Contents <- MCContents
    Stores <- PageStores
    Loads <- PageLoads
    MaxPolls = 1
    ReadChunk = 2
    BigPages = 2
    BusyStart = TRUE
INVARIANTS
    VerifiedStored
    LoadedFaithfully
    Confined
    CommandsWhenReady
