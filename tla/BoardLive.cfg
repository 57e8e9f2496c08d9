SPECIFICATION BoardFairSpec
CONSTANTS
    PageSize = 1
    Pages = 4
    ff = ff
    junk = junk
    env = env
    v1 = v1
    v2 = v2
    a = a
    b = b
    none = none
    Erased = ff
    Junk = junk
    EnvWord = env
    None = none
    Contents <- TinyDelivered
    Stores <- BoardStores
    Loads <- BoardLoads
    Keys = {"2", "5", "y"}
    Files <- TinyFiles
    Loaders <- OneLoader
    Payloads <- TinyPayloads
    Unpackable = {}
    LoaderLen = 1
    UbootLen = 2
    MinImage = 0
    MinBoot = 1
    AutobootDelay = 1
    AskTime = 1
    DrainMax = 1
    MaxBurst = 1
    Endless = TRUE
    MaxSeconds = 1
PROPERTIES
    UsesStorage
    MenuReturns
    AutobootResolves
