SPECIFICATION BoardSpec
CONSTANTS
    PageSize = 1
    Pages = 6
    ff = ff
    junk = junk
    env = env
    v1 = v1
    v2 = v2
    a = a
    b = b
    none = none
    Erased = ff
    Junk = junk
    EnvWord = env
    None = none
    Contents <- Delivered
    Stores = {}
    Loads = {}
    Keys = {"1", "2"}
    Files <- OddFiles
    Loaders <- OneLoader
    Payloads <- SmallPayloads
    Unpackable = {}
    LoaderLen = 2
    UbootLen = 3
    MinImage = 0
    MinBoot = 2
    AutobootDelay = 1
    AskTime = 1
    DrainMax = 1
    MaxBurst = 1
    Endless = FALSE
    MaxSeconds = 1
INVARIANTS
    BootsOnlyReceived
    LastStoreWins
    LoaderSurvives
    EnvironmentKept
