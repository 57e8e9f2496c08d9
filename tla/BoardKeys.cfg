SPECIFICATION BoardSpec
CONSTANTS
    PageSize = 1
    Pages = 4
    ff = ff
    junk = junk
    env = env
    v1 = v1
    v2 = v2
    a = a
    b = b
    none = none
    Erased = ff
    Junk = junk
    EnvWord = env
    None = none
    Contents <- TinyDelivered
    Stores = {}
    Loads = {}
    Keys = {"2", "4", "5", "y", "~", "nul", "x"}
    Files <- TinyFiles
    Loaders <- OneLoader
    Payloads <- TinyPayloads
    Unpackable = {}
    LoaderLen = 1
    UbootLen = 2
    MinImage = 0
    MinBoot = 1
    AutobootDelay = 1
    AskTime = 2
    DrainMax = 2
    MaxBurst = 2
    Endless = FALSE
    MaxSeconds = 2
PROPERTIES
    EraseConfirmed
    AutobootAfterSilence
