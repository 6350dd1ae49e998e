CONSTANTS
    RegistrySize = 3
    MaxBlocks = 5
    MaxImages = 4
    MaxSources = 3
SPECIFICATION OwnersSpec
CHECK_DEADLOCK FALSE
INVARIANTS
    TextMemoryRooted
    ImagesOwned
    LatestSourceShown
