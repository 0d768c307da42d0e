SPECIFICATION Spec
CONSTANTS
    Configs <- MCConfigs
    Seeds <- MCSeeds
    CallChunk = 1
    LogChunk = 2
    MaxRetries = 2
    MaxLag = 1
    MaxHeight = 3
    MaxPools = 2
INVARIANTS
    NothingPassedOver
PROPERTIES
    KeptInFile
CHECK_DEADLOCK FALSE
