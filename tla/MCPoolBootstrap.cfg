SPECIFICATION Spec
CONSTANTS
    a = a
    b = b
    Pools = {a, b}
    Configs <- MCConfigs
    FetchUnseen = FALSE
    ReplayMax = 1
    Backfill = 1
    MaxLag = 1
    MaxHeight = 3
    MaxLogs = 2
INVARIANTS
    LabelIsTrue
PROPERTIES
    CachedStays
CHECK_DEADLOCK FALSE
