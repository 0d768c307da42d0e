SPECIFICATION PlanSpec
CONSTANTS
    Markets <- MCMarkets
    Verifying = {TRUE, FALSE}
    MinTrade = 2
    MaxPosition = 24
    MaxParallel = 2
    EdgeLimit = 2
    Slices = 4
    Premium = 1
    Parts = 10
    Narrow = 2
    FastRounds = 2
    FastDense = 2
    WideRounds = 3
    WideDense = 2
    SeedCount = 2
    LbPoints = 3
    Refinements = 3
    Probes = 1
    HasQuoter = TRUE
    EarlyExit = TRUE
    ProbeAnew = FALSE
    VerifyAnew = FALSE
CHECK_DEADLOCK FALSE
INVARIANTS
    PlanTypeOK
    WithinCapacity
    TriedIsKept
