SPECIFICATION FairSpec
CONSTANTS
    Blocks <- MCBlocks
    Forks <- MCForks
    MaxHistory = 2
    ReentrantLocks = FALSE
    MaxSnapshots = 2
    NoBlock = NoBlock
    Backfill = 1
    MaxLag = 1
    MaxDrift = 1
INVARIANTS
    FollowerTypeOK
    NoHeightSkipped
    StoreConsistent
PROPERTY
    CatchesUp
CHECK_DEADLOCK FALSE
