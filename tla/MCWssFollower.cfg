SPECIFICATION StartSpec
CONSTANTS
    Blocks <- MCBlocks
    Forks <- MCForks
    BodyOf <- MCBodyOf
    MaxHistory = 1
    ReentrantLocks = FALSE
    MaxSnapshots = 1
    NoBlock = NoBlock
    Backfill = 1
    MaxLag = 1
    MaxDrift = 1
    Confirmations = 1
    RecentLogs = 2
INVARIANTS
    ReconciledIsDelivered
PROPERTIES
    TrunkDeliveredOnce
    ReconcileCatchesUp
CHECK_DEADLOCK FALSE
