SPECIFICATION FairSpec
CONSTANTS
    MaxNonce = 1
    Plans <- MCPlans
    NumChannels = 2
    MaxConcurrentTx = 1
    DailyLossLimit = 1
    MinProfit = 1
    MaxPosition = 10
    MaxFlashLoan = 8
    MaxGas = 2
    MaxDay = 1
    MaxRuns = 2
    NoTx = NoTx
INVARIANTS
    TypeOK
    LedgerConsistent
    SignedOnce
    OpenCountExact
    DailyLossBounded
    IncludedIsMined
    PnlIsObservedOutcomes
PROPERTIES
    NonceOnlyAdvances
    SlotReturned
    ImplementsBook
CHECK_DEADLOCK FALSE
