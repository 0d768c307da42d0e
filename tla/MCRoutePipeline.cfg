SPECIFICATION FairSpec
CONSTANTS
    Plans <- MCPlans
    SelfFunded = {"A"}
    FlashEnabled = {"A", "B"}
    Priced = {"A", "B"}
    HasAave = TRUE
    LoanCap = 4
    Premium = 1
    Parts = 2
    MinProfitParts = 1
    LoanGas = 1
    GasPrices = {1, 2, 3}
    GasCeiling = 2
    DataFees = {1, 2}
    MinNet = 2
    TopK = 1
    ScanLimit = 2
    BalanceTtl = 1
    Ttl <- MCTtl
    Funds = {3}
    MaxFunds = 3
    MaxTime = 3
    MaxRefreshes = 2
CHECK_DEADLOCK FALSE
INVARIANTS
    NotTriedAgain
    RefusedForCause
    TradeIsSound
PROPERTY
    RefreshEnds
