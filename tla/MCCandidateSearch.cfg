SPECIFICATION Spec
CONSTANTS
    Tokens = {1, 2, 3}
    Inputs <- MCInputs
    Price <- MCPrice
    Quality <- MCQuality
    MaxHops = 4
    Cutoff = 0
    MinTrade = 2
INVARIANTS
    SelectedAreCycles
    NothingMissed
CHECK_DEADLOCK FALSE
