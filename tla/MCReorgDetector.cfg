SPECIFICATION DetectorSpec
CONSTANTS
    Blocks <- MCBlocks
    MaxHistory = 4
    ReentrantLocks = TRUE
INVARIANTS
    TypeOK
    IndexesAgree
PROPERTIES
    NoSilentRewrite
