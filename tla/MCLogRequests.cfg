SPECIFICATION Spec
CONSTANTS
    None = None
    Public = p
    Fallback = f
    Preconf = None
    Groups = {g1, g2}
    Whole = Whole
    Plans <- MCPlans
    TopicFallback = TRUE
    ChunkBlocks = 3
    RangeCap = 2
    ReceiptBlocks = 2
    MinChunk = 2
    ChunkRetries = 1
    Concurrency = 2
    Retries <- MCRetries
    Units <- MCUnits
    Capacity = 2
    Threshold = 2
    To = 3
INVARIANTS
    WholeRange
    FailsAfterAll
PROPERTIES
    ScanEnds
CHECK_DEADLOCK FALSE
