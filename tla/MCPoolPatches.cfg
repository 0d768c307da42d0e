SPECIFICATION Spec
CONSTANTS
    v2 = v2
    v3 = v3
    balancer = balancer
    curve = curve
    Pools = {v2, v3, balancer, curve}
    PatchesOf <- MCPatchesOf
    Reads <- MCReads
    Counted = {curve}
    MaxLag = 1
    MaxHeight = 3
    MaxLogs = 3
    MaxBlockLogs = 2
INVARIANTS
    PoolsTypeOK
    OnlyExcusedMissing
    AddedOnce
    LastLogHeals
CHECK_DEADLOCK FALSE
