--------------------------- MODULE MCPoolPatches ---------------------------
\* The instance of PoolPatches that TLC checks: a pool of Uniswap V2, one of
\* Uniswap V3, whose logs carry its state or do not, one of Balancer and one of
\* Curve with three coins.
EXTENDS PoolPatches, TLC

CONSTANTS v2, v3, balancer, curve

MCPatchesOf == (v2 :> {"set"}) @@ (v3 :> {"set", "none"}) @@ (balancer :> {"add"})
               @@ (curve :> {"none"})
MCReads == (v2 :> 1) @@ (v3 :> 1) @@ (balancer :> 1) @@ (curve :> 3)

=============================================================================
