-------------------------- MODULE MCPoolBootstrap --------------------------
\* The instance of PoolBootstrap that TLC checks: two pools of all pairs of
\* kinds that meet in the order of the reads.
EXTENDS PoolBootstrap

CONSTANTS a, b

Is(ka, kb, priority, patched, wavering) ==
    [kind |-> [p \in Pools |-> IF p = a THEN ka ELSE kb], priority |-> priority,
     patched |-> patched, wavering |-> wavering]

MCConfigs == {Is("v2", "v3", {}, {a, b}, {}), Is("aerodrome_v2", "curve", {a}, {a}, {a}),
              Is("v2", "trader_joe_lb", {}, {a}, {b}), Is("v3", "balancer", {}, {a, b}, {a})}

=============================================================================
