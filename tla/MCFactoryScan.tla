--------------------------- MODULE MCFactoryScan ---------------------------
\* The instance of FactoryScan that TLC checks: every kind of DEX, two of them
\* together.
EXTENDS FactoryScan

MCConfigs == {<<"v2", "lb_pairs">>, <<"v3">>, <<"solidly">>, <<"slipstream">>, <<"lb">>, <<"curve">>,
              <<"balancer">>}
MCSeeds == {2}

=============================================================================
