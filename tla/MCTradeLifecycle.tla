-------------------------- MODULE MCTradeLifecycle --------------------------
\* The instance of TradeLifecycle that TLC checks.
EXTENDS TradeLifecycle

P(input, flash, source, net, gas, healthy) ==
    [input |-> input, flash |-> flash, source |-> source, net |-> net, gas |-> gas,
     healthy |-> healthy]

\* Two plans that pass the checks, and one that each check must reject.
MCPlans ==
    {P(10, 0, "SelfFunded", 1, 2, TRUE),
     P(10, 8, "MixedFlashLoan", 2, 1, TRUE),
     P(10, 0, "SelfFunded", 1, 2, FALSE),
     P(11, 0, "SelfFunded", 1, 1, TRUE),
     P(10, 9, "FlashLoan", 1, 1, TRUE),
     P(10, 0, "SelfFunded", -1, 1, TRUE)}

=============================================================================
