--------------------------- MODULE MCLogRequests ---------------------------
\* The instance of LogRequests that TLC checks: two endpoints, two groups of
\* addresses, and every way to scan three blocks.
EXTENDS LogRequests

MCPlans == {<<"address_logs">>, <<"block_receipts">>, <<"call", "topic_logs">>,
            <<"topic_logs", "call">>}
MCRetries == [m \in Methods |-> IF m = "eth_getBlockReceipts" THEN 0 ELSE 1]
MCUnits == [m \in Methods |-> IF m = "eth_call" THEN 1 ELSE 2]

=============================================================================
