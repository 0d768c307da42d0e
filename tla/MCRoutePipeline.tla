--------------------------- MODULE MCRoutePipeline ---------------------------
(* Two candidates that share pools and pairs of tokens; B is never the      *)
(* executor's own.                                                          *)
EXTENDS RoutePipeline

Split(pool, kind, from, to) == [pool |-> pool, kind |-> kind, from |-> from, to |-> to]

AB == Split("p1", "v2", "A", "B")
AB3 == Split("p2", "v3", "A", "B")
BA == Split("p3", "v2", "B", "A")
BA3 == Split("p4", "v3", "B", "A")

Plan(c, token, amount, gross, hops) ==
    [candidate |-> c, token |-> token, amount |-> amount, gross |-> gross, hops |-> hops]

\* The first has a plan that is split, which shares a pool with the second, and one
\* that is not, which shares its pairs
MCPlans ==
    {Plan("c1", "A", 6, 12, << <<AB, AB3>>, <<BA>> >>),
     Plan("c1", "A", 2, 5, << <<AB>>, <<BA>> >>),
     Plan("c2", "B", 4, 9, << <<BA3>>, <<AB3>> >>)}

MCTtl == [c \in Classes |-> IF c = "transfer" THEN 2 ELSE 1]
=============================================================================
