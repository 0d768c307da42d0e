---------------------------- MODULE MCPlanSearch ----------------------------
(* Cycles of two hops, with one or two pools to each pair. *)
EXTENDS PlanSearch

Pool(id, kind, in, out, cap, drift) ==
    [id |-> id, kind |-> kind, in |-> in, out |-> out, cap |-> cap, drift |-> drift]

\* The first pair: one pool; two of V2; capacities that slices do not fill; LB
Firsts(drift) ==
    {[own |-> Pool(1, "v2", 60, 240, 30, 0), pools |-> {}],
     [own |-> Pool(1, "v2", 60, 240, 9, 0), pools |-> {Pool(2, "v2", 50, 150, 20, 0)}],
     [own |-> Pool(1, "v3", 20, 80, 5, drift), pools |-> {Pool(2, "v2", 20, 75, 3, 0)}],
     [own |-> Pool(1, "v2", 60, 230, 10, 0), pools |-> {Pool(2, "v3", 60, 240, 10, drift)}],
     [own |-> Pool(1, "lb", 60, 240, 8, drift), pools |-> {}]}

Seconds ==
    {[own |-> Pool(3, "v2", 60, 60, 100, 0), pools |-> {}],
     [own |-> Pool(3, "v2", 60, 60, 16, 0), pools |-> {Pool(4, "v2", 90, 70, 30, 0)}],
     [own |-> Pool(3, "lb", 60, 66, 90, 2), pools |-> {}]}

\* Its first closed form answers at the edge of its bracket
Shallow == [own |-> Pool(1, "v2", 50, 100, 30, 0), pools |-> {}]
Thin == [own |-> Pool(3, "v2", 50, 40, 12, 0), pools |-> {}]

\* Pools too small to trade with, and pools that pay most below MinTrade
Tiny == [own |-> Pool(1, "v2", 60, 240, 1, 0), pools |-> {}]
Steep == [own |-> Pool(1, "v3", 1, 8, 9, 0), pools |-> {}]
Back == [own |-> Pool(3, "v2", 3, 6, 60, 0), pools |-> {}]

\* A pool that trades both ways: it is in the first pair and in the second
Deep == [own |-> Pool(1, "v3", 120, 180, 24, 1), pools |-> {}]
Return == [own |-> Pool(3, "v2", 120, 240, 16, 0), pools |-> {Pool(1, "v3", 180, 120, 90, 1)}]

Market(first, second, full) ==
    [path |-> <<[pair |-> <<"A", "B">>, own |-> first.own, pools |-> first.pools \cup {first.own}],
                [pair |-> <<"B", "A">>, own |-> second.own, pools |-> second.pools \cup {second.own}]>>,
     flash |-> TRUE, selfFunded |-> ~full]

MCMarkets ==
    {Market(f, s, full) : f \in Firsts(1) \cup Firsts(12), s \in Seconds, full \in BOOLEAN}
        \cup {Market(Deep, Return, FALSE), Market(Shallow, Thin, FALSE),
              Market(Tiny, Back, FALSE), Market(Steep, Back, FALSE)}
=============================================================================
