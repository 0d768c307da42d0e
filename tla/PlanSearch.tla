------------------------------ MODULE PlanSearch ------------------------------
(***************************************************************************)
(* The router: one call of search_best_plan_with_stats_mode of             *)
(* src/router/mod.rs, which looks for the input amount at which a          *)
(* candidate cycle earns most, with the split of every hop over the pools  *)
(* of its pair (router/split_optimizer.rs, router/v2_split.rs), the closed *)
(* form of router/fast_sizer.rs and the ranges of quantity_search.rs.      *)
(*                                                                         *)
(* What a pool pays is the constant product of its two reserves: enough to *)
(* make marginal rates fall, which is what the search is about.  The node  *)
(* quotes a V3 or LB pool `drift` below what the local mathematics says.   *)
(***************************************************************************)
EXTENDS FlashLoan, FiniteSets, SequencesExt

CONSTANTS
    Markets,        \* the candidates, each with its part of the snapshot:
                    \* [path: Seq([pair, own, pools]), flash, selfFunded: BOOLEAN]
    Verifying,      \* the values of verify_final_plan that are tried
    MinTrade,       \* min_trade_raw
    MaxPosition,    \* calculate_max_position_raw
    MaxParallel,    \* max_split_parallel_pools
    EdgeLimit,      \* pair_edge_scan_limit
    Slices,         \* a hop is shared out in slices of a Slices-th (8)
    Narrow,         \* a bracket this narrow is not narrowed further (32)
    FastRounds, FastDense,  \* rounds and points of the first search (12, 16)
    WideRounds, WideDense,  \* of the second (32, 64)
    SeedCount,      \* seeds of the second (8)
    LbPoints,       \* LB_EXACT_SEARCH_POINTS
    Refinements,    \* VERIFY_V3_REFINEMENT_POINTS
    Probes,         \* VERIFY_V3_EARLY_PROBE_POINTS
    HasQuoter,      \* VERIFY_V3_WITH_RPC_QUOTER
    EarlyExit,      \* VERIFY_V3_EARLY_EXIT
    ProbeAnew,      \* VERIFY_V3_EARLY_REOPTIMIZE
    VerifyAnew      \* VERIFY_V3_FINAL_REOPTIMIZE

Kinds == {"v2", "v3", "lb"}
PoolRecords == [id: Nat, kind: Kinds, in: Nat \ {0}, out: Nat \ {0}, cap: Nat, drift: Nat]

ASSUME PlanAssumption ==
    /\ \A m \in Markets :
          /\ m.flash \in BOOLEAN /\ m.selfFunded \in BOOLEAN
          /\ Len(m.path) \in Nat \ {0} /\ DOMAIN m.path = 1..Len(m.path)
          /\ \A i \in DOMAIN m.path :
                LET pools == m.path[i].pools
                IN  /\ IsFiniteSet(pools) /\ pools \subseteq PoolRecords
                    /\ \A p, q \in pools : p.id = q.id => p = q
                    /\ m.path[i].own \in pools
    /\ Verifying \subseteq BOOLEAN
    /\ MinTrade \in Nat \ {0} /\ MaxPosition \in Nat
    /\ MaxParallel \in Nat \ {0} /\ EdgeLimit \in Nat /\ EdgeLimit >= MaxParallel
    /\ Slices \in Nat \ {0} /\ Narrow \in Nat
    /\ FastRounds \in Nat /\ FastDense \in Nat /\ WideRounds \in Nat /\ WideDense \in Nat
    /\ SeedCount \in Nat \ {0}
    /\ LbPoints \in Nat /\ Refinements \in Nat /\ Probes \in Nat
    /\ HasQuoter \in BOOLEAN /\ EarlyExit \in BOOLEAN
    /\ ProbeAnew \in BOOLEAN /\ VerifyAnew \in BOOLEAN

VARIABLES
    market,     \* the snapshot and the candidate
    verify,     \* verify_final_plan
    stage,      \* start, fast, ladder, seed, wide, probe, verify, done, failed
    seen,       \* evaluated: amount -> expected_profit, 0 where there is no plan
    best,       \* the amount of the best plan so far, 0 when there is none
    low, high,  \* the bracket
    rounds,     \* how often it has been narrowed
    seeds,      \* amounts that may still be refined as seeds
    taken,      \* how many have been
    answer      \* the plan in hand once the amount is found, and the answer

planVars == <<market, verify, stage, seen, best, low, high, rounds, seeds, taken, answer>>

Least(a, b) == IF a <= b THEN a ELSE b
Most(a, b) == IF a >= b THEN a ELSE b
Clamp(x, a, b) == Most(a, Least(x, b))

Total(s) ==
    LET sum[n \in 0..Len(s)] == IF n = 0 THEN 0 ELSE sum[n - 1] + s[n]
    IN  sum[Len(s)]

\* The members of a finite set as a strict total order R has them
InOrder(S, R) ==
    [i \in 1..Cardinality(S) |->
        CHOOSE x \in S : Cardinality({y \in S : <<y, x>> \in R}) = i - 1]

Sorted(S) == InOrder(S, {e \in S \X S : e[1] < e[2]})

\* Of what is worth most, the one that comes first
FirstGreatest(worth) ==
    CHOOSE i \in DOMAIN worth :
        \A j \in DOMAIN worth : worth[i] > worth[j] \/ (worth[i] = worth[j] /\ i <= j)

FirstOf(n, s) == [i \in 1..Least(n, Len(s)) |-> s[i]]

-----------------------------------------------------------------------------
(* Quotes *)

\* What a pool pays, of any kind (quote_exact_in of amm/uniswap_v2.rs), the fee of the
\* pool left out
Paid(p, x) == (p.out * x) \div (p.in + x)

\* quote_pool, asked of the local mathematics or of the node
QuotePool(p, x, source) ==
    IF source = "rpc" /\ p.kind # "v2" THEN Most(0, Paid(p, x) - p.drift) ELSE Paid(p, x)

-----------------------------------------------------------------------------
(* One hop: optimize_pair *)

\* compare_edge_refs_for_price
Cheaper(a, b) ==
    \/ a.out * b.in > b.out * a.in
    \/ /\ a.out * b.in = b.out * a.in
       /\ a.cap > b.cap \/ (a.cap = b.cap /\ a.id < b.id)

Fits(p, x) == x > 0 /\ p.cap >= x

\* compare_edge_refs_for_capacity
Roomier(a, b, x) ==
    \/ Fits(a, x) /\ ~Fits(b, x)
    \/ /\ Fits(a, x) = Fits(b, x)
       /\ a.cap > b.cap \/ (a.cap = b.cap /\ Cheaper(a, b))

\* ranked_pair_edges: half of the places by price, the others by capacity
ByPrice(pools) == InOrder(pools, {e \in pools \X pools : Cheaper(e[1], e[2])})

RankedEdges(pools, x) ==
    LET priced == ToSet(FirstOf((EdgeLimit + 1) \div 2, ByPrice(pools)))
        others == pools \ priced
        roomy == InOrder(others, {e \in others \X others : Roomier(e[1], e[2], x)})
    IN  ByPrice(priced \cup ToSet(FirstOf(EdgeLimit - Cardinality(priced), roomy)))

WithinCap(p, x) == p.cap > 0 => x <= p.cap

NoHop == [splits |-> <<>>, out |-> 0]

\* materialize_allocations_with_quotes: an allocation that pays nothing is dropped
Materialized(edges, alloc, source) ==
    LET out(i) == QuotePool(edges[i], alloc[i], source)
        paying == {i \in DOMAIN edges : alloc[i] > 0 /\ out(i) > 0}
        before(i, j) == out(i) > out(j) \/ (out(i) = out(j) /\ edges[i].id < edges[j].id)
        order == InOrder(paying, {e \in paying \X paying : before(e[1], e[2])})
        splits == [k \in DOMAIN order |-> [pool |-> edges[order[k]], in |-> alloc[order[k]],
                                           out |-> out(order[k])]]
    IN  [splits |-> splits, out |-> Total([k \in DOMAIN order |-> out(order[k])])]

\* single_best; of equals it takes the one whose quote came first
SingleBest(edges, x, source) ==
    LET paying == {i \in DOMAIN edges : /\ WithinCap(edges[i], x)
                                        /\ QuotePool(edges[i], x, source) > 0}
        top == FirstGreatest([i \in paying |-> QuotePool(edges[i], x, source)])
    IN  IF paying = {} THEN NoHop ELSE Materialized(<<edges[top]>>, <<x>>, source)

\* The ways to share x over n pools
Shares(n, x) ==
    {Append(s, x - Total(s)) : s \in {s \in [1..(n - 1) -> 0..x] : Total(s) <= x}}

\* optimal_v2_allocations.  The bisection of solve_allocations and the rounding
\* of rebalance_to_total are left out: they come to shares that add up to the
\* amount, within what the pools can take, and that pay most.
V2Shares(edges, x) ==
    IF \E i \in DOMAIN edges : edges[i].kind # "v2" THEN {}
    ELSE {a \in Shares(Len(edges), x) : \A i \in DOMAIN edges : WithinCap(edges[i], a[i])}

V2Allocation(edges, x) ==
    LET paid(a) == Total([i \in DOMAIN edges |-> Paid(edges[i], a[i])])
        shares == V2Shares(edges, x)
        most == Max({paid(a) : a \in shares})
    IN  CHOOSE a \in shares : paid(a) = most

Gain(edges, alloc, i, slice, source) ==
    QuotePool(edges[i], alloc[i] + slice, source) - QuotePool(edges[i], alloc[i], source)

\* Slip: what a pool has been given already is forgotten.
TakersAnew(edges, alloc, slice) ==
    LET active == {i \in DOMAIN edges : alloc[i] > 0}
    IN  {i \in DOMAIN edges : /\ i \in active \/ Cardinality(active) < MaxParallel
                              /\ WithinCap(edges[i], slice)}

\* The pools the next slice may go to
Takers(edges, alloc, slice) ==
    LET active == {i \in DOMAIN edges : alloc[i] > 0}
    IN  {i \in DOMAIN edges : /\ i \in active \/ Cardinality(active) < MaxParallel
                              /\ WithinCap(edges[i], alloc[i] + slice)}

\* It goes to the one that gains most from it, the first of equals.  With no
\* pool left that takes it, or none that pays for it, the rest is not shared out.
NextSlice(edges, alloc, x, source) ==
    LET slice == Least(x - Total(alloc), Most(1, x \div Slices))
        takers == Takers(edges, alloc, slice)
        gain == [i \in takers |-> Gain(edges, alloc, i, slice, source)]
        winner == FirstGreatest(gain)
    IN  IF slice = 0 \/ takers = {} THEN alloc
        ELSE IF gain[winner] = 0 THEN alloc ELSE [alloc EXCEPT ![winner] = @ + slice]

Greedy(edges, x, source) ==
    LET alloc[k \in 0..x] == IF k = 0 THEN [i \in DOMAIN edges |-> 0]
                             ELSE NextSlice(edges, alloc[k - 1], x, source)
    IN  alloc[x]

\* The closed form, if it applies and pays; else the slices
Split(edges, few, x, source) ==
    IF /\ V2Shares(few, x) # {}
       /\ Materialized(few, V2Allocation(few, x), source).splits # <<>>
    THEN Materialized(few, V2Allocation(few, x), source)
    ELSE Materialized(edges, Greedy(edges, x, source), source)

OptimizeOver(edges, x, source) ==
    IF edges = <<>> THEN NoHop
    ELSE IF ~(Len(edges) > 1 /\ x >= 2 * Most(1, x \div Slices))
    THEN SingleBest(edges, x, source)
    ELSE Split(edges, FirstOf(MaxParallel, edges), x, source)

OptimizePair(pools, x, source) == OptimizeOver(RankedEdges(pools, x), x, source)

-----------------------------------------------------------------------------
(* A plan: the hops for one amount, and what is left of it *)

NoAnswer == [amount |-> 0, profit |-> 0, hops |-> <<>>]

\* estimated_full_flash_fee_raw: a token that the executor may hold costs no loan
FullFlash == market.flash /\ ~market.selfFunded
FlashFee(x) == IF FullFlash THEN LoanFee(x) ELSE 0

\* Slip: the profit of the plan is not net of the loan.
SettleGross(x, hops) ==
    LET profit == hops[Len(hops)].out - x
    IN  IF profit - FlashFee(x) > 0 THEN [amount |-> x, profit |-> profit, hops |-> hops] ELSE NoAnswer

\* The end of every quote: no plan unless it earns more than its loan costs
Settle(x, hops) ==
    LET profit == hops[Len(hops)].out - x - FlashFee(x)
    IN  IF profit > 0 THEN [amount |-> x, profit |-> profit, hops |-> hops] ELSE NoAnswer

\* The output of a hop is the input of the next; a hop that pays nothing ends it
Extended(hops, in, hop) ==
    IF hop.out = 0 THEN hops ELSE Append(hops, [in |-> in, out |-> hop.out, splits |-> hop.splits])

Settled(x, hops) == IF Len(hops) < Len(market.path) THEN NoAnswer ELSE Settle(x, hops)

InputOf(hops, x) == IF hops = <<>> THEN x ELSE hops[Len(hops)].out

\* hopAt[i][y] is what the i-th hop makes of y.
PlanOf(hopAt, x) ==
    LET hops[n \in 0..Len(market.path)] ==
            LET before == hops[n - 1]
                in == InputOf(before, x)
            IN  IF n = 0 THEN <<>>
                ELSE IF Len(before) < n - 1 THEN before ELSE Extended(before, in, hopAt[n][in])
    IN  Settled(x, hops[Len(market.path)])

\* quote_candidate_with_optimizer
QuoteCandidate(x, source) ==
    PlanOf([i \in DOMAIN market.path |->
               [y \in Nat |-> OptimizePair(market.path[i].pools, y, source)]], x)

\* quote_lb_candidate_direct: the candidate's own pools, whatever they can take
QuoteLbDirect(x, source) ==
    PlanOf([i \in DOMAIN market.path |->
               [y \in Nat |-> Materialized(<<market.path[i].own>>, <<y>>, source)]], x)

\* scale_splits_for_input: the last split takes what rounding left over
Scaled(splits, old, new) ==
    LET share(i) == (new * splits[i].in) \div old
        given == Total([i \in 1..(Len(splits) - 1) |-> share(i)])
    IN  [i \in DOMAIN splits |-> IF i < Len(splits) THEN share(i) ELSE Most(0, new - given)]

\* One hop of quote_existing_plan_splits: one pool that pays nothing, and none does
Requoted(hop, x, source) ==
    LET ins == Scaled(hop.splits, hop.in, x)
        used == Sorted({i \in DOMAIN ins : ins[i] > 0})
        out(i) == QuotePool(hop.splits[i].pool, ins[i], source)
    IN  IF \E k \in DOMAIN used : out(used[k]) = 0 THEN NoHop
        ELSE [splits |-> [k \in DOMAIN used |-> [pool |-> hop.splits[used[k]].pool,
                                                 in |-> ins[used[k]], out |-> out(used[k])]],
              out |-> Total([k \in DOMAIN used |-> out(used[k])])]

QuoteExisting(old, x, source) ==
    PlanOf([i \in DOMAIN market.path |-> [y \in Nat |-> Requoted(old.hops[i], y, source)]], x)

\* plan_uses_rpc_verified_adapter
UsesVerifiedAdapter(p) ==
    \E i \in DOMAIN p.hops : \E j \in DOMAIN p.hops[i].splits : p.hops[i].splits[j].pool.kind # "v2"

-----------------------------------------------------------------------------
(* Which amounts *)

\* route_start_capacity_raw: what every hop can take, at the rates before it
StartCapacity ==
    LET few == [i \in DOMAIN market.path |-> FirstOf(MaxParallel, ByPrice(market.path[i].pools))]
        room(i) == Total([k \in DOMAIN few[i] |-> few[i][k].cap])
        rate[i \in 0..Len(market.path)] ==
            IF i = 0 THEN [n |-> 1, d |-> 1]
            ELSE [n |-> rate[i - 1].n * few[i][1].in, d |-> rate[i - 1].d * few[i][1].out]
    IN  Min({(room(i) * rate[i - 1].n) \div rate[i - 1].d : i \in DOMAIN market.path})

\* search_range
MaxAmount == Least(MaxPosition, StartCapacity)
InRange(x) == Clamp(x, MinTrade, MaxAmount)

\* ladder, and bounded_lb_amounts, which ends on the greatest amount
Doubled(n) ==
    LET double[k \in 0..n] == IF k = 0 THEN MinTrade ELSE 2 * double[k - 1]
    IN  {double[k] : k \in 0..n} \cap 0..MaxAmount
Ladder == Sorted(Doubled(MaxPosition))
LbAmounts == Sorted(Doubled(LbPoints - 1) \cup {MaxAmount})

\* refinement_points
RefinementPoints(c) ==
    Sorted({c \div 2, (c * 3) \div 4, (c * 7) \div 8, c, (c * 9) \div 8, (c * 5) \div 4,
            (c * 3) \div 2, c * 2} \cap 1..MaxAmount)

\* dense_points
DensePoints(a, b, n) ==
    LET step == IF b - a <= n THEN 1 ELSE Most(1, (b - a) \div n)
    IN  IF a > b THEN <<>> ELSE Sorted({x \in a..b : (x - a) % step = 0} \cup {b})

\* verification_amounts: the amount itself first
VerificationAmounts(c, n) ==
    LET centre == InRange(c)
        percent == <<85, 115, 70, 130, 150, 50>>
        amounts[k \in 0..6] ==
            LET before == amounts[k - 1]
                x == InRange((centre * percent[k]) \div 100)
            IN  IF k = 0 THEN <<centre>>
                ELSE IF Len(before) >= n \/ x \in ToSet(before) THEN before ELSE Append(before, x)
    IN  amounts[6]

\* suggest_input_amounts: with V2 pools alone the cycle is one rational curve,
\* n x / (d + s x), whose best amount is known.  Its fractions are rounded down.
CurveOf(path) ==
    FoldLeft(LAMBDA c, hop : [n |-> hop.own.out * c.n, d |-> hop.own.in * c.d,
                              s |-> hop.own.in * c.s + c.n],
             [n |-> 1, d |-> 1, s |-> 0], path)
Curve == CurveOf(market.path)

Root(n) == Max({r \in 0..n : r * r <= n})

\* What the loan costs, of Parts put in
Cost == IF FullFlash THEN Parts + Premium ELSE Parts

\* The margin at x pays for itself.
Pays(c, x) == (c.d + c.s * x) * (c.d + c.s * x) * Cost <= c.n * c.d * Parts

\* The greatest amount whose margin does, up to a limit
Target(c, limit) == Clamp(Max({x \in 0..limit : x = 0 \/ Pays(c, x)}), MinTrade, limit)

Around(target, root) ==
    {(target * k) \div 8 : k \in {4, 6, 7, 8, 9, 10, 12, 16}}
        \cup {target - Most(1, root), target + Most(1, root)}

PointsOf(c, target, limit) ==
    IF c.n * Parts <= c.d * Cost \/ c.n * Parts <= Cost * (c.d + c.s * target) THEN <<>>
    ELSE Sorted({Clamp(x, MinTrade, limit) : x \in {y \in Around(target, Root(target)) : y > 0}}
                    \cup {MinTrade, limit})

FastPoints ==
    IF \E i \in DOMAIN market.path : market.path[i].own.kind # "v2" THEN <<>>
    ELSE PointsOf(Curve, Target(Curve, MaxAmount), MaxAmount)

-----------------------------------------------------------------------------
(* The search *)

\* evaluate_amount: an amount is quoted once
Profit(x) == IF x \in DOMAIN seen THEN seen[x] ELSE QuoteCandidate(x, "local").profit
Evaluated(X) == [x \in DOMAIN seen \cup X |-> Profit(x)]

\* Slip: the plan that comes out with more replaces the other.
GreaterOutput(b, amounts) ==
    LET all == <<b>> \o amounts
    IN  all[FirstGreatest([i \in DOMAIN all |-> IF all[i] = 0 THEN 0
                                                ELSE IF seen'[all[i]] > 0 THEN all[i] + seen'[all[i]]
                                                ELSE 0])]

\* better_plan over a sequence of amounts that have been evaluated: only a greater
\* profit replaces it
Better(b, amounts) ==
    LET all == <<b>> \o amounts
    IN  all[FirstGreatest([i \in DOMAIN all |-> IF all[i] = 0 THEN 0 ELSE seen'[all[i]]])]

BestPlan(plans) ==
    LET all == <<NoAnswer>> \o plans
    IN  all[FirstGreatest([i \in DOMAIN all |-> all[i].profit])]

PlanInit ==
    /\ market \in Markets
    /\ verify \in Verifying
    /\ stage = "start"
    /\ seen = <<>> /\ best = 0
    /\ low = 0 /\ high = 0 /\ rounds = 0
    /\ seeds = {} /\ taken = 0 /\ answer = NoAnswer

Answer(p) == stage' = "done" /\ answer' = p

\* Where a search goes with the best amount: to the last check of its quotes
Conclude(b) ==
    /\ answer' = QuoteCandidate(b, "local")
    /\ stage' = IF verify THEN "verify" ELSE "done"

\* No amount is both worth trading and within what the pools can take
NoRange ==
    /\ stage = "start" /\ MinTrade > MaxAmount
    /\ Answer(NoAnswer)
    /\ UNCHANGED <<market, verify, seen, best, low, high, rounds, seeds, taken>>

OnlyLb == \A i \in DOMAIN market.path : market.path[i].own.kind = "lb"

\* search_trader_joe_lb_bounded
SearchLb ==
    /\ stage = "start" /\ MinTrade <= MaxAmount
    /\ OnlyLb
    /\ LET source == IF HasQuoter THEN "rpc" ELSE "local"
       IN  Answer(BestPlan([i \in DOMAIN LbAmounts |-> QuoteLbDirect(LbAmounts[i], source)]))
    /\ UNCHANGED <<market, verify, seen, best, low, high, rounds, seeds, taken>>

\* search_fast_sized, until its first narrowing
StartFast ==
    /\ stage = "start" /\ MinTrade <= MaxAmount
    /\ ~OnlyLb
    /\ seen' = Evaluated(ToSet(FastPoints))
    /\ best' = Better(0, FastPoints)
    /\ LET lo == Least(Most(best' - best' \div 2, MinTrade), MaxAmount)
           hi == Least(Most(best' + best' \div 2, best' + 1), MaxAmount)
       IN  IF best' = 0
           THEN stage' = "ladder" /\ UNCHANGED <<low, high>>
           ELSE /\ stage' = "fast"
                /\ low' = IF lo >= hi THEN Least(MinTrade, best') ELSE lo
                /\ high' = IF lo >= hi THEN Most(MaxAmount, best') ELSE hi
    /\ rounds' = 0
    /\ UNCHANGED <<market, verify, seeds, taken, answer>>

\* One round of a ternary search, which keeps its quotes but not their plans
NarrowBracket ==
    LET third == (high - low) \div 3
        left == low + third
        right == high - third
    IN  /\ seen' = Evaluated({left, right})
        /\ rounds' = rounds + 1
        /\ IF seen'[left] < seen'[right]
           THEN low' = left + 1 /\ UNCHANGED high
           ELSE high' = Most(right - 1, low) /\ UNCHANGED low

Bracketed(limit) == rounds >= limit \/ high - low <= Narrow

NarrowFast ==
    /\ stage = "fast" /\ ~Bracketed(FastRounds)
    /\ NarrowBracket
    /\ UNCHANGED <<market, verify, stage, best, seeds, taken, answer>>

\* Its end: an answer at an edge of the bracket is not trusted
FinishFast ==
    /\ stage = "fast" /\ Bracketed(FastRounds)
    /\ seen' = Evaluated(ToSet(DensePoints(low, high, FastDense)))
    /\ LET top == Better(best, DensePoints(low, high, FastDense))
           atEdge == (top = low /\ low > MinTrade) \/ (top = high /\ high < MaxAmount)
       IN  /\ best' = IF atEdge THEN 0 ELSE top
           /\ IF atEdge THEN stage' = "ladder" /\ UNCHANGED answer ELSE Conclude(top)
    /\ UNCHANGED <<market, verify, low, high, rounds, seeds, taken>>

\* Whether the amount is asked of the node before it is refined
ProbesFirst(x) ==
    verify /\ EarlyExit /\ HasQuoter /\ UsesVerifiedAdapter(QuoteCandidate(x, "local"))

\* The geometric ladder, and the seeds it leaves
ClimbLadder ==
    /\ stage = "ladder"
    /\ seen' = Evaluated(ToSet(Ladder))
    /\ best' = Better(0, Ladder)
    /\ \/ best' = 0 /\ Answer(NoAnswer) /\ UNCHANGED seeds
       \/ /\ best' > 0 /\ ProbesFirst(best')
          /\ stage' = "probe" /\ answer' = QuoteCandidate(best', "local") /\ UNCHANGED seeds
       \/ /\ best' > 0 /\ ~ ProbesFirst(best')
          /\ stage' = "seed" /\ seeds' = {x \in DOMAIN seen' : seen'[x] > 0} /\ UNCHANGED answer
    /\ UNCHANGED <<market, verify, low, high, rounds, taken>>

\* The next seed, of those that earn most; of equals, any: they come from a hash
\* map.  The points around it, and the bracket its neighbours on the ladder make.
TakeSeed(c) ==
    /\ stage = "seed" /\ c \in seeds /\ taken < SeedCount
    /\ \A d \in seeds : seen[c] >= seen[d]
    /\ LET steps == Ladder
           below == {i \in DOMAIN steps : steps[i] < c}
           at == Least(Cardinality(below) + 1, Len(steps))
       IN  /\ low' = IF at = 1 THEN MinTrade ELSE steps[at - 1]
           /\ high' = Most(IF at < Len(steps) THEN steps[at + 1] ELSE MaxAmount, c)
    /\ seen' = Evaluated(ToSet(RefinementPoints(c)))
    /\ best' = Better(best, RefinementPoints(c))
    /\ seeds' = seeds \ {c} /\ taken' = taken + 1
    /\ rounds' = 0 /\ stage' = "wide"
    /\ UNCHANGED <<market, verify, answer>>

NarrowWide ==
    /\ stage = "wide" /\ ~Bracketed(WideRounds)
    /\ NarrowBracket
    /\ UNCHANGED <<market, verify, stage, best, seeds, taken, answer>>

FinishSeed ==
    /\ stage = "wide" /\ Bracketed(WideRounds)
    /\ seen' = Evaluated(ToSet(DensePoints(low, high, WideDense)))
    /\ best' = Better(best, DensePoints(low, high, WideDense))
    /\ stage' = "seed"
    /\ UNCHANGED <<market, verify, low, high, rounds, seeds, taken, answer>>

FinishWide ==
    /\ stage = "seed" /\ (seeds = {} \/ taken = SeedCount)
    /\ Conclude(best)
    /\ UNCHANGED <<market, verify, seen, best, low, high, rounds, seeds, taken>>

\* What verification asks of the node about one amount
Requote(x, anew) == IF anew THEN QuoteCandidate(x, "rpc") ELSE QuoteExisting(answer, x, "rpc")

\* The best of what it says of n amounts around the one in hand
BestRequoted(n, anew) ==
    LET amounts == VerificationAmounts(answer.amount, n)
    IN  BestPlan([i \in DOMAIN amounts |-> Requote(amounts[i], anew)])

\* verify_probe_plan: the early exit that spares the refinement
Probe ==
    /\ stage = "probe"
    /\ answer' = BestRequoted(Probes, ProbeAnew)
    /\ stage' = IF answer' = NoAnswer THEN "done" ELSE "verify"
    /\ UNCHANGED <<market, verify, seen, best, low, high, rounds, seeds, taken>>

\* verify_best_plan
Verify ==
    /\ stage = "verify"
    /\ Answer(IF ~HasQuoter \/ ~UsesVerifiedAdapter(answer) THEN answer
              ELSE BestRequoted(Refinements, VerifyAnew))
    /\ UNCHANGED <<market, verify, seen, best, low, high, rounds, seeds, taken>>

\* An error of the node ends the search: the premium at its start, a quote later
QuoteFails ==
    /\ \/ stage \in {"start", "probe"}
       \/ stage = "verify" /\ HasQuoter /\ UsesVerifiedAdapter(answer)
    /\ stage' = "failed" /\ answer' = NoAnswer
    /\ UNCHANGED <<market, verify, seen, best, low, high, rounds, seeds, taken>>

PlanNext ==
    \/ NoRange \/ SearchLb
    \/ StartFast \/ NarrowFast \/ FinishFast
    \/ ClimbLadder
    \/ \E c \in seeds : TakeSeed(c)
    \/ NarrowWide \/ FinishSeed \/ FinishWide
    \/ Probe \/ Verify \/ QuoteFails

PlanSpec == PlanInit /\ [][PlanNext]_planVars

-----------------------------------------------------------------------------
(* Properties *)

Hops == {answer.hops[i] : i \in DOMAIN answer.hops}
SplitsOf(hop) == {hop.splits[j] : j \in DOMAIN hop.splits}

\* The variables have their types: an answer's hops make a chain from its amount,
\* which the pools can take, to what it says is left of it.  (A seed's refinement
\* may go below MinTrade.)
PlanTypeOK ==
    /\ stage \in {"start", "fast", "ladder", "seed", "wide", "probe", "verify", "done", "failed"}
    /\ best \in Nat /\ low \in Nat /\ high \in Nat /\ low <= high
    /\ \A x \in DOMAIN seen : x \in 1..MaxAmount /\ seen[x] \in Nat
    /\ seeds \subseteq DOMAIN seen
    /\ answer # NoAnswer =>
          /\ answer.amount \in 1..MaxAmount
          /\ answer.hops[1].in = answer.amount
          /\ \A i \in 1..(Len(answer.hops) - 1) : answer.hops[i + 1].in = answer.hops[i].out
          /\ answer.profit = answer.hops[Len(answer.hops)].out - answer.amount - FlashFee(answer.amount)

\* No pool is given more than it can safely take, no hop more splits than it may
\* have or more than there is, in a plan that only the local mathematics has
\* quoted (optimize_pair; capacity_remaining; the greedy slices).
WithinCapacity ==
    (stage = "done" /\ ~verify /\ ~OnlyLb) =>
        \A hop \in Hops :
            /\ \A s \in SplitsOf(hop) : WithinCap(s.pool, s.in)
            /\ Len(hop.splits) <= MaxParallel
            /\ Total([j \in DOMAIN hop.splits |-> hop.splits[j].in]) <= hop.in

\* The answer is at least as good as every amount of the closed form, and, once a
\* seed has been refined, of the ladder: an answer of the closed form that was not
\* trusted comes back as a seed (search_fast_sized, needs_wide_fallback).  But for
\* this: where nothing on the ladder earns anything there is no seed and no plan
\* (router/mod.rs:252-254), whatever the closed form had found; then the ladder is
\* all that the answer speaks for.
TriedIsKept ==
    (stage = "done" /\ ~verify /\ ~OnlyLb /\ MinTrade <= MaxAmount) =>
        \A x \in (IF answer = NoAnswer THEN ToSet(Ladder)
                  ELSE ToSet(FastPoints) \cup (IF taken = 0 THEN {} ELSE ToSet(Ladder))) :
            x \in DOMAIN seen /\ seen[x] <= answer.profit

\* The design of the search does not take the profit for a curve with one peak and
\* chooses the amount of the highest net profit (revised_dex_arb_design.md:685-694):
\* the answer is at least as good as every amount that was quoted on the way.
\* A search that falls back forgets what the first one found: the code does not keep this.
BestIsKept ==
    (stage = "done" /\ ~verify /\ ~OnlyLb) =>
        \A x \in DOMAIN seen : seen[x] <= answer.profit
=============================================================================
