--------------------------- MODULE CandidateSearch ---------------------------
(***************************************************************************)
(* The detector: find_candidates of src/detector/path_finder.rs, from the  *)
(* edges a refresh has changed to the ranked list of cycles that are       *)
(* routed.  Weights are logarithms: an edge of weight w trades at a rate   *)
(* of 2^(-w), and a cycle of negative weight wins.                         *)
(***************************************************************************)
EXTENDS Integers, Sequences, FiniteSetsExt

CONSTANTS
    Tokens,      \* indices of the snapshot's tokens: 1..n
    Inputs,      \* the snapshots, and what changed: [pools, changed, anchors, banned, tuning]
    Price,       \* manual_price_usd_e8 of a token; 0 without one
    Quality,     \* token_quality_bps of a token
    MaxHops,     \* max_hops
    Cutoff,      \* screening_cutoff_q32, at most 0
    MinTrade     \* min_trade_usd_e8

\* A pool that trades token a for b at weight w, and back at -w plus its fee;
\* each way, `cap` is what it can take.  `healthy` is PoolHealth::healthy, and
\* `confidence` its confidence_bps, of those that are.
PoolRecords == [id: Nat, a: Tokens, b: Tokens, w: Int, fee: Nat, cap: Nat, confidence: Nat,
                healthy: BOOLEAN]

\* SearchTuning, and the filter on capacity that a large refresh goes without
Tunings == [topK: Nat, branches: Nat, beam: Nat, pairEdges: Nat, variants: Nat, canonical: Nat,
            perAnchor: Nat, max: Nat \ {0}, multiplier: Nat, dedup: BOOLEAN, fill: BOOLEAN,
            prefilter: BOOLEAN]

ASSUME SearchAssumption ==
    /\ IsFiniteSet(Tokens) /\ Tokens \subseteq Nat
    /\ \A i \in Inputs : /\ i.pools \subseteq PoolRecords /\ IsFiniteSet(i.pools)
                         /\ i.changed \subseteq i.pools
                         /\ i.anchors \subseteq Tokens
                         /\ i.banned \subseteq Tokens
                         /\ i.tuning \in Tunings
    /\ Price \in [Tokens -> Nat] /\ Quality \in [Tokens -> Nat]
    /\ MaxHops \in Nat /\ Cutoff \in Int /\ MinTrade \in Nat

VARIABLES
    input,      \* the member of Inputs
    pc,         \* pairs, select, fill, done
    pending,    \* changed_pairs that are still to be searched
    pair,       \* the one that is being searched
    anchors,    \* anchors that are still to be tried with it
    kept,       \* token_path_candidates
    left,       \* of them, those that finalize_candidates has yet to look at
    selected    \* what it has selected

vars == <<input, pc, pending, pair, anchors, kept, left, selected>>

-----------------------------------------------------------------------------
(* Edges and their order *)

Edge(p, from, to, w) ==
    [from |-> from, to |-> to, w |-> w, cap |-> p.cap, confidence |-> p.confidence,
     healthy |-> p.healthy, pool |-> p.id]

EdgesOf(p) == {Edge(p, p.a, p.b, p.w), Edge(p, p.b, p.a, p.fee - p.w)}

Edges == UNION {EdgesOf(p) : p \in input.pools}

\* compare_edge_refs
EdgeBefore(e, f) ==
    \/ e.w < f.w
    \/ e.w = f.w /\ e.cap > f.cap
    \/ e.w = f.w /\ e.cap = f.cap /\ e.confidence > f.confidence
    \/ e.w = f.w /\ e.cap = f.cap /\ e.confidence = f.confidence /\ e.pool < f.pool

AtMost(n, bound) == IF n < bound THEN n ELSE bound
AtLeast(n, bound) == IF n > bound THEN n ELSE bound

\* Which of equal elements comes first is left open.
First(S, Before(_, _)) == CHOOSE x \in S : \A y \in S \ {x} : ~ Before(y, x)

\* The first k of S when sorted
Best(S, k, Before(_, _)) ==
    LET best[n \in 0..k] ==
            IF n = 0 THEN {} ELSE best[n - 1] \union {First(S \ best[n - 1], Before)}
    IN  IF Cardinality(S) <= k THEN S ELSE best[k]

\* min_trade_raw_by_token: nothing is asked of a token without a price.
MinRaw(t) == IF Price[t] = 0 THEN 0 ELSE MinTrade \div Price[t]

\* edge_is_usable
Usable(e) == e.cap > 0 /\ e.healthy /\ e.cap >= MinRaw(e.from)

\* candidate_pair_edges, and virtual_outgoing for one neighbour
PairEdges(from, to) ==
    Best({e \in Edges : e.from = from /\ e.to = to /\ Usable(e)}, input.tuning.pairEdges, EdgeBefore)

\* virtual_outgoing, and what a node of the search takes of it
Outgoing(t) == Best(UNION {PairEdges(t, u) : u \in Tokens}, input.tuning.branches, EdgeBefore)

-----------------------------------------------------------------------------
(* DistanceCache::recompute *)

Step(S, from(_), to(_)) == S \union {to(e) : e \in {f \in Edges : from(f) \in S}}
From(e) == e.from
To(e) == e.to

ReachableFromAnchor ==
    LET reach[n \in 0..Cardinality(Tokens)] ==
          IF n = 0 THEN input.anchors ELSE Step(reach[n - 1], From, To)
    IN  reach[Cardinality(Tokens)]

ReachableToAnchor ==
    LET reach[n \in 0..Cardinality(Tokens)] ==
          IF n = 0 THEN input.anchors ELSE Step(reach[n - 1], To, From)
    IN  reach[Cardinality(Tokens)]

-----------------------------------------------------------------------------
(* Paths *)

NoPath(start) == [edges |-> << >>, tokens |-> {start}, end |-> start, score |-> 0, hint |-> -1]

\* A hint of -1 is u128::MAX.
Extended(path, e) ==
    [edges |-> Append(path.edges, e), tokens |-> path.tokens \union {e.to}, end |-> e.to,
     score |-> path.score + e.w,
     hint |-> IF path.hint = -1 THEN e.cap ELSE AtMost(path.hint, e.cap)]

\* sort_paths
PathBefore(p, q) ==
    \/ p.score < q.score
    \/ p.score = q.score /\ p.hint > q.hint
    \/ p.score = q.score /\ p.hint = q.hint /\ Len(p.edges) < Len(q.edges)

\* find_top_paths
TopPaths(start, target) ==
    LET grown(frontier) ==
            UNION {{Extended(path, e) : e \in {f \in Outgoing(path.end) : f.to \notin path.tokens}}
                   : path \in frontier}
        layer[n \in 0..(MaxHops - 1)] ==
            IF n = 0 THEN [out |-> {}, frontier |-> {NoPath(start)}]
            ELSE LET next == grown(layer[n - 1].frontier)
                     there == {path \in next : path.end = target}
                 IN  [out |-> Best(layer[n - 1].out \union there, input.tuning.topK, PathBefore),
                      frontier |-> Best(next \ there, input.tuning.beam, PathBefore)]
    IN  IF start = target THEN {NoPath(start)} ELSE layer[MaxHops - 1].out

-----------------------------------------------------------------------------
(* Candidates *)

Sum(edges) ==
    LET upto[n \in 0..Len(edges)] == IF n = 0 THEN 0 ELSE upto[n - 1] + edges[n].w
    IN  upto[Len(edges)]

\* 2^n
PowerOf2(n) ==
    LET power[i \in 0..n] == IF i = 0 THEN 1 ELSE 2 * power[i - 1]
    IN  power[n]

\* cap / 2^(-s), rounded down
Scaled(cap, s) == IF s >= 0 THEN cap * PowerOf2(s) ELSE cap \div PowerOf2(-s)

\* route_start_capacity_raw: what can be put in so that no edge is overfilled
StartCapacity(edges) ==
    Min({Scaled(edges[n].cap, Sum(SubSeq(edges, 1, n - 1))) : n \in 1..Len(edges)})

\* route_tokens_allowed, with what execution_token_policy says of each token
TokensAllowed(anchor, edges) ==
    /\ anchor \notin input.banned
    /\ \A n \in 1..Len(edges) : edges[n].to \notin input.banned

\* route_quality_bps
RouteQuality(anchor, edges) ==
    LET least == Min({Quality[anchor]} \union {Quality[edges[n].to] : n \in 1..Len(edges)})
    IN  AtLeast(least - 750 * (Len(edges) - 2), 500)

\* materialize_candidate: the ways to refuse a route
Materializes(anchor, edges) ==
    /\ TokensAllowed(anchor, edges)
    /\ input.tuning.prefilter /\ Price[anchor] > 0 =>
           StartCapacity(edges) >= AtLeast(MinRaw(anchor), 1)

Candidate(anchor, edges) == [anchor |-> anchor, edges |-> edges]

\* Slip: a cycle may pass a token twice.
AnyCycle(anchor, prefix, suffix) == TRUE

\* forms_simple_cycle: prefix and suffix share no token but the anchor.
SimpleCycle(anchor, prefix, suffix) == prefix.tokens \intersect suffix.tokens = {anchor}

\* The routes of find_candidates for one pair and anchor
Routes(from, to, anchor) ==
    {Candidate(anchor, (r[1].edges \o <<r[2]>>) \o r[3].edges) :
        r \in {s \in TopPaths(anchor, from) \X PairEdges(from, to) \X TopPaths(to, anchor) :
                 /\ Len(s[1].edges) + 1 + Len(s[3].edges) \in 2..MaxHops
                 /\ SimpleCycle(anchor, s[1], s[3])
                 /\ s[1].score + s[2].w + s[3].score < Cutoff}}

CandidatesOf(from, to, anchor) ==
    {c \in Routes(from, to, anchor) : Materializes(c.anchor, c.edges)}

Capacity(c) == StartCapacity(c.edges) * Price[c.anchor]

\* candidate_profit_potential_usd_e8
Potential(c) ==
    Capacity(c) * AtLeast(- Sum(c.edges), 0) * RouteQuality(c.anchor, c.edges)

\* candidate_ordering
CandidateBefore(c, d) ==
    \/ Potential(c) > Potential(d)
    \/ /\ Potential(c) = Potential(d)
       /\ \/ Sum(c.edges) < Sum(d.edges)
          \/ Sum(c.edges) = Sum(d.edges) /\ Capacity(c) > Capacity(d)
          \/ /\ Sum(c.edges) = Sum(d.edges) /\ Capacity(c) = Capacity(d)
             /\ Len(c.edges) < Len(d.edges)

\* candidate_token_cycle_key
TokenPath(c) == <<c.anchor, [n \in 1..Len(c.edges) |-> c.edges[n].to]>>

Hops(c) == {<<c.edges[n].from, c.edges[n].to>> : n \in 1..Len(c.edges)}

\* canonical_token_cycle_key: cycles that only start elsewhere have the same hops.
SameTokens(c, d) == Hops(c) = Hops(d)

\* canonical_anchor_pool_cycle_key
SamePools(c, d) ==
    c.anchor = d.anchor /\ {c.edges[n] : n \in 1..Len(c.edges)} = {d.edges[n] : n \in 1..Len(d.edges)}

-----------------------------------------------------------------------------
(* The search *)

\* changed_virtual_pairs: a pair with the best of its changed edges
ChangedPairs ==
    LET changed == UNION {EdgesOf(p) : p \in input.changed}
        pairs == {<<e.from, e.to>> : e \in changed}
    IN  {First({e \in changed : <<e.from, e.to>> = q}, EdgeBefore) : q \in pairs}

\* The order in which they are searched
PairBefore(e, f) ==
    \/ e.w < f.w
    \/ e.w = f.w /\ e.from < f.from
    \/ e.w = f.w /\ e.from = f.from /\ e.to < f.to

Init ==
    /\ input \in Inputs
    /\ pc = "pairs"
    /\ pending = IF MaxHops < 2 THEN {} ELSE ChangedPairs
    /\ pair = << >>
    /\ anchors = {}
    /\ kept = {}
    /\ left = {}
    /\ selected = << >>

\* Slip: an anchor takes part only where it is an end of the pair.
AtTheEnds(anchor, from, to) == anchor \in {from, to}

\* anchor_can_participate
Participates(anchor, from, to) ==
    anchor \in {from, to} \/ \E e \in Edges : e.from = anchor

TakePair ==
    /\ pc = "pairs" /\ anchors = {} /\ pending # {}
    /\ LET e == First(pending, PairBefore)
       IN  /\ pair' = <<e.from, e.to>>
           /\ pending' = pending \ {e}
           /\ anchors' = IF /\ e.from \in ReachableFromAnchor /\ e.to \in ReachableToAnchor
                            /\ PairEdges(e.from, e.to) # {}
                         THEN {a \in input.anchors : Participates(a, e.from, e.to)}
                         ELSE {}
    /\ UNCHANGED <<input, pc, kept, left, selected>>

\* insert_token_path_variant: of each token path the best variants
Inserted(candidates) ==
    IF ~ input.tuning.dedup THEN kept \union candidates
    ELSE UNION {Best({c \in kept \union candidates : TokenPath(c) = key}, input.tuning.variants,
                     CandidateBefore) : key \in {TokenPath(c) : c \in kept \union candidates}}

\* candidate_selection_budget
Budget == input.tuning.max * AtLeast(input.tuning.multiplier, 1)

\* One anchor with the pair.  The search stops as soon as the budget is used up;
\* which candidates it has seen by then is left open.
TryAnchor ==
    /\ pc = "pairs" /\ anchors # {}
    /\ LET anchor == Min(anchors)
           all == CandidatesOf(pair[1], pair[2], anchor)
           stops == Cardinality(Inserted(all)) >= Budget
       IN  /\ anchors' = anchors \ {anchor}
           /\ IF stops
              THEN \E seen \in SUBSET all :
                      /\ Cardinality(Inserted(seen)) = Budget
                      /\ kept' = Inserted(seen)
              ELSE kept' = Inserted(all)
           /\ pc' = IF stops THEN "select" ELSE "pairs"
           /\ left' = IF stops THEN kept' ELSE {}
    /\ UNCHANGED <<input, pending, pair, selected>>

SearchDone ==
    /\ pc = "pairs" /\ anchors = {} /\ pending = {}
    /\ pc' = "select"
    /\ left' = kept
    /\ UNCHANGED <<input, pending, pair, anchors, kept, selected>>

-----------------------------------------------------------------------------
(* The selection *)

Selected == {selected[n] : n \in 1..Len(selected)}
Full == Len(selected) >= input.tuning.max

\* The next candidate in the order; of equal ones any, since they come out of a
\* hash map.
NextLeft == {c \in left : \A d \in left : ~ CandidateBefore(d, c)}

\* finalize_candidates_with_tuning, the first pass
Wanted(c) ==
    LET same == {d \in Selected : SameTokens(c, d)}
    IN  /\ Cardinality(same) < AtLeast(input.tuning.canonical, 1)
        /\ Cardinality({d \in same : d.anchor = c.anchor}) < AtLeast(input.tuning.perAnchor, 1)

SelectNext ==
    /\ pc = "select" /\ ~ Full
    /\ \E c \in NextLeft :
          /\ left' = {d \in left : ~ SamePools(c, d)}
          /\ selected' = IF Wanted(c) THEN Append(selected, c) ELSE selected
    /\ UNCHANGED <<input, pc, pending, pair, anchors, kept>>

\* The second pass takes what the first one left, up to the maximum.
StartFill ==
    /\ pc = "select" /\ (left = {} \/ Full)
    /\ pc' = IF input.tuning.fill /\ ~ Full THEN "fill" ELSE "done"
    /\ left' = IF pc' = "fill" THEN kept ELSE {}
    /\ UNCHANGED <<input, pending, pair, anchors, kept, selected>>

FillWants(c) == \A d \in Selected : ~ SamePools(c, d)

FillNext ==
    /\ pc = "fill" /\ ~ Full
    /\ \E c \in NextLeft :
          /\ left' = left \ {c}
          /\ selected' = IF FillWants(c) THEN Append(selected, c) ELSE selected
    /\ UNCHANGED <<input, pc, pending, pair, anchors, kept>>

FillDone ==
    /\ pc = "fill" /\ (left = {} \/ Full)
    /\ pc' = "done"
    /\ left' = {}
    /\ UNCHANGED <<input, pending, pair, anchors, kept, selected>>

Next ==
    \/ TakePair \/ TryAnchor \/ SearchDone
    \/ SelectNext \/ StartFill \/ FillNext \/ FillDone

Spec == Init /\ [][Next]_vars

-----------------------------------------------------------------------------
(* What a candidate is, without regard to how it is searched *)

IsCycle(c) ==
    LET n == Len(c.edges)
    IN  /\ n \in 2..MaxHops
        /\ c.edges[1].from = c.anchor /\ c.edges[n].to = c.anchor
        /\ \A k \in 1..(n - 1) : c.edges[k].to = c.edges[k + 1].from
        /\ Cardinality({c.edges[k].to : k \in 1..n}) = n

\* An edge that is not shadowed by better ones between the same tokens
Admissible(e) ==
    /\ Usable(e)
    /\ Cardinality({f \in Edges : /\ f.from = e.from /\ f.to = e.to
                                  /\ Usable(f) /\ EdgeBefore(f, e)}) < input.tuning.pairEdges

TouchesChange(c) ==
    \E n \in 1..Len(c.edges), p \in input.changed :
        <<c.edges[n].from, c.edges[n].to>> \in {<<p.a, p.b>>, <<p.b, p.a>>}

IsCandidate(c) ==
    /\ IsCycle(c)
    /\ c.anchor \in input.anchors
    /\ \A n \in 1..Len(c.edges) : Admissible(c.edges[n])
    /\ TouchesChange(c)
    /\ Sum(c.edges) < Cutoff
    /\ Materializes(c.anchor, c.edges)

\* The simple paths from a token that a cycle may have
SimplePaths(t) ==
    {s \in UNION {[1..n -> {e \in Edges : Admissible(e)}] : n \in 1..(MaxHops - 1)} :
        /\ s[1].from = t
        /\ \A k \in 1..(Len(s) - 1) : s[k].to = s[k + 1].from
        /\ \A k \in 1..Len(s) : s[k].to # t
        /\ \A j, k \in 1..Len(s) : j # k => s[j].to # s[k].to}

\* The limits on paths cut nothing off: no token has more edges than a node of the
\* search takes, and no more paths begin at it than are followed and kept.
Wide ==
    \A t \in Tokens :
        /\ Cardinality({e \in Edges : e.from = t /\ Admissible(e)}) <= input.tuning.branches
        /\ Cardinality(SimplePaths(t)) <= AtMost(input.tuning.topK, input.tuning.beam)

AllCandidates ==
    {c \in [anchor: input.anchors,
            edges: UNION {[1..n -> {e \in Edges : Admissible(e)}] :
                             n \in 2..AtMost(MaxHops, Cardinality(Tokens))}] : IsCandidate(c)}

-----------------------------------------------------------------------------
(* Properties *)

\* What is kept stays within the budget of the search, what is selected within
\* max_candidates_per_refresh.
SearchTypeOK ==
    /\ pc \in {"pairs", "select", "fill", "done"}
    /\ pending \subseteq Edges
    /\ pair \in {<< >>} \union (Tokens \X Tokens)
    /\ anchors \subseteq input.anchors
    /\ left \subseteq kept
    /\ Selected \subseteq kept
    /\ Len(selected) <= input.tuning.max
    /\ Cardinality(kept) <= Budget
    /\ pc = "pairs" => selected = << >>

\* Whatever is handed to the router is a cycle of distinct tokens from an anchor
\* back to it, over usable edges, through a pair that changed, below the cutoff,
\* large enough to trade; no cycle is handed over twice, and no more than
\* max_candidates_per_refresh are (find_candidates, finalize_candidates).
SelectedAreCycles ==
    /\ Len(selected) <= input.tuning.max
    /\ \A c \in Selected : IsCandidate(c)
    /\ \A m, n \in 1..Len(selected) : m # n => ~ SamePools(selected[m], selected[n])

\* Where the limits on paths cut nothing off, no such cycle is missed: it is
\* selected, or the selection is full, or as many cycles of its token path as
\* are kept are at least as good.
NothingMissed ==
    pc = "done" /\ input.tuning.fill /\ Wide =>
        \A c \in AllCandidates :
            \/ c \in Selected
            \/ Full
            \/ /\ input.tuning.dedup
               /\ Cardinality({d \in kept : TokenPath(d) = TokenPath(c) /\ ~ CandidateBefore(c, d)})
                    >= input.tuning.variants

=============================================================================
