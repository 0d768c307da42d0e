--------------------------- MODULE RoutePipeline ---------------------------
(***************************************************************************)
(* What process_refresh of src/engine.rs does with the candidates of one   *)
(* refresh: it routes each of them, ranks the plans, has the router check  *)
(* the best ones again with the node, and takes them through the validator *)
(* (execution/validator.rs, execution/capital_selector.rs) up to the point *)
(* where TradeLifecycle takes over.                                        *)
(*                                                                         *)
(* A search of the router is one step that answers a plan of the candidate *)
(* or none (PlanSearch models it).  One raw unit is worth one of USD.      *)
(* Every request is a step, and time may pass before it.                   *)
(***************************************************************************)
EXTENDS FlashLoan, FiniteSets, SequencesExt

CONSTANTS
    Plans,          \* what searches may answer: [candidate, token, amount, gross,
                    \* hops: a sequence of sequences of splits]
    SelfFunded, FlashEnabled, Priced,   \* the tokens with allow_self_funded,
                                        \* flash_loan_enabled and a price
    HasAave,        \* aave_pool is configured
    LoanCap,        \* max_flash_loan_usd_e8
    MinProfitParts, \* min_profit_realization_bps, in Parts
    LoanGas,        \* FLASH_LOAN_GAS_OVERHEAD
    GasPrices, GasCeiling,
    DataFees,       \* what the oracle of Base asks for the calldata; {0} elsewhere
    MinNet,         \* min_net_profit_usd_e8
    TopK,           \* ROUTE_VALIDATION_TOP_K
    ScanLimit,      \* ROUTE_VERIFY_SCAN_LIMIT
    BalanceTtl,     \* EXECUTOR_BALANCE_CACHE_MS
    Ttl,            \* FAILURE_CACHE_*_SECS, by class
    Funds,          \* what the executor may hold at the start
    MaxFunds, MaxTime, MaxRefreshes     \* bounds: of what it holds, of the clock, and
                                        \* on the refreshes

Classes == {"slippage", "transfer", "callback", "overflow", "mismatch", "other"}
Candidates == {p.candidate : p \in Plans}

ASSUME PipelineAssumption ==
    /\ \A p \in Plans : p.amount \in Nat \ {0} /\ p.gross \in Nat \ {0}
    /\ MinProfitParts \in 0..Parts
    /\ LoanCap \in Nat /\ LoanGas \in Nat /\ GasPrices \subseteq Nat /\ GasCeiling \in Nat
    /\ DataFees \subseteq Nat
    /\ TopK \in Nat \ {0} /\ ScanLimit \in Nat /\ ScanLimit >= TopK
    /\ BalanceTtl \in Nat /\ Ttl \in [Classes -> Nat]
    /\ MaxFunds \in Nat /\ Funds \subseteq 0..MaxFunds /\ MaxTime \in Nat /\ MaxRefreshes \in Nat

VARIABLES
    phase,      \* idle, route, scan, verify, choose, refused, price, simulate, trade
    todo,       \* candidates whose search has not answered
    routed,     \* plans not yet taken up
    plan,       \* the plan in hand
    loan,       \* what it borrows
    attempts,   \* validator_stage_attempts
    failures,   \* FailureCache.entries: key -> expires_at
    known,      \* balance_cache: token -> [value, at]
    funds,      \* what the executor holds: token -> amount
    clock, refreshes,
    log         \* history: the failures recorded that have not run out

work == <<todo, routed, plan, loan, attempts>>
caches == <<failures, known, log>>
vars == <<phase, work, caches, funds, clock, refreshes>>

NoPlan == [candidate |-> "none", token |-> "none", amount |-> 1, gross |-> 1, hops |-> <<>>]

Lesser(a, b) == IF a <= b THEN a ELSE b

-----------------------------------------------------------------------------
(* The failure cache *)

Splits(p) == FlattenSeq(p.hops)
SplitSet(p) == ToSet(Splits(p))

\* A pair of tokens, whichever the pool
Pair(s) == [s EXCEPT !.pool = "any", !.kind = "any"]

\* route_failure_key, pool_direction_failure_keys, token_pair_failure_keys
RouteKey(p) == [of |-> "route", splits |-> Splits(p)]
PoolKeys(S) == {[of |-> "pool", splits |-> <<s>>] : s \in S}
TokenKeys(p) == {[of |-> "token", splits |-> <<Pair(s)>>] : s \in SplitSet(p)}

\* Slip: pairs of tokens are recorded and not looked up.
RouteAndPoolKeys(p) == {RouteKey(p)} \cup PoolKeys(SplitSet(p))

FailureKeys(p) == {RouteKey(p)} \cup PoolKeys(SplitSet(p)) \cup TokenKeys(p)

\* failure_keys_for_class
Blamed(p, class) ==
    {s \in SplitSet(p) : \/ class \in {"transfer", "overflow", "slippage"}
                         \/ class = "callback" /\ s.kind = "v3"}

KeysForClass(p, class) ==
    {RouteKey(p)} \cup PoolKeys(Blamed(p, class))
                  \cup {k \in TokenKeys(p) : class = "transfer"}

\* Slip: what has run out is still there.
Unpruned == failures

\* prune
Pruned == [k \in {k \in DOMAIN failures : failures[k] > clock} |-> failures[k]]

\* skip_reason
Skipped(p) == FailureKeys(p) \cap DOMAIN Pruned # {}

\* record
Record(p, class) ==
    LET keys == KeysForClass(p, class)
    IN  IF Ttl[class] = 0
        THEN failures' = Pruned /\ UNCHANGED log
        ELSE /\ failures' = [k \in keys \cup DOMAIN Pruned |->
                                IF k \in keys THEN clock + Ttl[class] ELSE Pruned[k]]
             /\ log' = log \cup {[plan |-> p, class |-> class, until |-> clock + Ttl[class]]}

-----------------------------------------------------------------------------
(* What a plan earns *)

\* estimated_full_flash_fee_raw
SearchFee(p) ==
    IF p.token \in FlashEnabled \ SelfFunded THEN LoanFee(p.amount) ELSE 0

\* estimate_gas_limit: so much for every split
GasOf(p) == Len(Splits(p))

\* adjusted_static_gas_limit: an overhead for the loan, and a fifth on top
GasLimit(p, borrowed) == ((GasOf(p) + IF borrowed = 0 THEN 0 ELSE LoanGas) * 12) \div 10

\* The gas of the chain and, on Base, what the calldata costs on the layer below
\* (quote, estimate_l1_data_fee)
NetProfit(p, borrowed, price, fee) ==
    p.gross - LoanFee(borrowed) - (price * GasLimit(p, borrowed) + fee)

\* calculate_contract_min_profit_raw
ContractMin(p, borrowed) == ((p.gross - LoanFee(borrowed)) * MinProfitParts) \div Parts

\* estimate_prerank_net_profit_usd_e8; a token without a price comes last
Estimate(p) == p.gross - SearchFee(p) - GasCeiling * (GasOf(p) + LoanGas)

RanksBefore(p, q) ==
    LET priced(r) == r.token \in Priced
        expected(r) == r.gross - SearchFee(r)
        tied == priced(p) = priced(q) /\ (priced(p) => Estimate(p) = Estimate(q))
    IN  \/ priced(p) /\ ~priced(q)
        \/ priced(p) /\ priced(q) /\ Estimate(p) > Estimate(q)
        \/ tied /\ expected(p) > expected(q)
        \/ tied /\ expected(p) = expected(q) /\ Len(p.hops) < Len(q.hops)

\* The sort is stable: of equals the one that was routed first
Precedes(i, j) ==
    \/ RanksBefore(routed[i], routed[j])
    \/ i < j /\ ~RanksBefore(routed[j], routed[i])

Rankings ==
    {order \in [DOMAIN routed -> DOMAIN routed] :
        \A i, j \in DOMAIN routed : i < j => Precedes(order[i], order[j])}

\* should_verify_ranked_route
ShouldVerify(p) == \E s \in SplitSet(p) : s.kind \in {"v3", "lb"}

-----------------------------------------------------------------------------
(* One refresh *)

Init ==
    /\ phase = "idle"
    /\ todo = {} /\ routed = <<>> /\ plan = NoPlan /\ loan = 0 /\ attempts = 0
    /\ failures = <<>> /\ known = <<>> /\ log = {}
    /\ funds \in [SelfFunded -> Funds]
    /\ clock = 0 /\ refreshes = 0

\* The detector's candidates
Refresh(found) ==
    /\ phase = "idle" /\ refreshes < MaxRefreshes
    /\ phase' = "route" /\ todo' = found
    /\ refreshes' = refreshes + 1
    /\ UNCHANGED <<routed, plan, loan, attempts, caches, funds, clock>>

\* route_candidate: of several searches under way, any answers first (more than one
\* is only under way where simulate_only is set)
Routed(c) ==
    /\ phase = "route" /\ c \in todo
    /\ \E p \in {p \in Plans : p.candidate = c} : routed' = Append(routed, p)
    /\ todo' = todo \ {c}
    /\ UNCHANGED <<phase, plan, loan, attempts, caches, funds, clock, refreshes>>

\* No plan, an error, or ROUTE_SEARCH_TIMEOUT_MS
NotRouted(c) ==
    /\ phase = "route" /\ c \in todo
    /\ todo' = todo \ {c}
    /\ UNCHANGED <<phase, routed, plan, loan, attempts, caches, funds, clock, refreshes>>

Rank ==
    /\ phase = "route" /\ todo = {}
    /\ \E order \in Rankings :
          routed' = [i \in 1..Lesser(ScanLimit, Len(routed)) |-> routed[order[i]]]
    /\ phase' = "scan"
    /\ UNCHANGED <<todo, plan, loan, attempts, caches, funds, clock, refreshes>>

TakeRoute ==
    /\ phase = "scan" /\ routed # <<>> /\ attempts < TopK
    /\ plan' = Head(routed) /\ routed' = Tail(routed)
    /\ phase' = IF ShouldVerify(plan') THEN "verify" ELSE "choose"
    /\ UNCHANGED <<todo, loan, attempts, caches, funds, clock, refreshes>>

\* Slip: the attempts are not looked at.
EndWhenEmpty ==
    /\ phase = "scan" /\ routed = <<>>
    /\ phase' = "idle" /\ routed' = <<>> /\ attempts' = 0
    /\ UNCHANGED <<todo, plan, loan, caches, funds, clock, refreshes>>

EndRefresh ==
    /\ phase = "scan" /\ (routed = <<>> \/ attempts >= TopK)
    /\ phase' = "idle" /\ routed' = <<>> /\ attempts' = 0
    /\ UNCHANGED <<todo, plan, loan, caches, funds, clock, refreshes>>

\* search_best_plan_with_stats: the plan may have become another
Verified ==
    /\ phase = "verify"
    /\ plan' \in {p \in Plans : p.candidate = plan.candidate}
    /\ phase' = "choose"
    /\ UNCHANGED <<todo, routed, loan, attempts, caches, funds, clock, refreshes>>

\* Nothing is left of it, an error, or ROUTE_VERIFY_TIMEOUT_MS: not an attempt
VerifyFails ==
    /\ phase = "verify"
    /\ phase' = "scan" /\ plan' = NoPlan
    /\ UNCHANGED <<todo, routed, loan, attempts, caches, funds, clock, refreshes>>

\* The end of an attempt; one that took less than a millisecond does not count
RouteEnds ==
    /\ phase' = "scan" /\ plan' = NoPlan /\ loan' = 0
    /\ attempts' \in {attempts, attempts + 1}
    /\ UNCHANGED <<todo, routed>>

\* executor_balance: b is what it answers, 0 for an error; nobody asks for a
\* token that has no price
BalanceRead(b) ==
    LET t == plan.token
        kept == t \in DOMAIN known
        fresh == IF kept THEN clock - known[t].at <= BalanceTtl ELSE FALSE
    IN  IF t \notin SelfFunded \cap Priced THEN b = 0 /\ UNCHANGED known
        ELSE IF fresh THEN b = known[t].value /\ UNCHANGED known
        ELSE \/ /\ b = funds[t]
                /\ known' = [u \in DOMAIN known \cup {t} |->
                                IF u = t THEN [value |-> b, at |-> clock] ELSE known[u]]
             \/ b = 0 /\ UNCHANGED known

\* Slip: the cap is put to the fee.
MayBorrowFor(x) ==
    /\ plan.token \in Priced
    /\ plan.gross > LoanFee(x)
    /\ x = 0 \/ (plan.token \in FlashEnabled /\ HasAave /\ LoanFee(x) <= LoanCap)

\* choice_from_balance_and_fees, and the checks around it
MayBorrow(x) ==
    /\ plan.token \in Priced
    /\ plan.gross > LoanFee(x)
    /\ x = 0 \/ (plan.token \in FlashEnabled /\ HasAave /\ x <= LoanCap)

\* prepare, until it asks for the price of gas
Choose ==
    /\ phase = "choose"
    /\ \E b \in {0} \cup {funds[t] : t \in SelfFunded} \cup {known[t].value : t \in DOMAIN known} :
          LET x == plan.amount - Lesser(b, plan.amount)
          IN  /\ BalanceRead(b)
              /\ failures' = IF MayBorrow(x) THEN Pruned ELSE failures
              /\ IF ~MayBorrow(x) \/ (~Skipped(plan) /\ ContractMin(plan, x) = 0)
                 THEN RouteEnds
                 ELSE /\ phase' = IF Skipped(plan) THEN "refused" ELSE "price"
                      /\ loan' = x
                      /\ UNCHANGED <<todo, routed, plan, attempts>>
    /\ UNCHANGED <<log, funds, clock, refreshes>>

Refused ==
    /\ phase = "refused"
    /\ RouteEnds
    /\ UNCHANGED <<caches, funds, clock, refreshes>>

\* Worth its gas at today's price, and its data fee
WorthGas(price, fee) ==
    /\ price <= GasCeiling
    /\ NetProfit(plan, loan, price, fee) >= MinNet

Price ==
    /\ phase = "price"
    /\ \E price \in GasPrices, fee \in DataFees : WorthGas(price, fee)
    /\ phase' = "simulate"
    /\ UNCHANGED <<work, caches, funds, clock, refreshes>>

\* It is not, or there is no quote
PricedOut ==
    /\ phase = "price"
    /\ RouteEnds
    /\ UNCHANGED <<caches, funds, clock, refreshes>>

\* The executor holds what the plan does not borrow (INSUFFICIENT_INPUT_BALANCE)
Covered == plan.token \in SelfFunded => funds[plan.token] + loan >= plan.amount

SimulationPasses ==
    /\ phase = "simulate" /\ Covered
    /\ phase' = "trade"
    /\ UNCHANGED <<work, caches, funds, clock, refreshes>>

\* A request that fails is a failure of class other
SimulationFails(class) ==
    /\ phase = "simulate"
    /\ class = "callback" => \E s \in SplitSet(plan) : s.kind = "v3"
    /\ Record(plan, class)
    /\ RouteEnds
    /\ UNCHANGED <<known, funds, clock, refreshes>>

\* An answer that gives no reason
SimulationRefuses ==
    /\ phase = "simulate"
    /\ RouteEnds
    /\ UNCHANGED <<caches, funds, clock, refreshes>>

\* The guards of TradeLifecycle refuse it, or it ends, with its profit or without
TradeEnds ==
    /\ phase = "trade"
    /\ RouteEnds
    /\ \/ UNCHANGED funds
       \/ /\ plan.token \in SelfFunded
          /\ funds' = [funds EXCEPT ![plan.token] =
                          Lesser(@ + plan.gross - LoanFee(loan), MaxFunds)]
    /\ UNCHANGED <<caches, clock, refreshes>>

\* The owner takes the executor's tokens (rescueTokens)
Withdraw(t) ==
    /\ funds[t] > 0 /\ funds' = [funds EXCEPT ![t] = 0]
    /\ UNCHANGED <<phase, work, caches, clock, refreshes>>

\* Time passes while something is awaited
Tick ==
    /\ phase # "refused"
    /\ clock < MaxTime /\ clock' = clock + 1
    /\ log' = {e \in log : e.until > clock'}
    /\ UNCHANGED <<phase, work, failures, known, funds, refreshes>>

Engine ==
    \/ \E c \in todo : Routed(c) \/ NotRouted(c)
    \/ Rank \/ TakeRoute \/ EndRefresh
    \/ Verified \/ VerifyFails
    \/ Choose \/ Refused \/ Price \/ PricedOut
    \/ SimulationPasses \/ (\E class \in Classes : SimulationFails(class)) \/ SimulationRefuses
    \/ TradeEnds

Next ==
    \/ \E found \in SUBSET Candidates \ {{}} : Refresh(found)
    \/ Engine
    \/ \E t \in SelfFunded : Withdraw(t)
    \/ Tick

Spec == Init /\ [][Next]_vars

\* Every request has a timeout, and the engine goes on with what it answers
FairSpec == Spec /\ WF_vars(Engine)

-----------------------------------------------------------------------------
(* Properties *)

\* A failure bars a plan: the same route whatever it was, a pool in the same
\* direction if a pool was at fault, a pair of tokens if a transfer was.
Bars(e, p) ==
    \/ Splits(e.plan) = Splits(p)
    \/ /\ e.class \in {"transfer", "slippage", "overflow"}
       /\ SplitSet(e.plan) \cap SplitSet(p) # {}
    \/ e.class = "callback" /\ \E s \in SplitSet(e.plan) \cap SplitSet(p) : s.kind = "v3"
    \/ /\ e.class = "transfer"
       /\ \E s \in SplitSet(e.plan), u \in SplitSet(p) : Pair(s) = Pair(u)

\* No plan is priced or simulated while a failure that bars it has not run out,
\* whatever has been recorded since and whichever search the plan comes from
\* (skip_reason, record; the log forgets what has run out).
NotTriedAgain ==
    phase \in {"price", "simulate", "trade"} => ~ \E e \in log : Bars(e, plan)

\* A plan is refused for a failure that bars it and has not run out (prune).
RefusedForCause ==
    phase = "refused" => \E e \in log : Bars(e, plan)

\* However stale the balance by which its loan was chosen, what is handed to
\* submission borrows only what may be borrowed, earns MinNet with its gas at a
\* price below the ceiling and its data fee paid, and has the contract insist on a
\* profit (choose, prepare).
TradeIsSound ==
    phase = "trade" =>
        /\ loan > 0 => plan.token \in FlashEnabled /\ HasAave /\ loan <= LoanCap
        /\ loan = 0 => plan.token \in SelfFunded
        /\ \E price \in GasPrices, fee \in DataFees :
              price <= GasCeiling /\ NetProfit(plan, loan, price, fee) >= MinNet
        /\ ContractMin(plan, loan) > 0

\* Every refresh comes to its end (process_refresh returns to run_chain).
RefreshEnds == (phase # "idle") ~> (phase = "idle")
=============================================================================
