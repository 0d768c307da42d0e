----------------------------- MODULE RoutingProofs -----------------------------
(***************************************************************************)
(* Proofs about routing.  Of the pipeline: that the failure cache bars     *)
(* what it should and no more, and that only sound plans are handed to     *)
(* submission, for all plans, times to live, balances and limits.  Of the  *)
(* search for a plan: that no pool is given more than it can take and that *)
(* the answer is at least as good as what had to be tried, for all         *)
(* markets, pools and bounds of the search.                                *)
(***************************************************************************)
EXTENDS RoutePipeline, PlanSearch, FiniteSetTheorems, WellFoundedInduction, TLAPS

-----------------------------------------------------------------------------
(* The pipeline *)

\* There is a plan in hand.
InHand == phase \in {"verify", "choose", "refused", "price", "simulate", "trade"}

\* The plan in hand has been looked up in the failure cache and was not in it.
LookedUp == phase \in {"price", "simulate", "trade"}

Types ==
    /\ clock \in Nat
    /\ loan \in Nat
    /\ routed \in Seq(Plans)
    /\ InHand => plan \in Plans
    /\ funds \in [SelfFunded -> Nat]
    /\ \A t \in DOMAIN known : known[t].value \in Nat
    /\ \A k \in DOMAIN failures : failures[k] \in Nat
    /\ \A e \in log : e.class \in Classes /\ e.until \in Nat /\ e.until > clock

\* The keys of a failure that has not run out are in the cache for at least as
\* long.
LoggedIsCached ==
    \A e \in log : \A k \in KeysForClass(e.plan, e.class) :
        k \in DOMAIN failures /\ failures[k] >= e.until

\* What is in the cache and has not run out comes from such a failure.
CachedIsLogged ==
    \A k \in DOMAIN failures : failures[k] > clock =>
        \E e \in log : k \in KeysForClass(e.plan, e.class) /\ e.until = failures[k]

\* What prepare has checked when it has chosen the loan, and when it has the
\* price of gas
LoanAllowed ==
    LookedUp =>
        /\ plan.gross > LoanFee(loan)
        /\ loan > 0 => plan.token \in FlashEnabled /\ HasAave /\ loan <= LoanCap
        /\ loan = 0 => plan.token \in SelfFunded
        /\ ContractMin(plan, loan) > 0

Worth ==
    phase \in {"simulate", "trade"} =>
        \E price \in GasPrices, fee \in DataFees : WorthGas(price, fee)

LoanInv == Types /\ LoanAllowed /\ Worth

CacheInv == LoggedIsCached /\ CachedIsLogged /\ NotTriedAgain /\ RefusedForCause

-----------------------------------------------------------------------------
(* Lemmas about the operators *)

\* A failure with a key of a plan bars it.
LEMMA SharedKeyBars ==
    ASSUME NEW e, NEW p, NEW k \in KeysForClass(e.plan, e.class), k \in FailureKeys(p)
    PROVE  Bars(e, p)
<1>1. CASE k = RouteKey(e.plan)
  <2>1. k = RouteKey(p)
    BY <1>1 DEF FailureKeys, RouteKey, PoolKeys, TokenKeys
  <2> QED
    BY <1>1, <2>1 DEF RouteKey, Bars
<1>2. CASE k \in PoolKeys(Blamed(e.plan, e.class))
  <2>1. k \in PoolKeys(SplitSet(p))
    BY <1>2 DEF FailureKeys, RouteKey, PoolKeys, TokenKeys
  <2>2. PICK s \in Blamed(e.plan, e.class) : k = [of |-> "pool", splits |-> <<s>>]
    BY <1>2 DEF PoolKeys
  <2>3. PICK u \in SplitSet(p) : k = [of |-> "pool", splits |-> <<u>>]
    BY <2>1 DEF PoolKeys
  <2>4. s = u
    BY <2>2, <2>3
  <2> QED
    BY <2>4 DEF Blamed, Bars
<1>3. CASE k \in TokenKeys(e.plan) /\ e.class = "transfer"
  <2>1. k \in TokenKeys(p)
    BY <1>3 DEF FailureKeys, RouteKey, PoolKeys, TokenKeys
  <2>2. PICK s \in SplitSet(e.plan) : k = [of |-> "token", splits |-> <<Pair(s)>>]
    BY <1>3 DEF TokenKeys
  <2>3. PICK u \in SplitSet(p) : k = [of |-> "token", splits |-> <<Pair(u)>>]
    BY <2>1 DEF TokenKeys
  <2>4. Pair(s) = Pair(u)
    BY <2>2, <2>3
  <2> QED
    BY <1>3, <2>4 DEF Bars
<1> QED
  BY <1>1, <1>2, <1>3 DEF KeysForClass

\* A failure that bars a plan has a key of it.
LEMMA BarsSharesKey ==
    ASSUME NEW e, NEW p, Bars(e, p)
    PROVE  \E k \in KeysForClass(e.plan, e.class) : k \in FailureKeys(p)
<1>1. CASE Splits(e.plan) = Splits(p)
  BY <1>1 DEF RouteKey, KeysForClass, FailureKeys
<1>2. CASE \E s \in Blamed(e.plan, e.class) : s \in SplitSet(p)
  <2>1. PICK s \in Blamed(e.plan, e.class) : s \in SplitSet(p)
    BY <1>2
  <2>2. [of |-> "pool", splits |-> <<s>>] \in PoolKeys(Blamed(e.plan, e.class)) \cap PoolKeys(SplitSet(p))
    BY <2>1 DEF PoolKeys
  <2> QED
    BY <2>2 DEF KeysForClass, FailureKeys
<1>3. CASE /\ e.class = "transfer"
           /\ \E s \in SplitSet(e.plan), u \in SplitSet(p) : Pair(s) = Pair(u)
  <2>1. PICK s \in SplitSet(e.plan), u \in SplitSet(p) : Pair(s) = Pair(u)
    BY <1>3
  <2>2. [of |-> "token", splits |-> <<Pair(s)>>] \in TokenKeys(e.plan) \cap TokenKeys(p)
    BY <2>1 DEF TokenKeys
  <2> QED
    BY <1>3, <2>2 DEF KeysForClass, FailureKeys
<1> QED
  BY <1>1, <1>2, <1>3 DEF Bars, Blamed

\* Whatever the class, a failure is recorded under keys of its own plan.
LEMMA KeysAreOwn ==
    ASSUME NEW p, NEW class
    PROVE  KeysForClass(p, class) \subseteq FailureKeys(p)
BY DEF KeysForClass, FailureKeys, Blamed, PoolKeys

\* A share of a natural number is one.
LEMMA ShareIsNat ==
    ASSUME NEW a \in Nat, NEW b \in Nat, NEW c \in Nat \ {0}
    PROVE  (a * b) \div c \in Nat
<1>1. a * b \in Nat
  OBVIOUS
<1> QED
  BY <1>1

\* What a loan costs
LEMMA LoanFeeIsNat == ASSUME NEW x \in Nat PROVE LoanFee(x) \in Nat
BY ShareIsNat, LoanAssumption DEF LoanFee

\* What the contract must be left with, of a plan that pays for its loan
LEMMA ContractMinIsNat ==
    ASSUME NEW p \in Plans, NEW x \in Nat, p.gross > LoanFee(x)
    PROVE  ContractMin(p, x) \in Nat
<1>1. p.gross - LoanFee(x) \in Nat
  BY LoanFeeIsNat, PipelineAssumption
<1> QED
  BY <1>1, ShareIsNat, LoanAssumption, PipelineAssumption DEF ContractMin

-----------------------------------------------------------------------------
(* Types, and what is checked of a loan *)

LEMMA TypesInit == Init => Types
<1> SUFFICES ASSUME Init PROVE Types
  OBVIOUS
<1>1. Funds \subseteq Nat
  BY PipelineAssumption
<1>2. funds \in [SelfFunded -> Nat]
  BY <1>1 DEF Init
<1> QED
  BY <1>2 DEF Init, Types, InHand

\* What a balance is, and what the loan chosen by it
LEMMA BalanceIs ==
    ASSUME Types, phase = "choose",
           NEW b \in {0} \cup {funds[t] : t \in SelfFunded} \cup {known[t].value : t \in DOMAIN known},
           BalanceRead(b)
    PROVE  /\ b \in Nat
           /\ \A t \in DOMAIN known' : known'[t].value \in Nat
           /\ plan.amount - Lesser(b, plan.amount) \in Nat
           /\ plan.amount - Lesser(b, plan.amount) = 0 => plan.token \in SelfFunded
<1>1. b \in Nat
  BY DEF Types
<1>2. \A t \in DOMAIN known' : known'[t].value \in Nat
  BY <1>1 DEF Types, BalanceRead
<1>3. plan.amount \in Nat \ {0}
  BY PipelineAssumption DEF Types, InHand
<1>4. plan.token \notin SelfFunded => b = 0
  BY DEF BalanceRead
<1> QED
  BY <1>1, <1>2, <1>3, <1>4 DEF Lesser

LEMMA TypesNext == Types /\ LoanAllowed /\ [Next]_vars => Types'
<1> SUFFICES ASSUME Types, LoanAllowed, [Next]_vars
             PROVE  Types'
  OBVIOUS
<1> USE DEF Types, InHand
<1>1. ASSUME NEW found, Refresh(found) PROVE Types'
  BY <1>1 DEF Refresh, caches
<1>2. ASSUME NEW c \in todo, Routed(c) PROVE Types'
  BY <1>2 DEF Routed, caches
<1>3. ASSUME NEW c \in todo, NotRouted(c) PROVE Types'
  BY <1>3 DEF NotRouted, caches
<1>4. CASE Rank
  <2>1. PICK order \in Rankings :
           routed' = [i \in 1..Lesser(ScanLimit, Len(routed)) |-> routed[order[i]]]
    BY <1>4 DEF Rank
  <2>2. Lesser(ScanLimit, Len(routed)) \in 0..Len(routed)
    BY PipelineAssumption DEF Lesser
  <2>3. \A i \in 1..Lesser(ScanLimit, Len(routed)) : routed[order[i]] \in Plans
    BY <2>2 DEF Rankings
  <2>4. routed' \in Seq(Plans)
    BY <2>1, <2>2, <2>3
  <2> QED
    BY <1>4, <2>4 DEF Rank, caches
<1>5. CASE TakeRoute
  BY <1>5 DEF TakeRoute, caches
<1>6. CASE EndRefresh
  BY <1>6 DEF EndRefresh, caches
<1>7. CASE Verified
  BY <1>7 DEF Verified, caches
<1>8. CASE VerifyFails
  BY <1>8 DEF VerifyFails, caches
<1>9. CASE Choose
  <2>1. PICK b \in {0} \cup {funds[t] : t \in SelfFunded} \cup {known[t].value : t \in DOMAIN known} :
           LET x == plan.amount - Lesser(b, plan.amount)
           IN  /\ BalanceRead(b)
               /\ failures' = IF MayBorrow(x) THEN Pruned ELSE failures
               /\ IF ~MayBorrow(x) \/ (~Skipped(plan) /\ ContractMin(plan, x) = 0)
                  THEN RouteEnds
                  ELSE /\ phase' = IF Skipped(plan) THEN "refused" ELSE "price"
                       /\ loan' = x
                       /\ UNCHANGED <<todo, routed, plan, attempts>>
    BY <1>9 DEF Choose
  <2>2. plan \in Plans /\ phase = "choose"
    BY <1>9 DEF Choose
  <2>3. /\ plan.amount - Lesser(b, plan.amount) \in Nat
        /\ \A t \in DOMAIN known' : known'[t].value \in Nat
    BY <2>1, <2>2, BalanceIs
  <2>4. loan' \in Nat /\ routed' \in Seq(Plans)
    BY <2>1, <2>3 DEF RouteEnds
  <2>5. InHand' => plan' \in Plans
    BY <2>1, <2>2 DEF RouteEnds
  <2>6. \A k \in DOMAIN failures' : failures'[k] \in Nat
    BY <2>1 DEF Pruned
  <2> QED
    BY <1>9, <2>3, <2>4, <2>5, <2>6 DEF Choose
<1>10. CASE Refused
  BY <1>10 DEF Refused, RouteEnds, caches
<1>11. CASE Price
  BY <1>11 DEF Price, work, caches
<1>12. CASE PricedOut
  BY <1>12 DEF PricedOut, RouteEnds, caches
<1>13. CASE SimulationPasses
  BY <1>13 DEF SimulationPasses, work, caches
<1>14. ASSUME NEW class \in Classes, SimulationFails(class) PROVE Types'
  <2>1. Ttl[class] \in Nat
    BY PipelineAssumption
  <2>2. \A k \in DOMAIN failures' : failures'[k] \in Nat
    <3>1. \A k \in DOMAIN Pruned : Pruned[k] \in Nat
      BY DEF Pruned
    <3>2. clock + Ttl[class] \in Nat
      BY <2>1
    <3> QED
      BY <1>14, <3>1, <3>2 DEF SimulationFails, Record
  <2>3. \A e \in log' : e.class \in Classes /\ e.until \in Nat /\ e.until > clock
    BY <1>14, <2>1 DEF SimulationFails, Record
  <2> QED
    BY <1>14, <2>2, <2>3 DEF SimulationFails, RouteEnds
<1>15. CASE SimulationRefuses
  BY <1>15 DEF SimulationRefuses, RouteEnds, caches
<1>16. CASE TradeEnds
  <2>1. plan.gross \in Nat /\ plan.gross > LoanFee(loan)
    BY <1>16, PipelineAssumption DEF TradeEnds, LoanAllowed, LookedUp
  <2>2. \A n \in Nat : Lesser(n + plan.gross - LoanFee(loan), MaxFunds) \in Nat
    <3>1. LoanFee(loan) \in Nat /\ MaxFunds \in Nat
      BY LoanFeeIsNat, PipelineAssumption
    <3> QED
      BY <2>1, <3>1 DEF Lesser
  <2>3. funds' \in [SelfFunded -> Nat]
    BY <1>16, <2>2 DEF TradeEnds
  <2> QED
    BY <1>16, <2>3 DEF TradeEnds, RouteEnds, caches
<1>17. ASSUME NEW t \in SelfFunded, Withdraw(t) PROVE Types'
  BY <1>17 DEF Withdraw, work, caches
<1>18. CASE Tick
  BY <1>18 DEF Tick, work
<1>19. CASE UNCHANGED vars
  BY <1>19 DEF vars, work, caches
<1> QED
  BY <1>1, <1>2, <1>3, <1>4, <1>5, <1>6, <1>7, <1>8, <1>9, <1>10, <1>11, <1>12, <1>13,
     <1>14, <1>15, <1>16, <1>17, <1>18, <1>19 DEF Next, Engine

LEMMA LoanNext == Types /\ LoanAllowed /\ Worth /\ [Next]_vars => LoanAllowed' /\ Worth'
<1> SUFFICES ASSUME Types, LoanAllowed, Worth, [Next]_vars
             PROVE  LoanAllowed' /\ Worth'
  OBVIOUS
<1> USE DEF LoanAllowed, Worth, LookedUp
<1>1. CASE Choose
  <2>1. PICK b \in {0} \cup {funds[t] : t \in SelfFunded} \cup {known[t].value : t \in DOMAIN known} :
           LET x == plan.amount - Lesser(b, plan.amount)
           IN  /\ BalanceRead(b)
               /\ IF ~MayBorrow(x) \/ (~Skipped(plan) /\ ContractMin(plan, x) = 0)
                  THEN RouteEnds
                  ELSE /\ phase' = IF Skipped(plan) THEN "refused" ELSE "price"
                       /\ loan' = x
                       /\ UNCHANGED <<todo, routed, plan, attempts>>
    BY <1>1 DEF Choose
  <2> DEFINE x == plan.amount - Lesser(b, plan.amount)
  <2>2. plan \in Plans /\ phase = "choose"
    BY <1>1 DEF Choose, Types, InHand
  <2>3. x \in Nat /\ (x = 0 => plan.token \in SelfFunded)
    BY <2>1, <2>2, BalanceIs
  <2>4. CASE RouteEnds
    BY <2>4 DEF RouteEnds
  <2>5. CASE Skipped(plan) /\ ~RouteEnds
    BY <2>1, <2>5
  <2>6. CASE ~Skipped(plan) /\ ~RouteEnds
    <3>1. /\ MayBorrow(x) /\ ContractMin(plan, x) # 0
          /\ phase' = "price" /\ loan' = x /\ plan' = plan
      BY <2>1, <2>6
    <3>2. plan.gross > LoanFee(x)
      BY <3>1 DEF MayBorrow
    <3>3. ContractMin(plan, x) \in Nat
      BY <2>2, <2>3, <3>2, ContractMinIsNat
    <3>4. x > 0 => plan.token \in FlashEnabled /\ HasAave /\ x <= LoanCap
      BY <2>3, <3>1 DEF MayBorrow
    <3> HIDE DEF x
    <3>5. LoanFee(loan)' = LoanFee(x) /\ ContractMin(plan, loan)' = ContractMin(plan, x)
      BY <3>1 DEF LoanFee, ContractMin
    <3> QED
      BY <2>3, <3>1, <3>2, <3>3, <3>4, <3>5
  <2> QED
    BY <2>4, <2>5, <2>6
<1>2. CASE Price
  <2>1. /\ phase = "price" /\ phase' = "simulate"
        /\ UNCHANGED <<plan, loan>>
        /\ \E price \in GasPrices, fee \in DataFees : WorthGas(price, fee)
    BY <1>2 DEF Price, work
  <2>2. (\E price \in GasPrices, fee \in DataFees : WorthGas(price, fee))'
    BY <2>1 DEF WorthGas, NetProfit, GasLimit
  <2> QED
    BY <2>1, <2>2 DEF LoanFee, ContractMin
<1>3. CASE SimulationPasses
  <2>1. phase = "simulate" /\ phase' = "trade" /\ UNCHANGED <<plan, loan>>
    BY <1>3 DEF SimulationPasses, work
  <2>2. (\E price \in GasPrices, fee \in DataFees : WorthGas(price, fee))'
    BY <2>1 DEF WorthGas, NetProfit, GasLimit
  <2> QED
    BY <2>1, <2>2 DEF LoanFee, ContractMin
<1>4. CASE UNCHANGED <<phase, plan, loan>>
  <2>1. Worth'
    BY <1>4 DEF WorthGas, NetProfit, GasLimit
  <2> QED
    BY <1>4, <2>1 DEF LoanFee, ContractMin
<1>5. CASE phase' \in {"idle", "route", "scan", "verify", "choose", "refused"}
  BY <1>5
<1>6. \/ Choose \/ Price \/ SimulationPasses \/ UNCHANGED <<phase, plan, loan>>
      \/ phase' \in {"idle", "route", "scan", "verify", "choose", "refused"}
  BY DEF Next, Engine, vars, work, Refresh, Routed, NotRouted, Rank, TakeRoute, EndRefresh,
         Verified, VerifyFails, Refused, PricedOut, SimulationFails, SimulationRefuses,
         TradeEnds, RouteEnds, Withdraw, Tick
<1> QED
  BY <1>1, <1>2, <1>3, <1>4, <1>5, <1>6

-----------------------------------------------------------------------------
(* The failure cache *)

\* To drop what has run out changes nothing of what is said of the rest.
LEMMA PruningKeeps ==
    ASSUME Types, LoggedIsCached, CachedIsLogged
    PROVE  /\ \A e \in log : \A k \in KeysForClass(e.plan, e.class) :
                 k \in DOMAIN Pruned /\ Pruned[k] >= e.until
           /\ \A k \in DOMAIN Pruned : k \in DOMAIN failures /\ Pruned[k] = failures[k]
<1>1. \A e \in log : \A k \in KeysForClass(e.plan, e.class) :
         k \in DOMAIN failures /\ failures[k] \in Nat /\ failures[k] >= e.until
  BY DEF LoggedIsCached, Types
<1>2. \A e \in log : e.until \in Nat /\ e.until > clock
  BY DEF Types
<1>3. clock \in Nat
  BY DEF Types
<1> QED
  BY <1>1, <1>2, <1>3 DEF Pruned

\* A plan is found in the cache exactly when a failure that has not run out bars it.
LEMMA SkippedIsBarred ==
    ASSUME Types, LoggedIsCached, CachedIsLogged
    PROVE  Skipped(plan) <=> \E e \in log : Bars(e, plan)
<1>1. ASSUME Skipped(plan) PROVE \E e \in log : Bars(e, plan)
  <2>1. PICK k \in FailureKeys(plan) : k \in DOMAIN failures /\ failures[k] > clock
    BY <1>1 DEF Skipped, Pruned
  <2>2. PICK e \in log : k \in KeysForClass(e.plan, e.class)
    BY <2>1 DEF CachedIsLogged
  <2> QED
    BY <2>1, <2>2, SharedKeyBars
<1>2. ASSUME NEW e \in log, Bars(e, plan) PROVE Skipped(plan)
  <2>1. PICK k \in KeysForClass(e.plan, e.class) : k \in FailureKeys(plan)
    BY <1>2, BarsSharesKey
  <2> QED
    BY <2>1, PruningKeeps DEF Skipped
<1> QED
  BY <1>1, <1>2

LEMMA CacheInit == Init => CacheInv
BY DEF Init, CacheInv, LoggedIsCached, CachedIsLogged, NotTriedAgain, LookedUp, RefusedForCause

\* A failure is only recorded for a plan that no other failure bars, so that no
\* key of another is given an earlier end.
LEMMA RecordKeeps ==
    ASSUME Types, CacheInv, LookedUp, NEW class \in Classes, Record(plan, class), clock' = clock
    PROVE  LoggedIsCached' /\ CachedIsLogged'
<1>1. CASE Ttl[class] = 0
  <2>1. failures' = Pruned /\ log' = log
    BY <1>1 DEF Record
  <2> QED
    BY <2>1, PruningKeeps DEF CacheInv, LoggedIsCached, CachedIsLogged
<1>2. CASE Ttl[class] # 0
  <2> DEFINE keys == KeysForClass(plan, class)
             new == [plan |-> plan, class |-> class, until |-> clock + Ttl[class]]
  <2>1. /\ failures' = [k \in keys \cup DOMAIN Pruned |->
                           IF k \in keys THEN clock + Ttl[class] ELSE Pruned[k]]
        /\ log' = log \cup {new}
    BY <1>2 DEF Record
  <2>2. clock + Ttl[class] \in Nat
    BY PipelineAssumption DEF Types
  <2>3. \A e \in log : \A k \in KeysForClass(e.plan, e.class) : k \notin keys
    BY SharedKeyBars, KeysAreOwn DEF CacheInv, NotTriedAgain, LookedUp
  <2>4. \A e \in log : \A k \in KeysForClass(e.plan, e.class) :
           k \in DOMAIN failures' /\ failures'[k] >= e.until
    BY <2>1, <2>3, PruningKeeps DEF CacheInv
  <2>5. \A k \in KeysForClass(new.plan, new.class) :
           k \in DOMAIN failures' /\ failures'[k] >= new.until
    BY <2>1, <2>2
  <2>6. LoggedIsCached'
    BY <2>1, <2>4, <2>5 DEF LoggedIsCached
  <2>7. ASSUME NEW k \in DOMAIN failures', failures'[k] > clock
        PROVE  \E e \in log' : k \in KeysForClass(e.plan, e.class) /\ e.until = failures'[k]
    <3>1. CASE k \in keys
      <4>1. new.plan = plan /\ new.class = class /\ new.until = clock + Ttl[class]
        OBVIOUS
      <4>2. new \in log' /\ failures'[k] = clock + Ttl[class]
        BY <2>1, <3>1
      <4> QED
        BY <3>1, <4>1, <4>2
    <3>2. CASE k \notin keys
      BY <2>1, <2>7, <3>2, PruningKeeps DEF CacheInv, CachedIsLogged
    <3> QED
      BY <3>1, <3>2
  <2>8. CachedIsLogged'
    BY <2>7 DEF CachedIsLogged
  <2> QED
    BY <2>6, <2>8
<1> QED
  BY <1>1, <1>2

LEMMA CacheNext == Types /\ CacheInv /\ [Next]_vars => CacheInv'
<1> SUFFICES ASSUME Types, CacheInv, [Next]_vars
             PROVE  CacheInv'
  OBVIOUS
<1>1. CASE Choose
  <2>1. /\ failures' \in {Pruned, failures}
        /\ UNCHANGED <<log, clock>>
        /\ \/ phase' = "scan"
           \/ plan' = plan /\ phase' = IF Skipped(plan) THEN "refused" ELSE "price"
    BY <1>1 DEF Choose, RouteEnds
  <2>2. LoggedIsCached' /\ CachedIsLogged'
    BY <2>1, PruningKeeps DEF CacheInv, LoggedIsCached, CachedIsLogged
  <2>3. NotTriedAgain' /\ RefusedForCause'
    BY <2>1, SkippedIsBarred DEF CacheInv, NotTriedAgain, RefusedForCause, LookedUp, Bars
  <2> QED
    BY <2>2, <2>3 DEF CacheInv
<1>2. ASSUME NEW class \in Classes, SimulationFails(class) PROVE CacheInv'
  <2>1. phase = "simulate" /\ Record(plan, class) /\ phase' = "scan" /\ clock' = clock
    BY <1>2 DEF SimulationFails, RouteEnds
  <2>2. LoggedIsCached' /\ CachedIsLogged'
    BY <2>1, RecordKeeps DEF LookedUp
  <2> QED
    BY <2>1, <2>2 DEF CacheInv, NotTriedAgain, LookedUp, RefusedForCause
<1>3. CASE Tick
  <2>1. /\ phase # "refused" /\ clock' = clock + 1
        /\ log' = {e \in log : e.until > clock'}
        /\ UNCHANGED <<phase, plan, failures>>
    BY <1>3 DEF Tick, work
  <2>2. LoggedIsCached'
    BY <2>1 DEF CacheInv, LoggedIsCached
  <2>3. ASSUME NEW k \in DOMAIN failures, failures[k] > clock + 1
        PROVE  \E e \in log' : k \in KeysForClass(e.plan, e.class) /\ e.until = failures[k]
    <3>1. failures[k] \in Nat /\ clock \in Nat
      BY DEF Types
    <3>2. PICK e \in log : k \in KeysForClass(e.plan, e.class) /\ e.until = failures[k]
      BY <2>3, <3>1 DEF CacheInv, CachedIsLogged
    <3> QED
      BY <2>1, <2>3, <3>2
  <2>4. CachedIsLogged'
    BY <2>1, <2>3 DEF CachedIsLogged
  <2>5. NotTriedAgain' /\ RefusedForCause'
    BY <2>1 DEF CacheInv, NotTriedAgain, LookedUp, RefusedForCause, Bars
  <2> QED
    BY <2>2, <2>4, <2>5 DEF CacheInv
<1>4. CASE /\ UNCHANGED <<failures, log, clock>>
           /\ \/ UNCHANGED <<phase, plan>>
              \/ LookedUp /\ LookedUp' /\ phase' # "refused" /\ plan' = plan
              \/ phase' \in {"idle", "route", "scan", "verify", "choose"}
  BY <1>4 DEF CacheInv, LoggedIsCached, CachedIsLogged, NotTriedAgain, LookedUp, RefusedForCause, Bars
<1>5. \/ Choose \/ (\E class \in Classes : SimulationFails(class)) \/ Tick
      \/ /\ UNCHANGED <<failures, log, clock>>
         /\ \/ UNCHANGED <<phase, plan>>
            \/ LookedUp /\ LookedUp' /\ phase' # "refused" /\ plan' = plan
            \/ phase' \in {"idle", "route", "scan", "verify", "choose"}
  BY DEF Next, Engine, vars, work, caches, Refresh, Routed, NotRouted, Rank, TakeRoute, EndRefresh,
         Verified, VerifyFails, Refused, Price, PricedOut, SimulationPasses, SimulationRefuses,
         TradeEnds, RouteEnds, Withdraw, LookedUp
<1> QED
  BY <1>1, <1>2, <1>3, <1>4, <1>5

-----------------------------------------------------------------------------
(* Theorems *)

\* The inductive invariant of the pipeline
PipelineInv == LoanInv /\ CacheInv

\* The invariant holds for all plans and limits (process_refresh, prepare).
THEOREM Invariance == Spec => []PipelineInv
<1>1. Init => PipelineInv
  <2>1. Init => LoanAllowed /\ Worth
    BY DEF Init, LoanAllowed, LookedUp, Worth
  <2> QED
    BY <2>1, TypesInit, CacheInit DEF PipelineInv, LoanInv
<1>2. PipelineInv /\ [Next]_vars => PipelineInv'
  BY TypesNext, LoanNext, CacheNext DEF PipelineInv, LoanInv
<1> QED
  BY <1>1, <1>2, PTL DEF Spec

\* No plan is priced or simulated that a failure bars: no later record ever
\* shortens what an earlier one has barred (FailureCache).
THEOREM BarredIsNotTried == Spec => []NotTriedAgain
<1>1. PipelineInv => NotTriedAgain
  BY DEF PipelineInv, CacheInv
<1> QED
  BY <1>1, Invariance, PTL

\* A plan is refused only for a failure that bars it now (skip_reason).
THEOREM RefusalHasCause == Spec => []RefusedForCause
<1>1. PipelineInv => RefusedForCause
  BY DEF PipelineInv, CacheInv
<1> QED
  BY <1>1, Invariance, PTL

\* What is handed to submission keeps to the limits of a loan, pays for its gas
\* and has the contract insist on a profit (choose, prepare).
THEOREM TradesAreSound == Spec => []TradeIsSound
<1>1. PipelineInv => TradeIsSound
  <2> SUFFICES ASSUME PipelineInv, phase = "trade" PROVE TradeIsSound
    BY DEF TradeIsSound
  <2>1. \E price \in GasPrices, fee \in DataFees :
           price <= GasCeiling /\ NetProfit(plan, loan, price, fee) >= MinNet
    BY DEF PipelineInv, LoanInv, Worth, WorthGas
  <2> QED
    BY <2>1 DEF PipelineInv, LoanInv, LoanAllowed, LookedUp, TradeIsSound
<1> QED
  BY <1>1, Invariance, PTL

-----------------------------------------------------------------------------
(* Induction and recursion over the natural numbers *)

\* Induction over the natural numbers, about the set of those that have a property
LEMMA InductiveSet ==
    ASSUME NEW S, 0 \in S, \A n \in Nat : n \in S => n + 1 \in S
    PROVE  Nat \subseteq S
<1> DEFINE R == OpToRel(<, Nat)
           T == {n \in Nat : n \notin S}
<1> SUFFICES ASSUME T # {} PROVE FALSE
  OBVIOUS
<1>1. IsWellFoundedOn(R, Nat)
  BY NatLessThanWellFounded, Zenon
<1>2. PICK x \in T : \A y \in T : ~ (<<y, x>> \in R)
  <2> HIDE DEF R
  <2> QED
    BY <1>1, WFMin
<1>3. \A y \in T : ~ (y < x)
  BY <1>2 DEF OpToRel
<1>4. x # 0
  OBVIOUS
<1>5. x - 1 \in Nat /\ x - 1 \in T
  <2>1. x - 1 \in Nat /\ (x - 1) + 1 = x
    BY <1>4
  <2> QED
    BY <2>1
<1> QED
  BY <1>3, <1>5

\* The values after each round of a loop: F[i] is what its i-th round makes of one
Rounds(X, base, n, F) == base \in X /\ n \in Nat /\ F \in [1..n -> [X -> X]]
Values(X, base, n, F, g) == g \in [0..n -> X] /\ g[0] = base /\ \A i \in 1..n : g[i] = F[i][g[i - 1]]

\* A loop has a value after each of its rounds.
LEMMA LoopExists ==
    ASSUME NEW X, NEW base, NEW n, NEW F, Rounds(X, base, n, F)
    PROVE  \E g : Values(X, base, n, F, g)
<1> USE DEF Rounds
<1> DEFINE Made(g, m) == /\ g \in [0..m -> X]
                         /\ g[0] = base
                         /\ \A i \in 1..m : g[i] = F[i][g[i - 1]]
           T == {m \in Nat : m <= n => \E g : Made(g, m)}
<1>1. 0 \in T
  <2> DEFINE g == [i \in 0..0 |-> base]
  <2>1. Made(g, 0)
    OBVIOUS
  <2> HIDE DEF Made, g
  <2>2. \E f : Made(f, 0)
    BY <2>1
  <2> QED
    BY <2>2
<1>2. ASSUME NEW m \in Nat, m \in T PROVE m + 1 \in T
  <2> SUFFICES ASSUME m + 1 <= n PROVE \E g : Made(g, m + 1)
    <3> HIDE DEF Made
    <3> QED
      OBVIOUS
  <2>1. \E g : Made(g, m)
    <3> HIDE DEF Made
    <3> QED
      BY <1>2
  <2>2. PICK g : Made(g, m)
    BY <2>1
  <2> DEFINE h == [i \in 0..(m + 1) |-> IF i = m + 1 THEN F[m + 1][g[m]] ELSE g[i]]
  <2>3. F[m + 1][g[m]] \in X
    BY <2>2
  <2>4. h \in [0..(m + 1) -> X] /\ h[0] = base
    BY <2>2, <2>3
  <2>5. \A i \in 1..(m + 1) : h[i] = F[i][h[i - 1]]
    <3> TAKE i \in 1..(m + 1)
    <3>1. CASE i = m + 1
      <4>1. h[i] = F[m + 1][g[m]] /\ h[i - 1] = g[m]
        BY <3>1
      <4> QED
        BY <3>1, <4>1
    <3>2. CASE i # m + 1
      <4>1. i \in 1..m /\ h[i] = g[i] /\ h[i - 1] = g[i - 1]
        BY <3>2
      <4> QED
        BY <2>2, <4>1
    <3> QED
      BY <3>1, <3>2
  <2> HIDE DEF h
  <2>6. Made(h, m + 1)
    BY <2>4, <2>5
  <2> HIDE DEF Made
  <2> QED
    BY <2>6
<1>3. n \in T
  <2> HIDE DEF T
  <2> QED
    BY <1>1, <1>2, InductiveSet
<1>4. \E g : Made(g, n)
  <2> HIDE DEF Made
  <2> QED
    BY <1>3
<1> QED
  BY <1>4 DEF Values

-----------------------------------------------------------------------------
(* Sums *)

\* g[k] is the sum of the first k members of s.
Sums(s, n, g) ==
    /\ g \in [0..n -> Nat] /\ g[0] = 0
    /\ \A k \in 1..n : g[k] = g[k - 1] + s[k]

\* Total, by its partial sums
LEMMA SumsExist ==
    ASSUME NEW n \in Nat, NEW s \in [1..n -> Nat]
    PROVE  \E g : Sums(s, n, g) /\ Total(s) = g[n]
<1> DEFINE F == [k \in 1..n |-> [x \in Nat |-> x + s[k]]]
           sum[k \in 0..n] == IF k = 0 THEN 0 ELSE sum[k - 1] + s[k]
<1>1. Rounds(Nat, 0, n, F)
  BY DEF Rounds
<1>2. \A k \in 1..n, x \in Nat : F[k][x] = x + s[k]
  OBVIOUS
<1> HIDE DEF F
<1>3. PICK g : Values(Nat, 0, n, F, g)
  BY <1>1, LoopExists
<1>4. \A k \in 1..n : k - 1 \in 0..n
  OBVIOUS
<1>5. Sums(s, n, g)
  BY <1>2, <1>3, <1>4 DEF Values, Sums
<1>6. g = [k \in 0..n |-> IF k = 0 THEN 0 ELSE g[k - 1] + s[k]]
  <2>1. \A k \in 0..n : g[k] = IF k = 0 THEN 0 ELSE g[k - 1] + s[k]
    <3>1. \A k \in 0..n : k = 0 \/ k \in 1..n
      OBVIOUS
    <3> QED
      BY <1>5, <3>1 DEF Sums
  <2>2. g = [k \in 0..n |-> g[k]]
    BY <1>5 DEF Sums
  <2> QED
    BY <2>1, <2>2, Zenon
<1>7. sum = [k \in 0..n |-> IF k = 0 THEN 0 ELSE sum[k - 1] + s[k]]
  BY <1>6, Zenon
<1>8. Len(s) = n
  BY DEF Sums
<1>9. Total(s) = sum[n]
  BY <1>8 DEF Total
<1> HIDE DEF sum
<1>10. \A k \in 0..n : sum[k] = IF k = 0 THEN 0 ELSE sum[k - 1] + s[k]
  BY <1>7, Zenon
<1>11. \A k \in 0..n : sum[k] = g[k]
  <2> DEFINE T == {k \in Nat : k <= n => sum[k] = g[k]}
  <2>1. 0 \in T
    BY <1>5, <1>10 DEF Sums
  <2>2. ASSUME NEW k \in Nat, k \in T PROVE k + 1 \in T
    <3> SUFFICES ASSUME k + 1 <= n PROVE sum[k + 1] = g[k + 1]
      OBVIOUS
    <3>1. k + 1 \in 1..n /\ k + 1 \in 0..n /\ k + 1 # 0 /\ (k + 1) - 1 = k /\ sum[k] = g[k]
      BY <2>2
    <3>2. sum[k + 1] = sum[k] + s[k + 1]
      BY <1>10, <3>1
    <3>3. g[k + 1] = g[k] + s[k + 1]
      BY <1>5, <3>1 DEF Sums
    <3> QED
      BY <3>1, <3>2, <3>3
  <2> HIDE DEF T
  <2>3. Nat \subseteq T
    BY <2>1, <2>2, InductiveSet
  <2> QED
    BY <2>3 DEF T
<1> QED
  BY <1>5, <1>9, <1>11

LEMMA TotalIsNat ==
    ASSUME NEW n \in Nat, NEW s \in [1..n -> Nat]
    PROVE  Total(s) \in Nat
BY SumsExist DEF Sums

LEMMA TotalGrows ==
    ASSUME NEW n \in Nat, NEW s \in [1..n -> Nat], NEW t \in [1..n -> Nat],
           \A i \in 1..n : s[i] <= t[i]
    PROVE  Total(s) <= Total(t)
<1>1. PICK g : Sums(s, n, g) /\ Total(s) = g[n]
  BY SumsExist
<1>2. PICK h : Sums(t, n, h) /\ Total(t) = h[n]
  BY SumsExist
<1> DEFINE T == {k \in Nat : k <= n => g[k] <= h[k]}
<1>3. 0 \in T
  BY <1>1, <1>2 DEF Sums
<1>4. ASSUME NEW k \in Nat, k \in T PROVE k + 1 \in T
  <2> SUFFICES ASSUME k + 1 <= n PROVE g[k + 1] <= h[k + 1]
    OBVIOUS
  <2>1. k + 1 \in 1..n /\ k \in 0..n /\ (k + 1) - 1 = k /\ g[k] <= h[k]
    BY <1>4
  <2>2. g[k + 1] = g[k] + s[k + 1] /\ h[k + 1] = h[k] + t[k + 1]
    BY <1>1, <1>2, <2>1 DEF Sums
  <2>3. g[k] \in Nat /\ h[k] \in Nat /\ s[k + 1] \in Nat /\ t[k + 1] \in Nat /\ s[k + 1] <= t[k + 1]
    BY <1>1, <1>2, <2>1 DEF Sums
  <2> QED
    BY <2>1, <2>2, <2>3
<1> HIDE DEF T
<1>5. Nat \subseteq T
  BY <1>3, <1>4, InductiveSet
<1> QED
  BY <1>1, <1>2, <1>5 DEF T

\* A sum changes with one of its members by as much.
LEMMA TotalChanges ==
    ASSUME NEW n \in Nat, NEW s \in [1..n -> Nat], NEW w \in 1..n, NEW v \in Nat
    PROVE  Total([s EXCEPT ![w] = v]) = Total(s) + (v - s[w])
<1> DEFINE t == [s EXCEPT ![w] = v]
<1>1. t \in [1..n -> Nat] /\ t[w] = v /\ \A i \in 1..n : i # w => t[i] = s[i]
  OBVIOUS
<1> HIDE DEF t
<1>2. PICK g : Sums(s, n, g) /\ Total(s) = g[n]
  BY SumsExist
<1>3. PICK h : Sums(t, n, h) /\ Total(t) = h[n]
  BY <1>1, SumsExist
<1> DEFINE T == {k \in Nat : k <= n => h[k] = IF k < w THEN g[k] ELSE g[k] + (v - s[w])}
<1>4. 0 \in T
  BY <1>2, <1>3 DEF Sums
<1>5. ASSUME NEW k \in Nat, k \in T PROVE k + 1 \in T
  <2> SUFFICES ASSUME k + 1 <= n
               PROVE  h[k + 1] = IF k + 1 < w THEN g[k + 1] ELSE g[k + 1] + (v - s[w])
    OBVIOUS
  <2>1. k + 1 \in 1..n /\ k \in 0..n /\ (k + 1) - 1 = k
    OBVIOUS
  <2>2. g[k + 1] = g[k] + s[k + 1] /\ h[k + 1] = h[k] + t[k + 1]
    BY <1>2, <1>3, <2>1 DEF Sums
  <2>3. g[k] \in Nat /\ h[k] \in Nat /\ s[k + 1] \in Nat /\ t[k + 1] \in Nat /\ s[w] \in Nat
    BY <1>1, <1>2, <1>3, <2>1 DEF Sums
  <2>4. h[k] = IF k < w THEN g[k] ELSE g[k] + (v - s[w])
    BY <1>5
  <2>5. CASE k + 1 = w
    <3>1. t[k + 1] = v /\ s[k + 1] = s[w] /\ k < w
      BY <1>1, <2>5
    <3> QED
      BY <2>2, <2>3, <2>4, <2>5, <3>1
  <2>6. CASE k + 1 # w
    <3>1. t[k + 1] = s[k + 1]
      BY <1>1, <2>1, <2>6
    <3> QED
      BY <2>2, <2>3, <2>4, <2>6, <3>1
  <2> QED
    BY <2>5, <2>6
<1> HIDE DEF T
<1>6. Nat \subseteq T
  BY <1>4, <1>5, InductiveSet
<1>7. h[n] = g[n] + (v - s[w])
  BY <1>6 DEF T
<1> QED
  BY <1>2, <1>3, <1>7 DEF t

LEMMA TotalOfNothing ==
    ASSUME NEW n \in Nat, NEW s \in [1..n -> Nat], \A i \in 1..n : s[i] = 0
    PROVE  Total(s) = 0
<1>1. PICK g : Sums(s, n, g) /\ Total(s) = g[n]
  BY SumsExist
<1> DEFINE T == {k \in Nat : k <= n => g[k] = 0}
<1>2. 0 \in T
  BY <1>1 DEF Sums
<1>3. ASSUME NEW k \in Nat, k \in T PROVE k + 1 \in T
  <2> SUFFICES ASSUME k + 1 <= n PROVE g[k + 1] = 0
    OBVIOUS
  <2>1. k + 1 \in 1..n /\ (k + 1) - 1 = k /\ g[k] = 0
    BY <1>3
  <2> QED
    BY <1>1, <2>1 DEF Sums
<1> HIDE DEF T
<1>4. Nat \subseteq T
  BY <1>2, <1>3, InductiveSet
<1> QED
  BY <1>1, <1>4 DEF T

LEMMA TotalOfMore ==
    ASSUME NEW n \in Nat, NEW s \in [1..n -> Nat], NEW v \in Nat
    PROVE  Total(Append(s, v)) = Total(s) + v
<1> DEFINE t == Append(s, v)
<1>1. t \in [1..(n + 1) -> Nat] /\ t[n + 1] = v /\ \A i \in 1..n : t[i] = s[i]
  <2>1. s \in Seq(Nat) /\ Len(s) = n
    OBVIOUS
  <2>2. t \in Seq(Nat) /\ Len(t) = n + 1
    BY <2>1
  <2>3. t \in [1..(n + 1) -> Nat]
    <3> HIDE DEF t
    <3> QED
      BY <2>2
  <2>4. t[n + 1] = v
    BY <2>1
  <2>5. \A i \in 1..n : t[i] = s[i]
    BY <2>1
  <2> QED
    BY <2>3, <2>4, <2>5
<1> HIDE DEF t
<1>2. PICK g : Sums(s, n, g) /\ Total(s) = g[n]
  BY SumsExist
<1>3. PICK h : Sums(t, n + 1, h) /\ Total(t) = h[n + 1]
  BY <1>1, SumsExist
<1> DEFINE T == {k \in Nat : k <= n => h[k] = g[k]}
<1>4. 0 \in T
  BY <1>2, <1>3 DEF Sums
<1>5. ASSUME NEW k \in Nat, k \in T PROVE k + 1 \in T
  <2> SUFFICES ASSUME k + 1 <= n PROVE h[k + 1] = g[k + 1]
    OBVIOUS
  <2>1. k + 1 \in 1..n /\ k + 1 \in 1..(n + 1) /\ (k + 1) - 1 = k /\ h[k] = g[k]
    BY <1>5
  <2>2. g[k + 1] = g[k] + s[k + 1] /\ h[k + 1] = h[k] + t[k + 1] /\ t[k + 1] = s[k + 1]
    BY <1>1, <1>2, <1>3, <2>1 DEF Sums
  <2> QED
    BY <2>1, <2>2
<1> HIDE DEF T
<1>6. Nat \subseteq T
  BY <1>4, <1>5, InductiveSet
<1>7. h[n] = g[n]
  BY <1>6 DEF T
<1>8. h[n + 1] = h[n] + t[n + 1]
  <2>1. n + 1 \in 1..(n + 1) /\ (n + 1) - 1 = n
    OBVIOUS
  <2> QED
    BY <1>3, <2>1 DEF Sums
<1> QED
  BY <1>1, <1>2, <1>3, <1>7, <1>8 DEF t

LEMMA OneMore ==
    ASSUME NEW n \in Nat
    PROVE  1..(n + 1) = (1..n) \cup {n + 1}
<1>1. n + 1 \in 1..(n + 1) /\ 1..n \subseteq 1..(n + 1)
  OBVIOUS
<1>2. \A j \in 1..(n + 1) : j \in 1..n \/ j = n + 1
  OBVIOUS
<1> QED
  BY <1>1, <1>2

\* o names members of a sequence of n, none of them twice.
Picks(o, m, n) ==
    /\ m \in Nat /\ o \in [1..m -> 1..n]
    /\ \A i, j \in 1..m : o[i] = o[j] => i = j

\* Shares that have been picked out, none of them twice, add up to no more than all.
LEMMA PartOfTotal ==
    ASSUME NEW n \in Nat, NEW a \in [1..n -> Nat], NEW m, NEW o, Picks(o, m, n)
    PROVE  Total([k \in 1..m |-> a[o[k]]]) <= Total(a)
<1> USE DEF Picks
<1> DEFINE s == [k \in 1..m |-> a[o[k]]]
           Masked(k) == [i \in 1..n |-> IF \E j \in 1..k : o[j] = i THEN a[i] ELSE 0]
<1>1. s \in [1..m -> Nat]
  OBVIOUS
<1>2. PICK g : Sums(s, m, g) /\ Total(s) = g[m]
  <2> HIDE DEF s
  <2> QED
    BY <1>1, SumsExist
<1>3. \A k \in 0..m : Masked(k) \in [1..n -> Nat]
  OBVIOUS
<1> DEFINE T == {k \in Nat : k <= m => g[k] = Total(Masked(k))}
<1>4. 0 \in T
  <2>1. Total(Masked(0)) = 0
    <3>1. Masked(0) \in [1..n -> Nat] /\ \A i \in 1..n : Masked(0)[i] = 0
      OBVIOUS
    <3> HIDE DEF Masked
    <3> QED
      BY <3>1, TotalOfNothing
  <2> QED
    BY <1>2, <2>1 DEF Sums
<1>5. ASSUME NEW k \in Nat, k \in T PROVE k + 1 \in T
  <2> SUFFICES ASSUME k + 1 <= m PROVE g[k + 1] = Total(Masked(k + 1))
    OBVIOUS
  <2>1. k + 1 \in 1..m /\ (k + 1) - 1 = k /\ k \in 0..m /\ g[k] = Total(Masked(k))
    BY <1>5
  <2>2. g[k + 1] = g[k] + a[o[k + 1]]
    BY <1>2, <2>1 DEF Sums
  <2> DEFINE w == o[k + 1]
  <2>3. w \in 1..n /\ a[w] \in Nat
    BY <2>1
  <2>4. Masked(k)[w] = 0
    <3>1. \A j \in 1..k : j \in 1..m /\ j # k + 1
      BY <2>1
    <3>2. ~ \E j \in 1..k : o[j] = w
      BY <2>1, <3>1
    <3> QED
      BY <2>3, <3>2
  <2>5. Masked(k + 1) = [Masked(k) EXCEPT ![w] = a[w]]
    <3>1. 1..(k + 1) = (1..k) \cup {k + 1}
      BY OneMore
    <3>2. \A i \in 1..n : (\E j \in 1..(k + 1) : o[j] = i) <=> (i = w \/ \E j \in 1..k : o[j] = i)
      BY <3>1, Zenon
    <3>3. \A i \in 1..n : Masked(k + 1)[i] = IF i = w THEN a[w] ELSE Masked(k)[i]
      BY <3>2
    <3> QED
      BY <3>3
  <2>6. Masked(k) \in [1..n -> Nat]
    BY <1>3, <2>1
  <2> HIDE DEF Masked, w
  <2>7. Total(Masked(k + 1)) = Total(Masked(k)) + (a[w] - Masked(k)[w])
    <3>1. \A t \in [1..n -> Nat] : Total([t EXCEPT ![w] = a[w]]) = Total(t) + (a[w] - t[w])
      BY <2>3, TotalChanges
    <3> QED
      BY <2>5, <2>6, <3>1
  <2>8. Total(Masked(k)) \in Nat
    BY <2>6, TotalIsNat
  <2>9. g[k + 1] = g[k] + a[w]
    BY <2>2 DEF w
  <2> QED
    BY <2>1, <2>3, <2>4, <2>7, <2>8, <2>9
<1>6. Nat \subseteq T
  <2> HIDE DEF T
  <2> QED
    BY <1>4, <1>5, InductiveSet
<1>7. g[m] = Total(Masked(m))
  <2>1. m \in T
    <3> HIDE DEF T
    <3> QED
      BY <1>6
  <2> QED
    BY <2>1
<1>8. Total(Masked(m)) <= Total(a)
  <2>1. Masked(m) \in [1..n -> Nat] /\ \A i \in 1..n : Masked(m)[i] <= a[i]
    OBVIOUS
  <2> HIDE DEF Masked
  <2> QED
    BY <2>1, TotalGrows
<1> QED
  BY <1>2, <1>7, <1>8

-----------------------------------------------------------------------------
(* Orders *)

\* R is a strict total order on S.
Linear(R, S) ==
    /\ \A x \in S : <<x, x>> \notin R
    /\ \A x, y, z \in S : <<x, y>> \in R /\ <<y, z>> \in R => <<x, z>> \in R
    /\ \A x, y \in S : x # y => <<x, y>> \in R \/ <<y, x>> \in R

\* s has every member of S once, in the order of R.
Enumerates(s, S, R) ==
    /\ s \in [1..Cardinality(S) -> S]
    /\ \A x \in S : \E i \in 1..Cardinality(S) : s[i] = x
    /\ \A i, j \in 1..Cardinality(S) : s[i] = s[j] => i = j
    /\ \A i, j \in 1..Cardinality(S) : i < j => <<s[i], s[j]>> \in R

\* A finite set that is strictly and totally ordered is enumerated in that order.
LEMMA InOrderIs ==
    ASSUME NEW S, IsFiniteSet(S), NEW R, Linear(R, S)
    PROVE  Enumerates(InOrder(S, R), S, R)
<1> DEFINE c == Cardinality(S)
           Before(x) == {y \in S : <<y, x>> \in R}
           rank == [x \in S |-> Cardinality(Before(x))]
           s == InOrder(S, R)
<1>1. c \in Nat /\ \A x \in S : IsFiniteSet(Before(x)) /\ Cardinality(Before(x)) \in Nat
  <2>1. \A x \in S : Before(x) \in SUBSET S
    OBVIOUS
  <2> QED
    BY <2>1, FS_CardinalityType, FS_Subset
<1>2. \A x, y \in S : <<x, y>> \in R => rank[x] < rank[y]
  <2> SUFFICES ASSUME NEW x \in S, NEW y \in S, <<x, y>> \in R
               PROVE  Cardinality(Before(x)) < Cardinality(Before(y))
    OBVIOUS
  <2>1. Before(x) \in SUBSET Before(y) /\ x \in Before(y) /\ x \notin Before(x)
    BY DEF Linear
  <2> HIDE DEF Before
  <2>2. /\ Cardinality(Before(x)) <= Cardinality(Before(y))
        /\ Cardinality(Before(x)) # Cardinality(Before(y))
    BY <1>1, <2>1, FS_Subset
  <2> QED
    BY <1>1, <2>2
<1>3. \A x \in S : rank[x] \in 0..(c - 1)
  <2> SUFFICES ASSUME NEW x \in S PROVE Cardinality(Before(x)) \in 0..(c - 1)
    OBVIOUS
  <2>1. Before(x) \in SUBSET S /\ x \notin Before(x)
    BY DEF Linear
  <2> HIDE DEF Before
  <2>2. Cardinality(Before(x)) <= c /\ Cardinality(Before(x)) # c
    BY <2>1, FS_Subset
  <2> QED
    BY <1>1, <2>2
<1>4. \A x, y \in S : rank[x] = rank[y] => x = y
  <2> SUFFICES ASSUME NEW x \in S, NEW y \in S, rank[x] = rank[y], x # y PROVE FALSE
    OBVIOUS
  <2>1. <<x, y>> \in R \/ <<y, x>> \in R
    BY DEF Linear
  <2>2. rank[x] \in Int /\ rank[y] \in Int
    BY <1>3
  <2>3. rank[x] < rank[y] \/ rank[y] < rank[x]
    BY <1>2, <2>1
  <2> HIDE DEF rank
  <2> QED
    BY <2>2, <2>3
<1>5. \A x \in S : rank[x] = Cardinality(Before(x))
  OBVIOUS
<1>6. rank \in Surjection(S, 0..(c - 1))
  <2>1. rank \in Injection(S, 0..(c - 1))
    <3>1. rank \in [S -> 0..(c - 1)]
      BY <1>3
    <3> HIDE DEF rank
    <3> QED
      BY <1>4, <3>1 DEF Injection, IsInjective
  <2>2. IsFiniteSet(0..(c - 1)) /\ Cardinality(0..(c - 1)) = c
    BY <1>1, FS_Interval
  <2> HIDE DEF rank
  <2> QED
    BY <2>1, <2>2, FS_Injection
<1>7. \A i \in 1..c : \E x \in S : Cardinality(Before(x)) = i - 1
  <2> TAKE i \in 1..c
  <2>1. i - 1 \in 0..(c - 1)
    BY <1>1
  <2> HIDE DEF rank
  <2>2. PICK x \in S : rank[x] = i - 1
    BY <1>6, <2>1 DEF Surjection
  <2> QED
    BY <1>5, <2>2
<1>8. s = [i \in 1..c |-> CHOOSE x \in S : Cardinality(Before(x)) = i - 1]
  BY DEF InOrder
<1>9. \A i \in 1..c : s[i] \in S /\ Cardinality(Before(s[i])) = i - 1
  <2> TAKE i \in 1..c
  <2>1. s[i] = CHOOSE x \in S : Cardinality(Before(x)) = i - 1
    BY <1>8
  <2> HIDE DEF Before, s
  <2> QED
    BY <1>7, <2>1
<1>10. DOMAIN s = 1..c /\ s = [i \in 1..c |-> s[i]]
  BY <1>8
<1> HIDE DEF s
<1>11. \A i \in 1..c : s[i] \in S /\ rank[s[i]] = i - 1
  BY <1>5, <1>9
<1> HIDE DEF rank, Before
<1>12. s \in [1..c -> S]
  BY <1>10, <1>11
<1>13. \A x \in S : \E i \in 1..c : s[i] = x
  <2> TAKE x \in S
  <2>1. rank[x] + 1 \in 1..c /\ (rank[x] + 1) - 1 = rank[x]
    BY <1>1, <1>3
  <2>2. s[rank[x] + 1] \in S /\ rank[s[rank[x] + 1]] = rank[x]
    BY <1>11, <2>1
  <2> QED
    BY <1>4, <2>1, <2>2
<1>14. \A i, j \in 1..c : s[i] = s[j] => i = j
  <2> TAKE i, j \in 1..c
  <2>1. rank[s[i]] = i - 1 /\ rank[s[j]] = j - 1
    BY <1>11
  <2> QED
    BY <2>1
<1>15. \A i, j \in 1..c : i < j => <<s[i], s[j]>> \in R
  <2> SUFFICES ASSUME NEW i \in 1..c, NEW j \in 1..c, i < j PROVE <<s[i], s[j]>> \in R
    OBVIOUS
  <2>1. rank[s[i]] = i - 1 /\ rank[s[j]] = j - 1 /\ s[i] \in S /\ s[j] \in S
    BY <1>11
  <2>2. s[i] # s[j]
    BY <1>14
  <2>3. <<s[i], s[j]>> \in R \/ <<s[j], s[i]>> \in R
    BY <2>1, <2>2 DEF Linear
  <2>4. <<s[j], s[i]>> \in R => rank[s[j]] < rank[s[i]]
    BY <1>2, <2>1
  <2> QED
    BY <2>1, <2>3, <2>4
<1> QED
  BY <1>12, <1>13, <1>14, <1>15 DEF Enumerates, s

Ascending(S) == {e \in S \X S : e[1] < e[2]}

LEMMA AscendingIsLinear ==
    ASSUME NEW S, S \subseteq Int
    PROVE  Linear(Ascending(S), S)
<1>1. \A x, y \in S : <<x, y>> \in Ascending(S) <=> x < y
  BY DEF Ascending
<1>2. \A x, y \in S : x \in Int /\ y \in Int
  OBVIOUS
<1>3. \A x, y, z \in S : x < y /\ y < z => x < z
  OBVIOUS
<1>4. \A x, y \in S : ~ (x < x) /\ (x # y => x < y \/ y < x)
  OBVIOUS
<1> QED
  BY <1>1, <1>3, <1>4 DEF Linear

LEMMA SortedIs ==
    ASSUME NEW S, IsFiniteSet(S), S \subseteq Int
    PROVE  Enumerates(Sorted(S), S, Ascending(S))
<1>1. Sorted(S) = InOrder(S, Ascending(S))
  BY DEF Sorted, Ascending
<1> QED
  BY <1>1, AscendingIsLinear, InOrderIs

\* What a loop over it sees
LEMMA SortedHas ==
    ASSUME NEW S, IsFiniteSet(S), S \subseteq Int
    PROVE  /\ Cardinality(S) \in Nat
           /\ DOMAIN Sorted(S) = 1..Cardinality(S) /\ Sorted(S) \in Seq(S)
           /\ Len(Sorted(S)) = Cardinality(S)
           /\ ToSet(Sorted(S)) = S
           /\ \A i, j \in 1..Cardinality(S) : i < j => Sorted(S)[i] < Sorted(S)[j]
<1> DEFINE s == Sorted(S)
           c == Cardinality(S)
<1>1. Enumerates(s, S, Ascending(S))
  BY SortedIs
<1>2. c \in Nat
  BY FS_CardinalityType
<1> HIDE DEF s, c
<1>3. s \in [1..c -> S] /\ DOMAIN s = 1..c
  BY <1>1 DEF Enumerates, c
<1>4. s \in Seq(S) /\ Len(s) = c
  BY <1>2, <1>3
<1>5. ToSet(s) = S
  <2>1. \A x \in S : \E i \in DOMAIN s : s[i] = x
    BY <1>1, <1>3 DEF Enumerates, c
  <2>2. \A i \in DOMAIN s : s[i] \in S
    BY <1>3
  <2> QED
    BY <2>1, <2>2 DEF ToSet
<1>6. \A i, j \in 1..c : i < j => s[i] < s[j]
  BY <1>1, <1>3 DEF Enumerates, Ascending, c
<1> QED
  BY <1>2, <1>3, <1>4, <1>5, <1>6 DEF s, c

LEMMA MinIs ==
    ASSUME NEW S, IsFiniteSet(S), S \subseteq Int, S # {}
    PROVE  Min(S) \in S /\ \A y \in S : Min(S) <= y
<1> DEFINE s == Sorted(S)
<1>1. Cardinality(S) \in Nat /\ Cardinality(S) # 0
  BY FS_CardinalityType, FS_EmptySet
<1>2. 1 \in 1..Cardinality(S) /\ \A i \in 1..Cardinality(S) : i = 1 \/ 1 < i
  BY <1>1
<1>3. Enumerates(s, S, Ascending(S))
  BY SortedIs
<1> HIDE DEF s
<1>4. s[1] \in S /\ \A y \in S : y = s[1] \/ <<s[1], y>> \in Ascending(S)
  BY <1>2, <1>3 DEF Enumerates
<1>5. \A y \in S : s[1] <= y
  <2> TAKE y \in S
  <2>1. s[1] \in Int /\ y \in Int
    BY <1>4
  <2>2. y = s[1] \/ s[1] < y
    BY <1>4 DEF Ascending
  <2> QED
    BY <2>1, <2>2
<1> QED
  BY <1>4, <1>5 DEF Min

LEMMA MaxIs ==
    ASSUME NEW S, IsFiniteSet(S), S \subseteq Int, S # {}
    PROVE  Max(S) \in S /\ \A y \in S : Max(S) >= y
<1> DEFINE s == Sorted(S)
           c == Cardinality(S)
<1>1. c \in Nat /\ c # 0
  BY FS_CardinalityType, FS_EmptySet
<1>2. c \in 1..c /\ \A i \in 1..c : i = c \/ i < c
  BY <1>1
<1>3. Enumerates(s, S, Ascending(S))
  BY SortedIs
<1> HIDE DEF s
<1>4. s[c] \in S /\ \A y \in S : y = s[c] \/ <<y, s[c]>> \in Ascending(S)
  BY <1>2, <1>3 DEF Enumerates
<1>5. \A y \in S : s[c] >= y
  <2> TAKE y \in S
  <2>1. s[c] \in Int /\ y \in Int
    BY <1>4
  <2>2. y = s[c] \/ y < s[c]
    BY <1>4 DEF Ascending
  <2> QED
    BY <2>1, <2>2
<1> QED
  BY <1>4, <1>5 DEF Max

\* The first of those worth most is worth at least what any is, and more than those
\* before it.
LEMMA FirstGreatestIs ==
    ASSUME NEW D, IsFiniteSet(D), D \subseteq Int, D # {}, NEW worth \in [D -> Int]
    PROVE  /\ FirstGreatest(worth) \in D
           /\ \A j \in D : worth[FirstGreatest(worth)] >= worth[j]
           /\ \A j \in D : j < FirstGreatest(worth) => worth[FirstGreatest(worth)] > worth[j]
<1> DEFINE Ahead(i, j) == worth[i] > worth[j] \/ (worth[i] = worth[j] /\ i < j)
           R == {e \in D \X D : Ahead(e[1], e[2])}
           s == InOrder(D, R)
           c == Cardinality(D)
<1>1. \A x, y \in D : <<x, y>> \in R <=> Ahead(x, y)
  OBVIOUS
<1>2. \A i \in D : i \in Int /\ worth[i] \in Int
  OBVIOUS
<1> HIDE DEF R
<1>3. \A x, y, z \in D : Ahead(x, y) /\ Ahead(y, z) => Ahead(x, z)
  BY <1>2
<1>4. \A x, y \in D : ~ Ahead(x, x) /\ (x # y => Ahead(x, y) \/ Ahead(y, x))
  BY <1>2
<1>5. Linear(R, D)
  <2> HIDE DEF Ahead
  <2> QED
    BY <1>1, <1>3, <1>4 DEF Linear
<1>6. Enumerates(s, D, R)
  BY <1>5, InOrderIs
<1>7. c \in Nat /\ c # 0
  BY FS_CardinalityType, FS_EmptySet
<1>8. 1 \in 1..c /\ \A i \in 1..c : i = 1 \/ 1 < i
  BY <1>7
<1> HIDE DEF s
<1>9. s[1] \in D /\ \A y \in D : y = s[1] \/ Ahead(s[1], y)
  <2>1. s[1] \in D
    BY <1>6, <1>8 DEF Enumerates
  <2>2. \A y \in D : y = s[1] \/ <<s[1], y>> \in R
    BY <1>6, <1>8 DEF Enumerates
  <2> HIDE DEF Ahead
  <2> QED
    BY <1>1, <2>1, <2>2
<1> DEFINE First(i) == \A j \in D : worth[i] > worth[j] \/ (worth[i] = worth[j] /\ i <= j)
<1>10. First(s[1])
  <2> DEFINE a == s[1]
  <2>1. a \in D /\ \A y \in D : y = a \/ Ahead(a, y)
    BY <1>9
  <2> HIDE DEF a
  <2>2. First(a)
    BY <1>2, <2>1
  <2> QED
    BY <2>2 DEF a
<1>11. DOMAIN worth = D
  OBVIOUS
<1>12. FirstGreatest(worth) = CHOOSE i \in D : First(i)
  BY <1>11 DEF FirstGreatest
<1>13. FirstGreatest(worth) \in D /\ First(FirstGreatest(worth))
  <2> HIDE DEF First
  <2> QED
    BY <1>9, <1>10, <1>12
<1> DEFINE i == FirstGreatest(worth)
<1>14. i \in D /\ First(i)
  BY <1>13
<1> HIDE DEF i
<1>15. \A j \in D : worth[i] >= worth[j] /\ (j < i => worth[i] > worth[j])
  BY <1>2, <1>14
<1> QED
  BY <1>14, <1>15 DEF i

-----------------------------------------------------------------------------
(* The order of pools by price *)

LEMMA ScalesUp ==
    ASSUME NEW x \in Int, NEW y \in Int, NEW c \in Nat \ {0}
    PROVE  /\ x > y => x * c > y * c
           /\ x * c > y * c => x > y
           /\ x * c = y * c => x = y
<1>1. ASSUME NEW a \in Int, NEW b \in Int, a > b PROVE a * c > b * c
  <2>1. (a - b) * c > 0
    BY <1>1
  <2> QED
    BY <2>1
<1> QED
  BY <1>1

\* Fractions of positive numbers, compared crosswise
LEMMA RatiosAreOrdered ==
    ASSUME NEW ai \in Nat \ {0}, NEW ao \in Nat \ {0}, NEW bi \in Nat \ {0},
           NEW bo \in Nat \ {0}, NEW ci \in Nat \ {0}, NEW co \in Nat \ {0}
    PROVE  /\ ao * bi > bo * ai /\ bo * ci > co * bi => ao * ci > co * ai
           /\ ao * bi > bo * ai /\ bo * ci = co * bi => ao * ci > co * ai
           /\ ao * bi = bo * ai /\ bo * ci > co * bi => ao * ci > co * ai
           /\ ao * bi = bo * ai /\ bo * ci = co * bi => ao * ci = co * ai
<1> DEFINE L == ao * bi
           M == bo * ai
           N == bo * ci
           O == co * bi
<1>1. L \in Int /\ M \in Int /\ N \in Int /\ O \in Int
  OBVIOUS
<1>2. L * ci = (ao * ci) * bi /\ M * ci = N * ai /\ O * ai = (co * ai) * bi
  OBVIOUS
<1>3. (L > M => L * ci > M * ci) /\ (N > O => N * ai > O * ai)
  <2> HIDE DEF L, M, N, O
  <2> QED
    BY <1>1, ScalesUp
<1>4. (L = M => L * ci = M * ci) /\ (N = O => N * ai = O * ai)
  OBVIOUS
<1>5. ao * ci \in Int /\ co * ai \in Int
  OBVIOUS
<1>6. /\ (ao * ci) * bi > (co * ai) * bi => ao * ci > co * ai
      /\ (ao * ci) * bi = (co * ai) * bi => ao * ci = co * ai
  BY <1>5, ScalesUp
<1>7. L * ci \in Int /\ M * ci \in Int /\ O * ai \in Int
  BY <1>1
<1> DEFINE P == (ao * ci) * bi
           Q == M * ci
           U == (co * ai) * bi
<1>8. P \in Int /\ Q \in Int /\ U \in Int
  BY <1>2, <1>7
<1>9. /\ L > M => P > Q
      /\ L = M => P = Q
      /\ N > O => Q > U
      /\ N = O => Q = U
  BY <1>2, <1>3, <1>4
<1>10. (P > U => ao * ci > co * ai) /\ (P = U => ao * ci = co * ai)
  BY <1>6
<1> HIDE DEF P, Q, U
<1>11. /\ L > M /\ N > O => ao * ci > co * ai
       /\ L > M /\ N = O => ao * ci > co * ai
       /\ L = M /\ N > O => ao * ci > co * ai
       /\ L = M /\ N = O => ao * ci = co * ai
  <2> HIDE DEF L, M, N, O
  <2> QED
    BY <1>8, <1>9, <1>10
<1> QED
  BY <1>11

\* Pools of one pair have ids of their own.
Distinct(pools) ==
    /\ IsFiniteSet(pools) /\ pools \subseteq PoolRecords
    /\ \A p, q \in pools : p.id = q.id => p = q

LEMMA PoolTypes ==
    ASSUME NEW p \in PoolRecords
    PROVE  /\ p.id \in Nat /\ p.cap \in Nat /\ p.drift \in Nat
           /\ p.in \in Nat \ {0} /\ p.out \in Nat \ {0}
BY DEF PoolRecords

\* The order by price is a strict total order of pools with distinct ids
\* (compare_edge_refs_for_price).
LEMMA CheaperIsTransitive ==
    ASSUME NEW a \in PoolRecords, NEW b \in PoolRecords, NEW c \in PoolRecords,
           Cheaper(a, b), Cheaper(b, c)
    PROVE  Cheaper(a, c)
<1> DEFINE ai == a.in
           ao == a.out
           bi == b.in
           bo == b.out
           ci == c.in
           co == c.out
<1>1. /\ ao * bi > bo * ai /\ bo * ci > co * bi => ao * ci > co * ai
      /\ ao * bi > bo * ai /\ bo * ci = co * bi => ao * ci > co * ai
      /\ ao * bi = bo * ai /\ bo * ci > co * bi => ao * ci > co * ai
      /\ ao * bi = bo * ai /\ bo * ci = co * bi => ao * ci = co * ai
  <2>1. /\ ai \in Nat \ {0} /\ ao \in Nat \ {0}
        /\ bi \in Nat \ {0} /\ bo \in Nat \ {0}
        /\ ci \in Nat \ {0} /\ co \in Nat \ {0}
    BY PoolTypes
  <2> HIDE DEF ai, ao, bi, bo, ci, co
  <2> QED
    BY <2>1, RatiosAreOrdered
<1> DEFINE Tied(p, q) == p.cap > q.cap \/ (p.cap = q.cap /\ p.id < q.id)
<1>2. Tied(a, b) /\ Tied(b, c) => Tied(a, c)
  BY PoolTypes
<1>3. /\ a.out * b.in > b.out * a.in \/ (a.out * b.in = b.out * a.in /\ Tied(a, b))
      /\ b.out * c.in > c.out * b.in \/ (b.out * c.in = c.out * b.in /\ Tied(b, c))
  BY DEF Cheaper
<1>4. a.out * c.in > c.out * a.in \/ (a.out * c.in = c.out * a.in /\ Tied(a, c))
  <2> HIDE DEF Tied
  <2> QED
    BY <1>1, <1>2, <1>3, Zenon
<1> QED
  BY <1>4 DEF Cheaper

LEMMA CheaperIsTotal ==
    ASSUME NEW a \in PoolRecords, NEW b \in PoolRecords
    PROVE  /\ ~ Cheaper(a, a)
           /\ a.id # b.id => Cheaper(a, b) \/ Cheaper(b, a)
<1>1. a.out * b.in \in Int /\ b.out * a.in \in Int /\ a.out * a.in \in Int
  BY PoolTypes
<1>2. a.out * b.in > b.out * a.in \/ b.out * a.in > a.out * b.in \/ a.out * b.in = b.out * a.in
  BY <1>1
<1>3. ~ (a.out * a.in > a.out * a.in)
  BY <1>1
<1>4. ~ (a.cap > a.cap) /\ ~ (a.id < a.id)
  BY PoolTypes
<1>5. a.id # b.id => \/ a.cap > b.cap \/ (a.cap = b.cap /\ a.id < b.id)
                     \/ b.cap > a.cap \/ (b.cap = a.cap /\ b.id < a.id)
  BY PoolTypes
<1> QED
  BY <1>2, <1>3, <1>4, <1>5, Zenon DEF Cheaper

\* Sorting by price loses no pool and repeats none.
LEMMA ByPriceIs ==
    ASSUME NEW pools, Distinct(pools)
    PROVE  \E R : Enumerates(ByPrice(pools), pools, R)
<1> DEFINE R == {e \in pools \X pools : Cheaper(e[1], e[2])}
<1>1. \A a, b \in pools : <<a, b>> \in R <=> Cheaper(a, b)
  OBVIOUS
<1>2. IsFiniteSet(pools) /\ \A a \in pools : a \in PoolRecords
  BY DEF Distinct
<1>3. \A a, b \in pools : a # b => a.id # b.id
  BY DEF Distinct
<1> HIDE DEF R
<1>4. \A a, b, c \in pools : Cheaper(a, b) /\ Cheaper(b, c) => Cheaper(a, c)
  BY <1>2, CheaperIsTransitive
<1>5. \A a, b \in pools : ~ Cheaper(a, a) /\ (a # b => Cheaper(a, b) \/ Cheaper(b, a))
  BY <1>2, <1>3, CheaperIsTotal
<1>6. Linear(R, pools)
  BY <1>1, <1>4, <1>5, Zenon DEF Linear
<1>7. ByPrice(pools) = InOrder(pools, R)
  BY DEF ByPrice, R
<1> QED
  BY <1>2, <1>6, <1>7, InOrderIs

\* The same of sorting by capacity (compare_edge_refs_for_capacity)
LEMMA ByRoomIs ==
    ASSUME NEW pools, Distinct(pools), NEW x
    PROVE  \E R : Enumerates(InOrder(pools, {e \in pools \X pools : Roomier(e[1], e[2], x)}),
                             pools, R)
<1> DEFINE R == {e \in pools \X pools : Roomier(e[1], e[2], x)}
<1>1. \A a, b \in pools : <<a, b>> \in R <=> Roomier(a, b, x)
  OBVIOUS
<1>2. IsFiniteSet(pools) /\ \A a \in pools : a \in PoolRecords /\ a.cap \in Nat
  BY PoolTypes DEF Distinct
<1>3. \A a, b \in pools : a # b => a.id # b.id
  BY DEF Distinct
<1> HIDE DEF R
<1>4. \A a, b, c \in pools : Cheaper(a, b) /\ Cheaper(b, c) => Cheaper(a, c)
  BY <1>2, CheaperIsTransitive
<1>5. \A a, b \in pools : ~ Cheaper(a, a) /\ (a # b => Cheaper(a, b) \/ Cheaper(b, a))
  BY <1>2, <1>3, CheaperIsTotal
<1>6. \A a \in pools : Fits(a, x) \in BOOLEAN
  BY DEF Fits
<1>7. \A a, b, c \in pools : Roomier(a, b, x) /\ Roomier(b, c, x) => Roomier(a, c, x)
  <2> TAKE a, b, c \in pools
  <2>1. /\ a.cap > b.cap /\ b.cap > c.cap => a.cap > c.cap
        /\ a.cap > b.cap /\ b.cap = c.cap => a.cap > c.cap
        /\ a.cap = b.cap /\ b.cap > c.cap => a.cap > c.cap
        /\ a.cap = b.cap /\ b.cap = c.cap => a.cap = c.cap
    BY <1>2
  <2>2. Cheaper(a, b) /\ Cheaper(b, c) => Cheaper(a, c)
    BY <1>4
  <2> QED
    BY <2>1, <2>2, <1>6, Zenon DEF Roomier
<1>8. \A a, b \in pools : /\ ~ Roomier(a, a, x)
                          /\ a # b => Roomier(a, b, x) \/ Roomier(b, a, x)
  <2> TAKE a, b \in pools
  <2>1. (a.cap > b.cap \/ b.cap > a.cap \/ a.cap = b.cap) /\ ~ (a.cap > a.cap)
    BY <1>2
  <2>2. ~ Cheaper(a, a) /\ (a # b => Cheaper(a, b) \/ Cheaper(b, a))
    BY <1>5
  <2> QED
    BY <2>1, <2>2, <1>6, Zenon DEF Roomier
<1>9. Linear(R, pools)
  BY <1>1, <1>7, <1>8, Zenon DEF Linear
<1> QED
  BY <1>2, <1>9, InOrderIs DEF R

-----------------------------------------------------------------------------
(* One hop *)

LEMMA PaidIsNat ==
    ASSUME NEW p \in PoolRecords, NEW x \in Nat
    PROVE  Paid(p, x) \in Nat
<1>1. p.out \in Nat /\ p.in + x \in Nat \ {0}
  BY PoolTypes
<1> QED
  BY <1>1, ShareIsNat DEF Paid

LEMMA QuoteIsNat ==
    ASSUME NEW p \in PoolRecords, NEW x \in Nat, NEW source
    PROVE  QuotePool(p, x, source) \in Nat
<1>1. Paid(p, x) \in Nat /\ p.drift \in Nat
  BY PaidIsNat, PoolTypes
<1> QED
  BY <1>1 DEF QuotePool, Most

LEMMA FirstOfIs ==
    ASSUME NEW n \in Int, NEW s, Len(s) \in Nat
    PROVE  /\ FirstOf(n, s) = [i \in 1..Least(n, Len(s)) |-> s[i]]
           /\ Least(n, Len(s)) \in Int /\ Least(n, Len(s)) <= n /\ Least(n, Len(s)) <= Len(s)
           /\ Least(n, Len(s)) = n \/ Least(n, Len(s)) = Len(s)
BY DEF FirstOf, Least

\* Pools in a sequence of n, none of them twice
Edges(edges, n, pools) ==
    /\ n \in Nat /\ edges \in [1..n -> pools] /\ Len(edges) = n
    /\ \A i, j \in 1..n : edges[i].id = edges[j].id => i = j

LEMMA LenIs ==
    ASSUME NEW n \in Nat, NEW S, NEW s \in [1..n -> S]
    PROVE  Len(s) = n /\ s \in Seq(S) /\ DOMAIN s = 1..n
OBVIOUS

LEMMA EnumeratedEdges ==
    ASSUME NEW pools, Distinct(pools), NEW R, NEW s, Enumerates(s, pools, R)
    PROVE  Edges(s, Cardinality(pools), pools)
<1> DEFINE c == Cardinality(pools)
<1>1. c \in Nat
  BY FS_CardinalityType DEF Distinct
<1>2. s \in [1..c -> pools] /\ \A i, j \in 1..c : s[i] = s[j] => i = j
  BY DEF Enumerates
<1> HIDE DEF c
<1>3. Len(s) = c
  BY <1>1, <1>2, LenIs
<1>4. \A i, j \in 1..c : s[i].id = s[j].id => i = j
  BY <1>2 DEF Distinct
<1> QED
  BY <1>1, <1>2, <1>3, <1>4 DEF Edges, c

LEMMA ToSetOfFirst ==
    ASSUME NEW n \in Int, NEW pools, NEW m, NEW s, Edges(s, m, pools)
    PROVE  ToSet(FirstOf(n, s)) \subseteq pools
<1> DEFINE k == Least(n, m)
<1>1. FirstOf(n, s) = [i \in 1..k |-> s[i]] /\ k \in Int /\ k <= m
  BY FirstOfIs DEF Edges
<1> HIDE DEF k
<1>2. \A i \in 1..k : i \in 1..m
  BY <1>1 DEF Edges
<1>3. \A i \in 1..k : s[i] \in pools
  BY <1>2 DEF Edges
<1> QED
  BY <1>1, <1>3 DEF ToSet

LEMMA SubsetIsDistinct ==
    ASSUME NEW pools, Distinct(pools), NEW S \in SUBSET pools
    PROVE  Distinct(S)
<1>1. IsFiniteSet(S)
  BY FS_Subset DEF Distinct
<1> QED
  BY <1>1 DEF Distinct

\* The pools a hop is shared over are pools of its pair, none of them twice
\* (ranked_pair_edges).
LEMMA RankedEdgesAre ==
    ASSUME NEW pools, Distinct(pools), NEW x
    PROVE  \E n : Edges(RankedEdges(pools, x), n, pools)
<1> DEFINE priced == ToSet(FirstOf((EdgeLimit + 1) \div 2, ByPrice(pools)))
           others == pools \ priced
           roomy == InOrder(others, {e \in others \X others : Roomier(e[1], e[2], x)})
           kept == priced \cup ToSet(FirstOf(EdgeLimit - Cardinality(priced), roomy))
<1>1. EdgeLimit \in Nat /\ (EdgeLimit + 1) \div 2 \in Int
  BY PlanAssumption
<1>2. priced \in SUBSET pools
  <2>1. Edges(ByPrice(pools), Cardinality(pools), pools)
    BY ByPriceIs, EnumeratedEdges
  <2> QED
    BY <1>1, <2>1, ToSetOfFirst
<1>3. Cardinality(priced) \in Nat /\ Distinct(others)
  <2>1. IsFiniteSet(priced)
    BY <1>2, SubsetIsDistinct DEF Distinct
  <2>2. others \in SUBSET pools
    OBVIOUS
  <2> HIDE DEF priced, others
  <2> QED
    BY <2>1, <2>2, FS_CardinalityType, SubsetIsDistinct
<1> HIDE DEF priced, others
<1>4. kept \in SUBSET pools
  <2>1. Edges(roomy, Cardinality(others), others)
    <3>1. PICK R : Enumerates(roomy, others, R)
      BY <1>3, ByRoomIs
    <3> HIDE DEF roomy
    <3> QED
      BY <1>3, <3>1, EnumeratedEdges
  <2>2. EdgeLimit - Cardinality(priced) \in Int
    BY <1>1, <1>3
  <2> HIDE DEF roomy
  <2>3. ToSet(FirstOf(EdgeLimit - Cardinality(priced), roomy)) \subseteq others
    BY <2>1, <2>2, ToSetOfFirst
  <2> QED
    BY <1>2, <2>3 DEF others
<1>5. RankedEdges(pools, x) = ByPrice(kept)
  BY DEF RankedEdges, priced, others
<1> HIDE DEF kept
<1>6. Distinct(kept)
  BY <1>4, SubsetIsDistinct
<1>7. Edges(ByPrice(kept), Cardinality(kept), kept)
  BY <1>6, ByPriceIs, EnumeratedEdges
<1> QED
  BY <1>4, <1>5, <1>7 DEF Edges

SplitRecords == [pool: PoolRecords, in: Nat, out: Nat]
HopRecords == [splits: Seq(SplitRecords), out: Nat]

\* Each split of a hop is one of the allocations, and none of them is twice there.
Splitting(h, edges, alloc, n, m, o) ==
    /\ Picks(o, m, n) /\ DOMAIN h.splits = 1..m /\ Len(h.splits) = m
    /\ \A k \in 1..m : /\ h.splits[k].pool = edges[o[k]] /\ h.splits[k].in = alloc[o[k]]
                       /\ alloc[o[k]] > 0

\* The splits are the allocations that pay, in another order.
LEMMA MaterializedIs ==
    ASSUME NEW pools, pools \subseteq PoolRecords, NEW edges, NEW n, Edges(edges, n, pools),
           NEW alloc \in [1..n -> Nat], NEW source
    PROVE  /\ Materialized(edges, alloc, source) \in HopRecords
           /\ \E m, o : Splitting(Materialized(edges, alloc, source), edges, alloc, n, m, o)
<1> DEFINE out(i) == QuotePool(edges[i], alloc[i], source)
           paying == {i \in DOMAIN edges : alloc[i] > 0 /\ out(i) > 0}
           before(i, j) == out(i) > out(j) \/ (out(i) = out(j) /\ edges[i].id < edges[j].id)
           R == {e \in paying \X paying : before(e[1], e[2])}
           o == InOrder(paying, R)
           m == Cardinality(paying)
           splits == [k \in DOMAIN o |-> [pool |-> edges[o[k]], in |-> alloc[o[k]], out |-> out(o[k])]]
           h == [splits |-> splits, out |-> Total([k \in DOMAIN o |-> out(o[k])])]
<1>1. n \in Nat /\ DOMAIN edges = 1..n /\ \A i \in 1..n : edges[i] \in PoolRecords
  BY DEF Edges
<1>2. \A i \in 1..n : out(i) \in Nat /\ edges[i].id \in Nat
  BY <1>1, QuoteIsNat, PoolTypes
<1> HIDE DEF out
<1>3. paying \in SUBSET (1..n)
  BY <1>1
<1>4. IsFiniteSet(paying)
  <2>1. IsFiniteSet(1..n)
    BY <1>1, FS_Interval
  <2> HIDE DEF paying
  <2> QED
    BY <1>3, <2>1, FS_Subset
<1>5. \A i \in paying : alloc[i] > 0
  OBVIOUS
<1>6. \A x, y \in paying : <<x, y>> \in R <=> before(x, y)
  OBVIOUS
<1> HIDE DEF paying, R
<1>7. \A x, y \in paying : x # y => edges[x].id # edges[y].id
  BY <1>3 DEF Edges
<1>8. \A x, y, z \in paying : before(x, y) /\ before(y, z) => before(x, z)
  <2> TAKE x, y, z \in paying
  <2>1. /\ out(x) \in Nat /\ out(y) \in Nat /\ out(z) \in Nat
        /\ edges[x].id \in Nat /\ edges[y].id \in Nat /\ edges[z].id \in Nat
    BY <1>2, <1>3
  <2> QED
    BY <2>1
<1>9. \A x, y \in paying : ~ before(x, x) /\ (x # y => before(x, y) \/ before(y, x))
  BY <1>2, <1>3, <1>7
<1> HIDE DEF before
<1>10. Linear(R, paying)
  BY <1>6, <1>8, <1>9, Zenon DEF Linear
<1>11. Enumerates(o, paying, R) /\ m \in Nat
  BY <1>4, <1>10, InOrderIs, FS_CardinalityType
<1> HIDE DEF o, m
<1>12. o \in [1..m -> paying] /\ \A i, j \in 1..m : o[i] = o[j] => i = j
  BY <1>11 DEF Enumerates, m
<1>13. DOMAIN o = 1..m /\ \A k \in 1..m : o[k] \in paying /\ o[k] \in 1..n
  BY <1>3, <1>12
<1>14. Picks(o, m, n)
  <2>1. o \in [1..m -> 1..n]
    BY <1>12, <1>13
  <2> QED
    BY <1>11, <1>12, <2>1 DEF Picks
<1>15. \A k \in 1..m : /\ splits[k].pool = edges[o[k]] /\ splits[k].in = alloc[o[k]]
                       /\ alloc[o[k]] > 0 /\ splits[k] \in SplitRecords
  <2> TAKE k \in 1..m
  <2>1. splits[k] = [pool |-> edges[o[k]], in |-> alloc[o[k]], out |-> out(o[k])]
    BY <1>13
  <2>2. edges[o[k]] \in PoolRecords /\ alloc[o[k]] \in Nat /\ out(o[k]) \in Nat /\ alloc[o[k]] > 0
    BY <1>1, <1>2, <1>5, <1>13
  <2> QED
    BY <2>1, <2>2 DEF SplitRecords
<1>16. DOMAIN splits = 1..m
  BY <1>13
<1>17. splits = [k \in 1..m |-> splits[k]]
  BY <1>13
<1> DEFINE outs == [k \in DOMAIN o |-> out(o[k])]
<1>18. outs \in [1..m -> Nat]
  BY <1>2, <1>13
<1> HIDE DEF splits, outs
<1>19. splits \in [1..m -> SplitRecords]
  BY <1>15, <1>17
<1>20. splits \in Seq(SplitRecords) /\ Len(splits) = m
  BY <1>11, <1>19, LenIs
<1>21. Total(outs) \in Nat
  BY <1>11, <1>18, TotalIsNat
<1>22. Materialized(edges, alloc, source) = [splits |-> splits, out |-> Total(outs)]
  BY DEF Materialized, splits, outs, o, R, paying, out, before
<1> DEFINE g == [splits |-> splits, out |-> Total(outs)]
<1>23. g \in HopRecords
  BY <1>20, <1>21 DEF HopRecords
<1>24. Splitting(g, edges, alloc, n, m, o)
  BY <1>14, <1>15, <1>16, <1>20 DEF Splitting
<1> HIDE DEF g
<1> QED
  BY <1>22, <1>23, <1>24 DEF g

\* What the pools of a hop can take, of x
FitsHop(h, x) ==
    /\ \A j \in DOMAIN h.splits : WithinCap(h.splits[j].pool, h.splits[j].in)
    /\ Len(h.splits) <= MaxParallel
    /\ Total([j \in DOMAIN h.splits |-> h.splits[j].in]) <= x

\* An allocation of x to as many pools as may share it
Allocates(alloc, edges, n, x) ==
    /\ alloc \in [1..n -> Nat]
    /\ \A i \in 1..n : alloc[i] > 0 => WithinCap(edges[i], alloc[i])
    /\ Cardinality({i \in 1..n : alloc[i] > 0}) <= MaxParallel
    /\ Total(alloc) <= x

\* A hop made of an allocation is within what its pools can take.
LEMMA MaterializedFits ==
    ASSUME NEW pools, pools \subseteq PoolRecords, NEW edges, NEW n, Edges(edges, n, pools),
           NEW x \in Nat, NEW alloc, Allocates(alloc, edges, n, x), NEW source
    PROVE  FitsHop(Materialized(edges, alloc, source), x)
<1> DEFINE h == Materialized(edges, alloc, source)
           active == {i \in 1..n : alloc[i] > 0}
<1>1. n \in Nat /\ alloc \in [1..n -> Nat]
  BY DEF Edges, Allocates
<1>2. PICK m, o : Splitting(h, edges, alloc, n, m, o)
  BY <1>1, MaterializedIs
<1> HIDE DEF h
<1>3. m \in Nat /\ o \in [1..m -> 1..n] /\ \A i, j \in 1..m : o[i] = o[j] => i = j
  BY <1>2 DEF Splitting, Picks
<1>4. \A k \in 1..m : o[k] \in active
  BY <1>2, <1>3 DEF Splitting
<1>5. IsFiniteSet(active) /\ Cardinality(active) \in Nat
  <2>1. active \in SUBSET (1..n) /\ IsFiniteSet(1..n)
    BY <1>1, FS_Interval
  <2> HIDE DEF active
  <2> QED
    BY <2>1, FS_Subset, FS_CardinalityType
<1>6. m <= Cardinality(active)
  <2> HIDE DEF active
  <2>1. o \in Injection(1..m, active)
    BY <1>3, <1>4 DEF Injection, IsInjective
  <2>2. Cardinality(1..m) <= Cardinality(active)
    BY <1>5, <2>1, FS_Injection
  <2>3. Cardinality(1..m) = m
    BY <1>3, FS_Interval
  <2> QED
    BY <2>2, <2>3
<1>7. Cardinality(active) <= MaxParallel
  BY DEF Allocates
<1>8. MaxParallel \in Nat
  BY PlanAssumption
<1>9. Len(h.splits) <= MaxParallel
  <2> HIDE DEF active
  <2> QED
    BY <1>2, <1>3, <1>5, <1>6, <1>7, <1>8 DEF Splitting
<1>10. \A j \in DOMAIN h.splits : WithinCap(h.splits[j].pool, h.splits[j].in)
  BY <1>2, <1>3 DEF Splitting, Allocates
<1>11. [j \in DOMAIN h.splits |-> h.splits[j].in] = [k \in 1..m |-> alloc[o[k]]]
  BY <1>2 DEF Splitting
<1>12. Total([k \in 1..m |-> alloc[o[k]]]) <= Total(alloc)
  BY <1>1, <1>2, PartOfTotal DEF Splitting
<1>13. Total(alloc) \in Nat /\ Total(alloc) <= x
  BY <1>1, TotalIsNat DEF Allocates
<1> DEFINE s == [k \in 1..m |-> alloc[o[k]]]
<1>14. Total(s) \in Nat /\ Total(s) <= Total(alloc)
  <2>1. s \in [1..m -> Nat]
    BY <1>1, <1>3
  <2>2. Total(s) <= Total(alloc)
    BY <1>12
  <2> HIDE DEF s
  <2> QED
    BY <1>3, <2>1, <2>2, TotalIsNat
<1>15. Total([j \in DOMAIN h.splits |-> h.splits[j].in]) = Total(s)
  BY <1>11
<1> HIDE DEF s
<1>16. Total([j \in DOMAIN h.splits |-> h.splits[j].in]) <= x
  BY <1>13, <1>14, <1>15
<1> QED
  BY <1>9, <1>10, <1>16 DEF FitsHop, h

LEMMA NoHopFits ==
    ASSUME NEW x \in Nat
    PROVE  NoHop \in HopRecords /\ FitsHop(NoHop, x)
<1> DEFINE s == [j \in DOMAIN NoHop.splits |-> NoHop.splits[j].in]
<1>1. NoHop.splits = <<>> /\ DOMAIN NoHop.splits = 1..0 /\ Len(NoHop.splits) = 0
  BY DEF NoHop
<1>2. s \in [1..0 -> Nat] /\ \A i \in 1..0 : s[i] = 0
  BY <1>1
<1> HIDE DEF s
<1>3. Total(s) = 0
  BY <1>2, TotalOfNothing
<1>4. NoHop \in HopRecords
  BY DEF NoHop, HopRecords
<1>5. 0 <= MaxParallel
  BY PlanAssumption
<1>6. \A j \in DOMAIN NoHop.splits : WithinCap(NoHop.splits[j].pool, NoHop.splits[j].in)
  BY <1>1
<1> QED
  BY <1>1, <1>3, <1>4, <1>5, <1>6 DEF FitsHop, s

LEMMA OneEdge ==
    ASSUME NEW pools, pools \subseteq PoolRecords, NEW p \in pools, NEW x \in Nat, NEW source
    PROVE  /\ Materialized(<<p>>, <<x>>, source) \in HopRecords
           /\ WithinCap(p, x) => FitsHop(Materialized(<<p>>, <<x>>, source), x)
<1> DEFINE edges == <<p>>
           alloc == <<x>>
<1>1. Edges(edges, 1, pools)
  BY DEF Edges
<1>2. alloc \in [1..1 -> Nat] /\ alloc[1] = x /\ edges[1] = p
  OBVIOUS
<1> HIDE DEF alloc, edges
<1>3. Total(alloc) = x
  <2>1. PICK g : Sums(alloc, 1, g) /\ Total(alloc) = g[1]
    BY <1>2, SumsExist
  <2>2. 1 \in 1..1 /\ 1 - 1 = 0
    OBVIOUS
  <2>3. g[1] = g[0] + alloc[1] /\ g[0] = 0
    BY <2>1, <2>2 DEF Sums
  <2> QED
    BY <1>2, <2>1, <2>3
<1>4. Cardinality({i \in 1..1 : alloc[i] > 0}) <= MaxParallel
  <2> DEFINE active == {i \in 1..1 : alloc[i] > 0}
  <2>1. active \in SUBSET {1}
    OBVIOUS
  <2> HIDE DEF active
  <2>2. Cardinality(active) <= 1 /\ Cardinality(active) \in Nat
    <3>1. IsFiniteSet({1}) /\ Cardinality({1}) = 1
      BY FS_Singleton
    <3> QED
      BY <2>1, <3>1, FS_Subset, FS_CardinalityType
  <2>3. MaxParallel \in Nat \ {0}
    BY PlanAssumption
  <2>4. Cardinality(active) <= MaxParallel
    BY <2>2, <2>3
  <2> QED
    BY <2>4 DEF active
<1>5. WithinCap(p, x) => Allocates(alloc, edges, 1, x)
  <2> SUFFICES ASSUME WithinCap(p, x) PROVE Allocates(alloc, edges, 1, x)
    OBVIOUS
  <2>1. \A i \in 1..1 : i = 1
    OBVIOUS
  <2>2. \A i \in 1..1 : WithinCap(edges[i], alloc[i])
    BY <1>2, <2>1
  <2> QED
    BY <1>2, <1>3, <1>4, <2>2 DEF Allocates
<1>6. Materialized(edges, alloc, source) \in HopRecords
  BY <1>1, <1>2, MaterializedIs
<1>7. WithinCap(p, x) => FitsHop(Materialized(edges, alloc, source), x)
  BY <1>1, <1>5, MaterializedFits
<1> QED
  BY <1>6, <1>7 DEF edges, alloc

\* So is the hop of one pool (single_best),
LEMMA SingleBestFits ==
    ASSUME NEW pools, pools \subseteq PoolRecords, NEW edges, NEW n, Edges(edges, n, pools),
           NEW x \in Nat, NEW source
    PROVE  SingleBest(edges, x, source) \in HopRecords /\ FitsHop(SingleBest(edges, x, source), x)
<1> DEFINE paying == {i \in DOMAIN edges : /\ WithinCap(edges[i], x)
                                           /\ QuotePool(edges[i], x, source) > 0}
           worth == [i \in paying |-> QuotePool(edges[i], x, source)]
           top == FirstGreatest(worth)
<1>1. n \in Nat /\ DOMAIN edges = 1..n /\ \A i \in 1..n : edges[i] \in pools
  BY DEF Edges
<1>2. paying \in SUBSET (1..n) /\ \A i \in paying : WithinCap(edges[i], x)
  BY <1>1
<1>3. \A i \in paying : QuotePool(edges[i], x, source) \in Int
  BY <1>1, QuoteIsNat
<1>4. IsFiniteSet(paying)
  <2>1. IsFiniteSet(1..n)
    BY <1>1, FS_Interval
  <2> HIDE DEF paying
  <2> QED
    BY <1>2, <2>1, FS_Subset
<1>5. SingleBest(edges, x, source) =
        IF paying = {} THEN NoHop ELSE Materialized(<<edges[top]>>, <<x>>, source)
  BY DEF SingleBest
<1>6. CASE paying = {}
  BY <1>5, <1>6, NoHopFits
<1>7. CASE paying # {}
  <2> HIDE DEF paying
  <2>1. worth \in [paying -> Int]
    BY <1>3
  <2> HIDE DEF worth
  <2>2. top \in paying
    <3>1. paying \subseteq Int
      BY <1>1, <1>2
    <3> QED
      BY <1>4, <1>7, <2>1, <3>1, FirstGreatestIs
  <2> HIDE DEF top
  <2>3. edges[top] \in pools /\ WithinCap(edges[top], x)
    BY <1>1, <1>2, <2>2
  <2> QED
    BY <1>5, <1>7, <2>3, OneEdge
<1> QED
  BY <1>6, <1>7

-----------------------------------------------------------------------------
(* The closed form *)

LEMMA SharesAre ==
    ASSUME NEW n \in Nat \ {0}, NEW x \in Nat, NEW a \in Shares(n, x)
    PROVE  a \in [1..n -> Nat] /\ Total(a) = x
<1>1. PICK s \in [1..(n - 1) -> 0..x] : Total(s) <= x /\ a = Append(s, x - Total(s))
  BY DEF Shares
<1>2. n - 1 \in Nat /\ s \in [1..(n - 1) -> Nat]
  BY <1>1
<1>3. Total(s) \in Nat
  BY <1>2, TotalIsNat
<1>4. x - Total(s) \in Nat
  BY <1>1, <1>3
<1>5. Total(a) = Total(s) + (x - Total(s))
  BY <1>1, <1>2, <1>4, TotalOfMore
<1>6. a \in [1..n -> Nat]
  <2>1. s \in Seq(Nat) /\ Len(s) = n - 1
    BY <1>2, LenIs
  <2>2. a \in Seq(Nat) /\ Len(a) = n
    BY <1>1, <1>4, <2>1
  <2> QED
    BY <2>2
<1> QED
  BY <1>3, <1>5, <1>6

\* The shares of the closed form are an allocation.
LEMMA V2SharesAllocate ==
    ASSUME NEW pools, pools \subseteq PoolRecords, NEW edges, NEW n \in 1..MaxParallel,
           Edges(edges, n, pools), NEW x \in Nat, NEW a \in V2Shares(edges, x)
    PROVE  Allocates(a, edges, n, x)
<1>1. n \in Nat \ {0} /\ MaxParallel \in Nat /\ Len(edges) = n /\ DOMAIN edges = 1..n
  BY PlanAssumption DEF Edges
<1>2. a \in Shares(n, x) /\ \A i \in 1..n : WithinCap(edges[i], a[i])
  BY <1>1 DEF V2Shares
<1>3. a \in [1..n -> Nat] /\ Total(a) = x
  BY <1>1, <1>2, SharesAre
<1>4. Cardinality({i \in 1..n : a[i] > 0}) <= MaxParallel
  <2> DEFINE active == {i \in 1..n : a[i] > 0}
  <2>1. active \in SUBSET (1..n) /\ IsFiniteSet(1..n) /\ Cardinality(1..n) = n
    BY <1>1, FS_Interval
  <2> HIDE DEF active
  <2>2. Cardinality(active) <= n /\ Cardinality(active) \in Nat
    BY <2>1, FS_Subset, FS_CardinalityType
  <2>3. Cardinality(active) <= MaxParallel
    BY <1>1, <2>2
  <2> QED
    BY <2>3 DEF active
<1>5. Total(a) <= x
  BY <1>3
<1> QED
  BY <1>2, <1>3, <1>4, <1>5 DEF Allocates

LEMMA PaidIsLess ==
    ASSUME NEW p \in PoolRecords, NEW x \in Nat
    PROVE  Paid(p, x) <= p.out
<1> DEFINE a == p.out
           b == p.in + x
<1>1. a \in Nat /\ b \in Nat \ {0} /\ x <= b
  BY PoolTypes
<1> HIDE DEF a, b
<1>2. a * x <= a * b
  <2>1. a * (b - x) >= 0
    BY <1>1
  <2> QED
    BY <1>1, <2>1
<1>3. a * x \in Nat /\ a * b \in Nat
  BY <1>1
<1> DEFINE c == a * x
           q == c \div b
<1>4. c \in Nat /\ c <= a * b
  BY <1>2, <1>3
<1> HIDE DEF c
<1>5. q \in Nat /\ q * b <= c
  BY <1>1, <1>4
<1>6. q <= a
  <2> SUFFICES ASSUME q > a PROVE FALSE
    BY <1>1, <1>5
  <2> HIDE DEF q
  <2>1. q * b > a * b
    BY <1>1, <1>5, ScalesUp
  <2> QED
    BY <1>1, <1>3, <1>4, <1>5, <2>1
<1> QED
  BY <1>6 DEF Paid, a, b, c

\* The allocation it chooses is one of them.
LEMMA V2AllocationIs ==
    ASSUME NEW pools, pools \subseteq PoolRecords, NEW edges, NEW n \in 1..MaxParallel,
           Edges(edges, n, pools), NEW x \in Nat, V2Shares(edges, x) # {}
    PROVE  V2Allocation(edges, x) \in V2Shares(edges, x)
<1> DEFINE paid(a) == Total([i \in DOMAIN edges |-> Paid(edges[i], a[i])])
           shares == V2Shares(edges, x)
           sums == {paid(a) : a \in shares}
           outs == [i \in 1..n |-> edges[i].out]
<1>1. n \in Nat /\ DOMAIN edges = 1..n /\ \A i \in 1..n : edges[i] \in PoolRecords
  BY PlanAssumption DEF Edges
<1>2. outs \in [1..n -> Nat]
  BY <1>1, PoolTypes
<1> HIDE DEF outs
<1>3. Total(outs) \in Nat
  BY <1>1, <1>2, TotalIsNat
<1>4. ASSUME NEW a \in shares PROVE paid(a) \in Nat /\ paid(a) <= Total(outs)
  <2> DEFINE s == [i \in DOMAIN edges |-> Paid(edges[i], a[i])]
  <2>1. a \in [1..n -> Nat]
    BY <1>4, V2SharesAllocate DEF Allocates
  <2>2. \A i \in 1..n : Paid(edges[i], a[i]) \in Nat /\ Paid(edges[i], a[i]) <= edges[i].out
    BY <1>1, <2>1, PaidIsNat, PaidIsLess
  <2>3. s \in [1..n -> Nat] /\ \A i \in 1..n : s[i] <= outs[i]
    BY <1>1, <2>2 DEF outs
  <2> HIDE DEF s
  <2>4. Total(s) \in Nat /\ Total(s) <= Total(outs)
    BY <1>1, <1>2, <2>3, TotalIsNat, TotalGrows
  <2> QED
    BY <2>4 DEF s
<1> HIDE DEF paid, shares
<1>5. sums \in SUBSET Nat /\ \A y \in sums : y <= Total(outs)
  BY <1>4
<1>6. sums # {}
  BY DEF shares
<1>7. \A y \in sums : \E a \in shares : paid(a) = y
  OBVIOUS
<1> HIDE DEF sums
<1>8. Max(sums) \in sums
  <2>1. IsFiniteSet(sums)
    BY <1>3, <1>5, FS_BoundedSetOfNaturals
  <2>2. sums \subseteq Int
    BY <1>5
  <2> QED
    BY <1>6, <2>1, <2>2, MaxIs
<1>9. V2Allocation(edges, x) = CHOOSE a \in shares : paid(a) = Max(sums)
  BY DEF V2Allocation, shares, paid, sums
<1>10. PICK a \in shares : paid(a) = Max(sums)
  BY <1>7, <1>8
<1>11. V2Allocation(edges, x) \in shares
  BY <1>9, <1>10
<1> QED
  BY <1>11 DEF shares

-----------------------------------------------------------------------------
(* The slices *)

\* A slice is given to a pool that can take it on top of what it has: the allocation
\* remains one.
LEMMA NextSliceAllocates ==
    ASSUME NEW pools, pools \subseteq PoolRecords, NEW edges, NEW n, Edges(edges, n, pools),
           NEW x \in Nat, NEW alloc, Allocates(alloc, edges, n, x), NEW source
    PROVE  Allocates(NextSlice(edges, alloc, x, source), edges, n, x)
<1> DEFINE slice == Least(x - Total(alloc), Most(1, x \div Slices))
           takers == Takers(edges, alloc, slice)
           gain == [i \in takers |-> Gain(edges, alloc, i, slice, source)]
           w == FirstGreatest(gain)
           next == [alloc EXCEPT ![w] = @ + slice]
           active == {i \in 1..n : alloc[i] > 0}
<1>1. n \in Nat /\ DOMAIN edges = 1..n /\ \A i \in 1..n : edges[i] \in PoolRecords
  BY DEF Edges
<1>2. alloc \in [1..n -> Nat] /\ Total(alloc) \in Nat /\ Total(alloc) <= x
  BY <1>1, TotalIsNat DEF Allocates
<1>3. slice \in Nat /\ slice <= x - Total(alloc)
  <2>1. Slices \in Nat \ {0}
    BY PlanAssumption
  <2>2. x \div Slices \in Nat
    BY <2>1
  <2> QED
    BY <1>2, <2>2 DEF Least, Most
<1>4. NextSlice(edges, alloc, x, source) =
        IF slice = 0 \/ takers = {} THEN alloc ELSE IF gain[w] = 0 THEN alloc ELSE next
  BY DEF NextSlice
<1> HIDE DEF slice
<1>5. takers = {i \in 1..n : /\ i \in active \/ Cardinality(active) < MaxParallel
                             /\ WithinCap(edges[i], alloc[i] + slice)}
  BY <1>1 DEF Takers
<1>6. IsFiniteSet(active) /\ Cardinality(active) \in Nat
  <2>1. active \in SUBSET (1..n) /\ IsFiniteSet(1..n)
    BY <1>1, FS_Interval
  <2> HIDE DEF active
  <2> QED
    BY <2>1, FS_Subset, FS_CardinalityType
<1>7. ASSUME takers # {} PROVE w \in takers
  <2>1. takers \in SUBSET (1..n) /\ IsFiniteSet(1..n)
    BY <1>1, <1>5, FS_Interval
  <2>2. \A i \in takers : Gain(edges, alloc, i, slice, source) \in Int
    <3> TAKE i \in takers
    <3>1. edges[i] \in PoolRecords /\ alloc[i] + slice \in Nat /\ alloc[i] \in Nat
      BY <1>1, <1>2, <1>3, <2>1
    <3> QED
      BY <3>1, QuoteIsNat DEF Gain
  <2>3. gain \in [takers -> Int]
    BY <2>2
  <2> HIDE DEF takers, gain
  <2>4. IsFiniteSet(takers)
    BY <2>1, FS_Subset
  <2>5. takers \subseteq Int
    BY <1>1, <2>1
  <2> QED
    BY <1>7, <2>3, <2>4, <2>5, FirstGreatestIs
<1> HIDE DEF takers, gain, w
<1>8. ASSUME w \in takers PROVE Allocates(next, edges, n, x)
  <2>1. w \in 1..n /\ WithinCap(edges[w], alloc[w] + slice)
    BY <1>5, <1>8
  <2>2. next \in [1..n -> Nat] /\ next[w] = alloc[w] + slice
    BY <1>2, <1>3, <2>1
  <2>3. \A i \in 1..n : i # w => next[i] = alloc[i]
    BY <1>2
  <2>4. \A i \in 1..n : next[i] > 0 => WithinCap(edges[i], next[i])
    BY <2>1, <2>2, <2>3 DEF Allocates
  <2>5. Total(next) <= x
    <3> DEFINE v == alloc[w] + slice
    <3>1. v \in Nat /\ alloc[w] \in Nat
      BY <1>2, <1>3, <2>1
    <3>2. next = [alloc EXCEPT ![w] = v]
      BY <1>2, <2>1
    <3>3. v - alloc[w] = slice
      BY <1>3, <3>1
    <3> HIDE DEF v, next
    <3>4. Total(next) = Total(alloc) + (v - alloc[w])
      BY <1>1, <1>2, <2>1, <3>1, <3>2, TotalChanges
    <3> QED
      BY <1>2, <1>3, <3>3, <3>4
  <2>6. Cardinality({i \in 1..n : next[i] > 0}) <= MaxParallel
    <3> DEFINE later == {i \in 1..n : next[i] > 0}
    <3>1. later \in SUBSET (active \cup {w})
      BY <2>3
    <3> HIDE DEF later, active
    <3>2. IsFiniteSet(active \cup {w}) /\ Cardinality(active \cup {w}) \in Nat
      BY <1>6, FS_AddElement, FS_CardinalityType
    <3>3. Cardinality(later) <= Cardinality(active \cup {w}) /\ Cardinality(later) \in Nat
      BY <3>1, <3>2, FS_Subset, FS_CardinalityType
    <3>4. Cardinality(active \cup {w}) <= MaxParallel
      <4>1. MaxParallel \in Nat /\ Cardinality(active) <= MaxParallel
        BY PlanAssumption DEF Allocates, active
      <4>2. w \in active \/ Cardinality(active) < MaxParallel
        BY <1>5, <1>8
      <4>3. Cardinality(active \cup {w}) = IF w \in active THEN Cardinality(active)
                                           ELSE Cardinality(active) + 1
        BY <1>6, FS_AddElement
      <4> QED
        BY <1>6, <4>1, <4>2, <4>3
    <3>5. Cardinality(later) <= MaxParallel
      BY <3>2, <3>3, <3>4, PlanAssumption
    <3> QED
      BY <3>5 DEF later
  <2> QED
    BY <2>2, <2>4, <2>5, <2>6 DEF Allocates
<1> HIDE DEF next
<1> QED
  BY <1>4, <1>7, <1>8

LEMMA NothingAllocates ==
    ASSUME NEW edges, NEW n \in Nat, NEW x \in Nat
    PROVE  Allocates([i \in 1..n |-> 0], edges, n, x)
<1> DEFINE alloc == [i \in 1..n |-> 0]
<1>1. alloc \in [1..n -> Nat] /\ \A i \in 1..n : alloc[i] = 0
  OBVIOUS
<1> HIDE DEF alloc
<1>2. Total(alloc) = 0
  BY <1>1, TotalOfNothing
<1>3. {i \in 1..n : alloc[i] > 0} = {}
  BY <1>1
<1>4. Cardinality({}) <= MaxParallel
  BY FS_EmptySet, PlanAssumption
<1>5. \A i \in 1..n : ~ (alloc[i] > 0)
  BY <1>1
<1>6. Allocates(alloc, edges, n, x)
  BY <1>1, <1>2, <1>3, <1>4, <1>5 DEF Allocates
<1> QED
  BY <1>6 DEF alloc

\* So do all the slices.
LEMMA GreedyAllocates ==
    ASSUME NEW pools, pools \subseteq PoolRecords, NEW edges, NEW n, Edges(edges, n, pools),
           NEW x \in Nat, NEW source
    PROVE  Allocates(Greedy(edges, x, source), edges, n, x)
<1> DEFINE X == {a \in [1..n -> Nat] : Allocates(a, edges, n, x)}
           base == [i \in 1..n |-> 0]
           Next1(a) == NextSlice(edges, a, x, source)
           F == [k \in 1..x |-> [a \in X |-> Next1(a)]]
           alloc[k \in 0..x] == IF k = 0 THEN [i \in DOMAIN edges |-> 0]
                                ELSE NextSlice(edges, alloc[k - 1], x, source)
<1>1. n \in Nat /\ DOMAIN edges = 1..n
  BY DEF Edges
<1>2. \A a : a \in X <=> Allocates(a, edges, n, x)
  BY DEF Allocates
<1>3. base \in X
  BY <1>1, <1>2, NothingAllocates
<1> HIDE DEF X, base
<1>4. \A a \in X : Next1(a) \in X
  BY <1>2, NextSliceAllocates
<1> HIDE DEF Next1
<1>5. Rounds(X, base, x, F)
  BY <1>3, <1>4 DEF Rounds
<1>6. \A k \in 1..x, a \in X : F[k][a] = Next1(a)
  OBVIOUS
<1> HIDE DEF F
<1>7. PICK g : Values(X, base, x, F, g)
  BY <1>5, LoopExists
<1>8. \A k \in 0..x : g[k] = IF k = 0 THEN base ELSE Next1(g[k - 1])
  <2> TAKE k \in 0..x
  <2>1. CASE k = 0
    BY <1>7, <2>1 DEF Values
  <2>2. CASE k # 0
    <3>1. k \in 1..x /\ k - 1 \in 0..x
      BY <2>2
    <3>2. g[k] = F[k][g[k - 1]] /\ g[k - 1] \in X
      BY <1>7, <3>1 DEF Values
    <3> QED
      BY <1>6, <2>2, <3>1, <3>2
  <2> QED
    BY <2>1, <2>2
<1>9. g = [k \in 0..x |-> IF k = 0 THEN [i \in DOMAIN edges |-> 0]
                          ELSE NextSlice(edges, g[k - 1], x, source)]
  <2>1. g = [k \in 0..x |-> g[k]]
    BY <1>7 DEF Values
  <2>2. g = [k \in 0..x |-> IF k = 0 THEN base ELSE Next1(g[k - 1])]
    BY <1>8, <2>1, Zenon
  <2>3. base = [i \in DOMAIN edges |-> 0]
    BY <1>1 DEF base
  <2> QED
    BY <2>2, <2>3 DEF Next1
<1>10. alloc = [k \in 0..x |-> IF k = 0 THEN [i \in DOMAIN edges |-> 0]
                               ELSE NextSlice(edges, alloc[k - 1], x, source)]
  BY <1>9, Zenon
<1>11. Greedy(edges, x, source) = alloc[x]
  BY DEF Greedy
<1> HIDE DEF alloc
<1>12. /\ alloc[0] = base
       /\ \A k \in 1..x : alloc[k] = Next1(alloc[k - 1])
  <2>1. \A k \in 0..x : alloc[k] = IF k = 0 THEN [i \in DOMAIN edges |-> 0]
                                   ELSE NextSlice(edges, alloc[k - 1], x, source)
    BY <1>10, Zenon
  <2>2. 0 \in 0..x /\ \A k \in 1..x : k \in 0..x /\ k # 0
    OBVIOUS
  <2> QED
    BY <1>1, <2>1, <2>2, Zenon DEF base, Next1
<1> DEFINE T == {k \in Nat : k <= x => alloc[k] \in X}
<1>13. 0 \in T
  BY <1>3, <1>12
<1>14. ASSUME NEW k \in Nat, k \in T PROVE k + 1 \in T
  <2> SUFFICES ASSUME k + 1 <= x PROVE alloc[k + 1] \in X
    OBVIOUS
  <2>1. k + 1 \in 1..x /\ (k + 1) - 1 = k /\ alloc[k] \in X
    BY <1>14
  <2> QED
    BY <1>4, <1>12, <2>1
<1> HIDE DEF T
<1>15. Nat \subseteq T
  BY <1>13, <1>14, InductiveSet
<1>16. alloc[x] \in X
  BY <1>15 DEF T
<1> QED
  BY <1>2, <1>11, <1>16

\* and the hop over several pools,
LEMMA SplitFits ==
    ASSUME NEW pools, pools \subseteq PoolRecords, NEW edges, NEW n, Edges(edges, n, pools),
           NEW few, NEW m \in 1..MaxParallel, Edges(few, m, pools), NEW x \in Nat, NEW source
    PROVE  Split(edges, few, x, source) \in HopRecords /\ FitsHop(Split(edges, few, x, source), x)
<1>1. CASE V2Shares(few, x) # {}
  <2>1. V2Allocation(few, x) \in V2Shares(few, x)
    BY <1>1, V2AllocationIs
  <2>2. Allocates(V2Allocation(few, x), few, m, x)
    BY <2>1, V2SharesAllocate
  <2>3. /\ Materialized(few, V2Allocation(few, x), source) \in HopRecords
        /\ FitsHop(Materialized(few, V2Allocation(few, x), source), x)
    BY <2>2, MaterializedIs, MaterializedFits DEF Allocates
  <2>4. Allocates(Greedy(edges, x, source), edges, n, x)
    BY GreedyAllocates
  <2>5. /\ Materialized(edges, Greedy(edges, x, source), source) \in HopRecords
        /\ FitsHop(Materialized(edges, Greedy(edges, x, source), source), x)
    BY <2>4, MaterializedIs, MaterializedFits DEF Allocates
  <2> QED
    BY <2>3, <2>5 DEF Split
<1>2. CASE V2Shares(few, x) = {}
  <2>1. Allocates(Greedy(edges, x, source), edges, n, x)
    BY GreedyAllocates
  <2>2. /\ Materialized(edges, Greedy(edges, x, source), source) \in HopRecords
        /\ FitsHop(Materialized(edges, Greedy(edges, x, source), source), x)
    BY <2>1, MaterializedIs, MaterializedFits DEF Allocates
  <2> QED
    BY <1>2, <2>2 DEF Split
<1> QED
  BY <1>1, <1>2

\* and so whatever optimize_pair returns.
LEMMA OptimizedFits ==
    ASSUME NEW pools, Distinct(pools), NEW x \in Nat, NEW source
    PROVE  /\ OptimizePair(pools, x, source) \in HopRecords
           /\ FitsHop(OptimizePair(pools, x, source), x)
<1> DEFINE edges == RankedEdges(pools, x)
           few == FirstOf(MaxParallel, edges)
<1>1. PICK n : Edges(edges, n, pools)
  BY RankedEdgesAre
<1>2. pools \subseteq PoolRecords
  BY DEF Distinct
<1>3. OptimizePair(pools, x, source) = OptimizeOver(edges, x, source)
  BY DEF OptimizePair
<1> HIDE DEF edges
<1>4. n \in Nat /\ Len(edges) = n
  BY <1>1 DEF Edges
<1>5. CASE edges = <<>>
  BY <1>3, <1>5, NoHopFits DEF OptimizeOver
<1>6. CASE edges # <<>> /\ ~ (Len(edges) > 1 /\ x >= 2 * Most(1, x \div Slices))
  BY <1>1, <1>2, <1>3, <1>6, SingleBestFits DEF OptimizeOver
<1>7. CASE edges # <<>> /\ Len(edges) > 1 /\ x >= 2 * Most(1, x \div Slices)
  <2> DEFINE m == Least(MaxParallel, n)
  <2>1. MaxParallel \in Nat \ {0}
    BY PlanAssumption
  <2>2. m \in Nat /\ m <= n /\ m <= MaxParallel /\ m >= 1
    BY <1>4, <1>7, <2>1 DEF Least
  <2>3. few = [i \in 1..m |-> edges[i]]
    BY <1>4 DEF FirstOf
  <2> HIDE DEF m, few
  <2>4. m \in 1..MaxParallel
    BY <2>1, <2>2
  <2>5. \A i \in 1..m : i \in 1..n /\ few[i] = edges[i]
    BY <1>4, <2>2, <2>3
  <2>6. few \in [1..m -> pools]
    BY <1>1, <2>3, <2>5 DEF Edges
  <2>7. Edges(few, m, pools)
    BY <1>1, <2>2, <2>5, <2>6, LenIs DEF Edges
  <2>8. /\ Split(edges, few, x, source) \in HopRecords
        /\ FitsHop(Split(edges, few, x, source), x)
    BY <1>1, <1>2, <2>4, <2>7, SplitFits
  <2> QED
    BY <1>3, <1>7, <2>8 DEF OptimizeOver, few
<1> QED
  BY <1>5, <1>6, <1>7

-----------------------------------------------------------------------------
(* The hops of a plan *)

LEMMA PathIs ==
    ASSUME market \in Markets
    PROVE  /\ Len(market.path) \in Nat \ {0} /\ DOMAIN market.path = 1..Len(market.path)
           /\ \A i \in 1..Len(market.path) : /\ Distinct(market.path[i].pools)
                                             /\ market.path[i].own \in market.path[i].pools
<1>1. \A m \in Markets :
          /\ Len(m.path) \in Nat \ {0} /\ DOMAIN m.path = 1..Len(m.path)
          /\ \A i \in DOMAIN m.path : /\ Distinct(m.path[i].pools)
                                      /\ m.path[i].own \in m.path[i].pools
  BY PlanAssumption, Zenon DEF Distinct
<1> QED
  BY <1>1

PlanHops == [in: Nat \ {0}, out: Nat \ {0}, splits: Seq(SplitRecords)]

\* What each hop of a path makes of an amount
Makers == [1..Len(market.path) -> [Nat -> HopRecords]]

\* The hops are what hopAt makes of x, each of what the one before it pays.
HopsFrom(hops, hopAt, x) ==
    /\ hops \in Seq(PlanHops)
    /\ hops # <<>> => hops[1].in = x
    /\ \A i \in 1..(Len(hops) - 1) : hops[i + 1].in = hops[i].out
    /\ \A i \in 1..Len(hops) : hops[i].splits = hopAt[i][hops[i].in].splits

LEMMA InputIsPositive ==
    ASSUME NEW x \in Nat \ {0}, NEW hops \in Seq(PlanHops)
    PROVE  InputOf(hops, x) \in Nat \ {0}
<1>1. CASE hops = <<>>
  BY <1>1 DEF InputOf
<1>2. CASE hops # <<>>
  <2>1. Len(hops) \in 1..Len(hops)
    BY <1>2
  <2>2. hops[Len(hops)] \in PlanHops
    BY <2>1
  <2> QED
    BY <1>2, <2>2 DEF InputOf, PlanHops
<1> QED
  BY <1>1, <1>2

LEMMA ExtendedIs ==
    ASSUME NEW hops \in Seq(PlanHops), NEW in \in Nat \ {0}, NEW hop \in HopRecords
    PROVE  /\ Extended(hops, in, hop) \in Seq(PlanHops)
           /\ \/ Extended(hops, in, hop) = hops
              \/ LET h == [in |-> in, out |-> hop.out, splits |-> hop.splits]
                 IN  h \in PlanHops /\ Extended(hops, in, hop) = Append(hops, h)
<1>1. CASE hop.out = 0
  BY <1>1 DEF Extended
<1>2. CASE hop.out # 0
  <2> DEFINE h == [in |-> in, out |-> hop.out, splits |-> hop.splits]
  <2>1. h \in PlanHops
    BY <1>2 DEF HopRecords, PlanHops
  <2>2. Extended(hops, in, hop) = Append(hops, h)
    BY <1>2 DEF Extended
  <2>3. Append(hops, h) \in Seq(PlanHops)
    <3> HIDE DEF h
    <3> QED
      BY <2>1
  <2> QED
    BY <2>1, <2>2, <2>3
<1> QED
  BY <1>1, <1>2

LEMMA HopsFromMore ==
    ASSUME NEW hopAt, NEW x, NEW hops, HopsFrom(hops, hopAt, x), NEW h \in PlanHops,
           h.in = InputOf(hops, x), h.splits = hopAt[Len(hops) + 1][h.in].splits
    PROVE  HopsFrom(Append(hops, h), hopAt, x)
<1> DEFINE t == Append(hops, h)
           n == Len(hops)
<1>1. hops \in Seq(PlanHops) /\ n \in Nat
  BY DEF HopsFrom
<1>2. t \in Seq(PlanHops) /\ Len(t) = n + 1
  BY <1>1
<1>3. t[n + 1] = h /\ \A i \in 1..n : t[i] = hops[i]
  BY <1>1
<1> HIDE DEF t
<1>4. t[1].in = x
  <2>1. CASE n = 0
    <3>1. hops = <<>>
      BY <1>1, <2>1
    <3> QED
      BY <1>3, <2>1, <3>1 DEF InputOf
  <2>2. CASE n # 0
    <3>1. hops # <<>> /\ 1 \in 1..n
      BY <1>1, <2>2
    <3> QED
      BY <1>3, <3>1 DEF HopsFrom
  <2> QED
    BY <2>1, <2>2
<1>5. \A i \in 1..n : t[i + 1].in = t[i].out
  <2> TAKE i \in 1..n
  <2>1. CASE i = n
    <3>1. n # 0 /\ hops # <<>>
      BY <1>1
    <3>2. h.in = hops[n].out
      BY <3>1 DEF InputOf
    <3> QED
      BY <1>1, <1>3, <2>1, <3>2
  <2>2. CASE i # n
    <3>1. i \in 1..(n - 1) /\ i + 1 \in 1..n
      BY <1>1, <2>2
    <3> QED
      BY <1>3, <3>1 DEF HopsFrom
  <2> QED
    BY <2>1, <2>2
<1>6. \A i \in 1..(n + 1) : t[i].splits = hopAt[i][t[i].in].splits
  <2> TAKE i \in 1..(n + 1)
  <2>1. CASE i = n + 1
    BY <1>3, <2>1
  <2>2. CASE i # n + 1
    <3>1. i \in 1..n
      BY <1>1, <2>2
    <3> QED
      BY <1>3, <3>1 DEF HopsFrom
  <2> QED
    BY <2>1, <2>2
<1>7. (n + 1) - 1 = n
  BY <1>1
<1> HIDE DEF n
<1>8. HopsFrom(t, hopAt, x)
  BY <1>2, <1>4, <1>5, <1>6, <1>7 DEF HopsFrom
<1> QED
  BY <1>8 DEF t

\* The hops of a plan are what each pair makes of the output of the pair before it.
LEMMA PlanIsSettled ==
    ASSUME market \in Markets, NEW x \in Nat \ {0}, NEW hopAt \in Makers
    PROVE  \E hops : /\ PlanOf(hopAt, x) = Settled(x, hops)
                     /\ HopsFrom(hops, hopAt, x) /\ Len(hops) <= Len(market.path)
<1> DEFINE N == Len(market.path)
           X == Seq(PlanHops)
           After(h, n) == IF Len(h) < n - 1 THEN h
                          ELSE Extended(h, InputOf(h, x), hopAt[n][InputOf(h, x)])
           F == [n \in 1..N |-> [h \in X |-> After(h, n)]]
           hops[n \in 0..N] ==
              LET before == hops[n - 1]
                  in == InputOf(before, x)
              IN  IF n = 0 THEN <<>>
                  ELSE IF Len(before) < n - 1 THEN before ELSE Extended(before, in, hopAt[n][in])
<1>1. N \in Nat
  BY PathIs
<1>2. \A n \in 1..N, y \in Nat : hopAt[n][y] \in HopRecords
  BY DEF Makers
<1>3. PlanOf(hopAt, x) = Settled(x, hops[N])
  BY DEF PlanOf
<1> HIDE DEF N
<1>4. \A n \in 1..N, h \in X : After(h, n) \in X
  BY <1>2, InputIsPositive, ExtendedIs
<1>5. <<>> \in X
  OBVIOUS
<1> HIDE DEF X
<1>6. Rounds(X, <<>>, N, F)
  <2> HIDE DEF After
  <2> QED
    BY <1>1, <1>4, <1>5 DEF Rounds
<1>7. \A n \in 1..N, h \in X : F[n][h] = After(h, n)
  OBVIOUS
<1> HIDE DEF F
<1>8. PICK g : Values(X, <<>>, N, F, g)
  BY <1>6, LoopExists
<1>9. \A n \in 0..N : g[n] = IF n = 0 THEN <<>> ELSE After(g[n - 1], n)
  <2> TAKE n \in 0..N
  <2>1. CASE n = 0
    BY <1>8, <2>1 DEF Values
  <2>2. CASE n # 0
    <3>1. n \in 1..N /\ n - 1 \in 0..N
      BY <1>1, <2>2
    <3>2. g[n] = F[n][g[n - 1]] /\ g[n - 1] \in X
      BY <1>8, <3>1 DEF Values
    <3> HIDE DEF After
    <3> QED
      BY <1>7, <2>2, <3>1, <3>2
  <2> QED
    BY <2>1, <2>2
<1>10. g = [n \in 0..N |-> LET before == g[n - 1]
                               in == InputOf(before, x)
                           IN  IF n = 0 THEN <<>>
                               ELSE IF Len(before) < n - 1 THEN before
                                    ELSE Extended(before, in, hopAt[n][in])]
  <2>1. g = [n \in 0..N |-> g[n]]
    BY <1>8 DEF Values
  <2> QED
    BY <1>9, <2>1, Zenon
<1>11. hops = [n \in 0..N |-> LET before == hops[n - 1]
                                  in == InputOf(before, x)
                              IN  IF n = 0 THEN <<>>
                                  ELSE IF Len(before) < n - 1 THEN before
                                       ELSE Extended(before, in, hopAt[n][in])]
  BY <1>10, Zenon
<1> HIDE DEF hops
<1>12. hops[0] = <<>> /\ \A n \in 1..N : hops[n] = After(hops[n - 1], n)
  <2>1. \A n \in 0..N : hops[n] = IF n = 0 THEN <<>> ELSE After(hops[n - 1], n)
    BY <1>11, Zenon
  <2>2. 0 \in 0..N /\ \A n \in 1..N : n \in 0..N /\ n # 0
    BY <1>1
  <2> HIDE DEF After
  <2> QED
    BY <2>1, <2>2, Zenon
<1> DEFINE Ok(n) == HopsFrom(hops[n], hopAt, x) /\ Len(hops[n]) <= n
           T == {n \in Nat : n <= N => Ok(n)}
<1>13. 0 \in T
  <2>1. HopsFrom(<<>>, hopAt, x) /\ Len(<<>>) <= 0
    BY DEF HopsFrom
  <2> QED
    BY <1>12, <2>1
<1>14. ASSUME NEW n \in Nat, n \in T PROVE n + 1 \in T
  <2> SUFFICES ASSUME n + 1 <= N PROVE Ok(n + 1)
    OBVIOUS
  <2> DEFINE h == hops[n]
             y == InputOf(h, x)
             hop == hopAt[n + 1][y]
  <2>1. n + 1 \in 1..N /\ (n + 1) - 1 = n
    OBVIOUS
  <2>2. HopsFrom(h, hopAt, x) /\ Len(h) <= n
    BY <1>1, <1>14
  <2>3. h \in Seq(PlanHops) /\ Len(h) \in Nat
    BY <2>2 DEF HopsFrom
  <2>4. hops[n + 1] = IF Len(h) < n THEN h ELSE Extended(h, y, hop)
    BY <1>12, <2>1
  <2>5. CASE Len(h) < n
    BY <2>2, <2>3, <2>4, <2>5
  <2>6. CASE ~ (Len(h) < n)
    <3>1. Len(h) = n
      BY <2>2, <2>3, <2>6
    <3>2. y \in Nat \ {0}
      BY <2>3, InputIsPositive
    <3>3. hop \in HopRecords
      BY <1>2, <2>1, <3>2
    <3> DEFINE r == [in |-> y, out |-> hop.out, splits |-> hop.splits]
    <3>4. hops[n + 1] = h \/ (r \in PlanHops /\ hops[n + 1] = Append(h, r))
      BY <2>3, <2>4, <2>6, <3>2, <3>3, ExtendedIs
    <3>5. CASE hops[n + 1] = h
      BY <2>2, <2>3, <3>5
    <3>6. CASE r \in PlanHops /\ hops[n + 1] = Append(h, r)
      <4>1. r.in = y /\ r.splits = hopAt[Len(h) + 1][r.in].splits
        BY <3>1
      <4> HIDE DEF r
      <4>2. HopsFrom(Append(h, r), hopAt, x)
        BY <2>2, <3>6, <4>1, HopsFromMore
      <4>3. Len(Append(h, r)) = n + 1
        BY <2>3, <3>1, <3>6
      <4> QED
        BY <3>6, <4>2, <4>3
    <3> QED
      BY <3>4, <3>5, <3>6
  <2> QED
    BY <2>5, <2>6
<1>15. Ok(N)
  <2> HIDE DEF Ok
  <2>1. N \in T
    <3> HIDE DEF T
    <3> QED
      BY <1>1, <1>13, <1>14, InductiveSet
  <2> QED
    BY <1>1, <2>1
<1> QED
  BY <1>3, <1>15 DEF N

-----------------------------------------------------------------------------
(* Plans *)

LEMMA FeeIsNat == ASSUME NEW x \in Nat PROVE FlashFee(x) \in Nat
BY LoanFeeIsNat DEF FlashFee

\* A plan earns something, and its hops lead through the path from its amount.
Earns(p) ==
    /\ p.amount \in Nat \ {0} /\ p.profit \in Nat \ {0}
    /\ p.hops \in Seq(PlanHops) /\ Len(p.hops) = Len(market.path)
    /\ p.hops[1].in = p.amount
    /\ \A i \in 1..(Len(p.hops) - 1) : p.hops[i + 1].in = p.hops[i].out
    /\ p.profit = p.hops[Len(p.hops)].out - p.amount - FlashFee(p.amount)

\* A plan that is not refused earns what it says.
LEMMA PlanIs ==
    ASSUME market \in Markets, NEW x \in Nat \ {0}, NEW hopAt \in Makers,
           PlanOf(hopAt, x) # NoAnswer
    PROVE  /\ Earns(PlanOf(hopAt, x)) /\ PlanOf(hopAt, x).amount = x
           /\ HopsFrom(PlanOf(hopAt, x).hops, hopAt, x)
<1> DEFINE N == Len(market.path)
<1>1. N \in Nat \ {0}
  BY PathIs
<1>2. PICK hops : /\ PlanOf(hopAt, x) = Settled(x, hops)
                  /\ HopsFrom(hops, hopAt, x) /\ Len(hops) <= N
  BY PlanIsSettled
<1>3. hops \in Seq(PlanHops) /\ Len(hops) \in Nat
  BY <1>2 DEF HopsFrom
<1>4. ~ (Len(hops) < N) /\ PlanOf(hopAt, x) = Settle(x, hops)
  BY <1>2 DEF Settled
<1>5. Len(hops) = N
  BY <1>1, <1>2, <1>3, <1>4
<1> DEFINE profit == hops[Len(hops)].out - x - FlashFee(x)
           p == [amount |-> x, profit |-> profit, hops |-> hops]
<1>6. PlanOf(hopAt, x) = IF profit > 0 THEN p ELSE NoAnswer
  BY <1>4 DEF Settle
<1>7. hops[N] \in PlanHops /\ hops[1] \in PlanHops /\ hops # <<>>
  BY <1>1, <1>3, <1>5
<1>8. profit \in Int
  <2>1. hops[N].out \in Nat
    BY <1>7 DEF PlanHops
  <2>2. FlashFee(x) \in Nat
    BY FeeIsNat
  <2>3. profit = hops[N].out - x - FlashFee(x)
    BY <1>5
  <2> DEFINE paid == hops[N].out
             fee == FlashFee(x)
  <2> HIDE DEF N, paid, fee, profit
  <2>4. paid \in Nat /\ fee \in Nat /\ profit = paid - x - fee
    BY <2>1, <2>2, <2>3 DEF paid, fee
  <2> QED
    BY <2>4
<1>9. PlanOf(hopAt, x) = p /\ profit \in Nat \ {0}
  BY <1>6, <1>8
<1>10. p.amount = x /\ p.profit = profit /\ p.hops = hops
  OBVIOUS
<1> HIDE DEF p
<1>11. p.profit = p.hops[Len(p.hops)].out - p.amount - FlashFee(p.amount)
  BY <1>10
<1> HIDE DEF profit
<1>12. Earns(p)
  BY <1>2, <1>3, <1>5, <1>7, <1>9, <1>10, <1>11 DEF Earns, HopsFrom
<1> QED
  BY <1>2, <1>9, <1>10, <1>12

\* No plan, or one for x
AnswerFor(p, x) == p = NoAnswer \/ (Earns(p) /\ p.amount = x)

LEMMA MakersAre ==
    ASSUME market \in Markets, NEW hopAt, hopAt = [i \in DOMAIN market.path |-> hopAt[i]],
           \A i \in 1..Len(market.path) : hopAt[i] \in [Nat -> HopRecords]
    PROVE  hopAt \in Makers
<1> DEFINE N == Len(market.path)
<1>1. DOMAIN market.path = 1..N
  BY PathIs
<1>2. hopAt = [i \in 1..N |-> hopAt[i]]
  BY <1>1
<1>3. \A i \in 1..N : hopAt[i] \in [Nat -> HopRecords]
  OBVIOUS
<1> HIDE DEF N
<1>4. hopAt \in [1..N -> [Nat -> HopRecords]]
  BY <1>2, <1>3
<1> QED
  BY <1>4 DEF Makers, N

\* A quote of a candidate has no plan, or one for its amount within what pools can take.
LEMMA CandidateIs ==
    ASSUME market \in Markets, NEW x \in Nat \ {0}, NEW source
    PROVE  /\ AnswerFor(QuoteCandidate(x, source), x)
           /\ \A i \in DOMAIN QuoteCandidate(x, source).hops :
                 LET hop == QuoteCandidate(x, source).hops[i]
                 IN  FitsHop(hop, hop.in)
<1> DEFINE hopAt == [i \in DOMAIN market.path |->
                        [y \in Nat |-> OptimizePair(market.path[i].pools, y, source)]]
           p == QuoteCandidate(x, source)
           N == Len(market.path)
<1>1. DOMAIN market.path = 1..N /\ \A i \in 1..N : Distinct(market.path[i].pools)
  BY PathIs
<1>2. \A i \in 1..N, y \in Nat : /\ hopAt[i][y] \in HopRecords
                                 /\ FitsHop(hopAt[i][y], y)
  BY <1>1, OptimizedFits
<1>3. hopAt \in Makers
  <2>1. hopAt = [i \in DOMAIN market.path |-> hopAt[i]]
    OBVIOUS
  <2>2. \A i \in 1..N : hopAt[i] \in [Nat -> HopRecords]
    BY <1>1, <1>2
  <2> HIDE DEF hopAt
  <2> QED
    BY <2>1, <2>2, MakersAre
<1>4. p = PlanOf(hopAt, x)
  BY DEF QuoteCandidate
<1> HIDE DEF hopAt, p
<1>5. p # NoAnswer => Earns(p) /\ p.amount = x /\ HopsFrom(p.hops, hopAt, x)
  BY <1>3, <1>4, PlanIs
<1>6. \A i \in DOMAIN p.hops : FitsHop(p.hops[i], p.hops[i].in)
  <2>1. CASE p = NoAnswer
    BY <2>1 DEF NoAnswer
  <2>2. CASE p # NoAnswer
    <3>1. /\ Earns(p) /\ HopsFrom(p.hops, hopAt, x)
          /\ p.hops \in Seq(PlanHops) /\ Len(p.hops) = N
      BY <1>5, <2>2 DEF Earns
    <3> TAKE i \in DOMAIN p.hops
    <3>2. i \in 1..N /\ i \in 1..Len(p.hops) /\ p.hops[i] \in PlanHops
      BY <3>1
    <3> DEFINE hop == p.hops[i]
               y == hop.in
    <3>3. y \in Nat /\ hop.splits = hopAt[i][y].splits
      BY <3>1, <3>2 DEF HopsFrom, PlanHops
    <3>4. FitsHop(hopAt[i][y], y)
      BY <1>2, <3>2, <3>3
    <3> HIDE DEF hop, y
    <3>5. FitsHop(hop, y)
      BY <3>3, <3>4 DEF FitsHop
    <3> QED
      BY <3>5 DEF hop, y
  <2> QED
    BY <2>1, <2>2
<1>7. AnswerFor(p, x)
  BY <1>5 DEF AnswerFor
<1> QED
  BY <1>6, <1>7 DEF p

\* So has a quote of its own LB pools, whatever they can take.
LEMMA LbDirectIs ==
    ASSUME market \in Markets, NEW x \in Nat \ {0}, NEW source
    PROVE  AnswerFor(QuoteLbDirect(x, source), x)
<1> DEFINE hopAt == [i \in DOMAIN market.path |->
                        [y \in Nat |-> Materialized(<<market.path[i].own>>, <<y>>, source)]]
           N == Len(market.path)
<1>1. DOMAIN market.path = 1..N
  BY PathIs
<1>2. \A i \in 1..N, y \in Nat : hopAt[i][y] \in HopRecords
  <2> TAKE i \in 1..N, y \in Nat
  <2>1. market.path[i].own \in PoolRecords
    BY PathIs DEF Distinct
  <2>2. hopAt[i][y] = Materialized(<<market.path[i].own>>, <<y>>, source)
    BY <1>1
  <2> HIDE DEF hopAt
  <2> QED
    BY <2>1, <2>2, OneEdge
<1>3. hopAt \in Makers
  <2>1. hopAt = [i \in DOMAIN market.path |-> hopAt[i]]
    OBVIOUS
  <2>2. \A i \in 1..N : hopAt[i] \in [Nat -> HopRecords]
    BY <1>1, <1>2
  <2> HIDE DEF hopAt
  <2> QED
    BY <2>1, <2>2, MakersAre
<1>4. QuoteLbDirect(x, source) = PlanOf(hopAt, x)
  BY DEF QuoteLbDirect
<1> HIDE DEF hopAt
<1> QED
  BY <1>3, <1>4, PlanIs DEF AnswerFor

LEMMA ScaledIs ==
    ASSUME NEW splits \in Seq(SplitRecords), NEW old \in Nat \ {0}, NEW new \in Nat
    PROVE  Scaled(splits, old, new) \in [1..Len(splits) -> Nat]
<1> DEFINE n == Len(splits)
           share(i) == (new * splits[i].in) \div old
           parts == [i \in 1..(n - 1) |-> share(i)]
           given == Total(parts)
<1>1. n \in Nat /\ DOMAIN splits = 1..n
  OBVIOUS
<1>2. \A i \in 1..n : share(i) \in Nat
  <2> TAKE i \in 1..n
  <2>1. splits[i] \in SplitRecords
    OBVIOUS
  <2>2. splits[i].in \in Nat
    BY <2>1 DEF SplitRecords
  <2> QED
    BY <2>2, ShareIsNat
<1>3. ASSUME n # 0 PROVE given \in Nat
  <2>1. n - 1 \in Nat /\ \A i \in 1..(n - 1) : i \in 1..n
    BY <1>1, <1>3
  <2> HIDE DEF share, n
  <2>2. parts \in [1..(n - 1) -> Nat]
    BY <1>2, <2>1
  <2> HIDE DEF parts
  <2> QED
    BY <2>1, <2>2, TotalIsNat
<1>4. Scaled(splits, old, new) =
        [i \in DOMAIN splits |-> IF i < n THEN share(i) ELSE Most(0, new - given)]
  BY DEF Scaled
<1> HIDE DEF share, given
<1>5. \A i \in 1..n : (IF i < n THEN share(i) ELSE Most(0, new - given)) \in Nat
  <2> TAKE i \in 1..n
  <2>1. n # 0
    BY <1>1
  <2>2. new - given \in Int
    BY <1>3, <2>1
  <2>3. Most(0, new - given) \in Nat
    BY <2>2 DEF Most
  <2> QED
    BY <1>2, <2>3
<1> HIDE DEF n
<1>6. Scaled(splits, old, new) \in [1..n -> Nat]
  BY <1>1, <1>4, <1>5
<1> QED
  BY <1>6 DEF n

LEMMA RequotedIs ==
    ASSUME NEW hop \in PlanHops, NEW x \in Nat, NEW source
    PROVE  Requoted(hop, x, source) \in HopRecords
<1> DEFINE ins == Scaled(hop.splits, hop.in, x)
           kept == {i \in DOMAIN ins : ins[i] > 0}
           used == Sorted(kept)
           out(i) == QuotePool(hop.splits[i].pool, ins[i], source)
           splits == [k \in DOMAIN used |-> [pool |-> hop.splits[used[k]].pool,
                                             in |-> ins[used[k]], out |-> out(used[k])]]
           outs == [k \in DOMAIN used |-> out(used[k])]
           n == Len(hop.splits)
           m == Cardinality(kept)
<1>1. hop.splits \in Seq(SplitRecords) /\ hop.in \in Nat \ {0} /\ n \in Nat
  BY DEF PlanHops
<1>2. ins \in [1..n -> Nat]
  BY <1>1, ScaledIs
<1> HIDE DEF ins
<1>3. kept \in SUBSET (1..n)
  BY <1>2
<1> HIDE DEF kept
<1>4. IsFiniteSet(kept) /\ kept \subseteq Int
  <2>1. IsFiniteSet(1..n)
    BY <1>1, FS_Interval
  <2>2. IsFiniteSet(kept)
    BY <1>3, <2>1, FS_Subset
  <2>3. kept \subseteq Int
    BY <1>1, <1>3
  <2> QED
    BY <2>2, <2>3
<1>5. m \in Nat /\ DOMAIN used = 1..m /\ used \in Seq(kept) /\ Len(used) = m
  BY <1>4, SortedHas
<1> HIDE DEF used, m
<1>6. \A k \in 1..m : used[k] \in 1..n
  <2> TAKE k \in 1..m
  <2>1. used[k] \in kept
    BY <1>5
  <2> QED
    BY <1>3, <2>1
<1>7. \A i \in 1..n : hop.splits[i].pool \in PoolRecords /\ ins[i] \in Nat
  <2> TAKE i \in 1..n
  <2>1. hop.splits[i] \in SplitRecords
    <3> DEFINE splitsOf == hop.splits
    <3>1. splitsOf \in Seq(SplitRecords) /\ n = Len(splitsOf)
      BY <1>1
    <3> HIDE DEF splitsOf, n
    <3>2. splitsOf[i] \in SplitRecords
      BY <3>1
    <3> QED
      BY <3>2 DEF splitsOf
  <2>2. ins[i] \in Nat
    BY <1>2
  <2> QED
    BY <2>1, <2>2 DEF SplitRecords
<1>8. \A i \in 1..n : out(i) \in Nat
  BY <1>7, QuoteIsNat
<1> HIDE DEF out
<1>9. outs \in [1..m -> Nat]
  BY <1>5, <1>6, <1>8
<1>10. splits \in [1..m -> SplitRecords]
  BY <1>5, <1>6, <1>7, <1>8 DEF SplitRecords
<1> HIDE DEF outs, splits
<1>11. Total(outs) \in Nat /\ splits \in Seq(SplitRecords)
  BY <1>5, <1>9, <1>10, TotalIsNat, LenIs
<1>12. \/ Requoted(hop, x, source) = NoHop
       \/ Requoted(hop, x, source) = [splits |-> splits, out |-> Total(outs)]
  BY DEF Requoted, ins, kept, used, out, splits, outs
<1>13. NoHop \in HopRecords
  BY NoHopFits
<1> QED
  BY <1>11, <1>12, <1>13 DEF HopRecords

\* So has a quote of the splits of a plan, scaled to another amount.
LEMMA ExistingIs ==
    ASSUME market \in Markets, NEW old, Earns(old), NEW x \in Nat \ {0}, NEW source
    PROVE  AnswerFor(QuoteExisting(old, x, source), x)
<1> DEFINE hopAt == [i \in DOMAIN market.path |->
                        [y \in Nat |-> Requoted(old.hops[i], y, source)]]
           N == Len(market.path)
<1>1. DOMAIN market.path = 1..N
  BY PathIs
<1>2. \A i \in 1..N, y \in Nat : hopAt[i][y] \in HopRecords
  <2> TAKE i \in 1..N, y \in Nat
  <2>1. old.hops[i] \in PlanHops
    BY DEF Earns
  <2>2. hopAt[i][y] = Requoted(old.hops[i], y, source)
    BY <1>1
  <2> HIDE DEF hopAt
  <2> QED
    BY <2>1, <2>2, RequotedIs
<1>3. hopAt \in Makers
  <2>1. hopAt = [i \in DOMAIN market.path |-> hopAt[i]]
    OBVIOUS
  <2>2. \A i \in 1..N : hopAt[i] \in [Nat -> HopRecords]
    BY <1>1, <1>2
  <2> HIDE DEF hopAt
  <2> QED
    BY <2>1, <2>2, MakersAre
<1>4. QuoteExisting(old, x, source) = PlanOf(hopAt, x)
  BY DEF QuoteExisting
<1> HIDE DEF hopAt
<1> QED
  BY <1>3, <1>4, PlanIs DEF AnswerFor

-----------------------------------------------------------------------------
(* The range of a search *)

Rates == [n: Nat \ {0}, d: Nat \ {0}]

LEMMA FewAre ==
    ASSUME NEW pools, Distinct(pools), pools # {}
    PROVE  \E m \in Nat \ {0} : FirstOf(MaxParallel, ByPrice(pools)) \in [1..m -> PoolRecords]
<1> DEFINE s == ByPrice(pools)
           c == Cardinality(pools)
           k == Least(MaxParallel, Len(s))
<1>1. Edges(s, c, pools)
  BY ByPriceIs, EnumeratedEdges
<1>2. c \in Nat /\ c # 0 /\ Len(s) = c /\ s \in [1..c -> pools]
  BY <1>1, FS_EmptySet DEF Edges, Distinct
<1>3. MaxParallel \in Nat \ {0}
  BY PlanAssumption
<1> HIDE DEF s, c
<1>4. FirstOf(MaxParallel, s) = [i \in 1..k |-> s[i]]
  BY DEF FirstOf
<1>5. k \in Nat \ {0} /\ k <= c
  BY <1>2, <1>3 DEF Least
<1>6. \A i \in 1..k : s[i] \in PoolRecords
  <2> TAKE i \in 1..k
  <2>1. i \in 1..c
    BY <1>2, <1>5
  <2> QED
    BY <1>2, <2>1 DEF Distinct
<1> HIDE DEF k
<1>7. FirstOf(MaxParallel, s) \in [1..k -> PoolRecords]
  BY <1>4, <1>6
<1> QED
  BY <1>5, <1>7 DEF s

\* What a path can take at its start: the least of what its hops can, at the rates
\* before them (route_start_capacity_raw)
LEMMA StartCapacityIsNat ==
    ASSUME market \in Markets
    PROVE  StartCapacity \in Nat
<1> DEFINE N == Len(market.path)
           few == [i \in DOMAIN market.path |-> FirstOf(MaxParallel, ByPrice(market.path[i].pools))]
           room(i) == Total([k \in DOMAIN few[i] |-> few[i][k].cap])
           rate[i \in 0..N] ==
              IF i = 0 THEN [n |-> 1, d |-> 1]
              ELSE [n |-> rate[i - 1].n * few[i][1].in, d |-> rate[i - 1].d * few[i][1].out]
           part(i) == (room(i) * rate[i - 1].n) \div rate[i - 1].d
           parts == {part(i) : i \in DOMAIN market.path}
<1>1. N \in Nat \ {0} /\ DOMAIN market.path = 1..N
  BY PathIs
<1>2. StartCapacity = Min(parts)
  BY DEF StartCapacity
<1>3. \A i \in 1..N : \E m \in Nat \ {0} : few[i] \in [1..m -> PoolRecords]
  <2> TAKE i \in 1..N
  <2>1. Distinct(market.path[i].pools) /\ market.path[i].pools # {}
    BY PathIs
  <2>2. few[i] = FirstOf(MaxParallel, ByPrice(market.path[i].pools))
    BY <1>1
  <2> HIDE DEF few
  <2> QED
    BY <2>1, <2>2, FewAre
<1> HIDE DEF N, few
<1>4. \A i \in 1..N : room(i) \in Nat /\ few[i][1].in \in Nat \ {0} /\ few[i][1].out \in Nat \ {0}
  <2> TAKE i \in 1..N
  <2>1. PICK m \in Nat \ {0} : few[i] \in [1..m -> PoolRecords]
    BY <1>3
  <2> DEFINE caps == [k \in 1..m |-> few[i][k].cap]
  <2>2. caps \in [1..m -> Nat]
    BY <2>1, PoolTypes
  <2>3. room(i) = Total(caps)
    BY <2>1
  <2> HIDE DEF caps
  <2>4. Total(caps) \in Nat
    BY <2>2, TotalIsNat
  <2>5. 1 \in 1..m
    BY <2>1
  <2>6. few[i][1] \in PoolRecords
    BY <2>1, <2>5
  <2> QED
    BY <2>3, <2>4, <2>6, PoolTypes
<1> HIDE DEF room
<1> DEFINE F == [i \in 1..N |-> [r \in Rates |-> [n |-> r.n * few[i][1].in, d |-> r.d * few[i][1].out]]]
<1>5. Rounds(Rates, [n |-> 1, d |-> 1], N, F)
  <2>1. [n |-> 1, d |-> 1] \in Rates
    BY DEF Rates
  <2>2. \A i \in 1..N, r \in Rates : [n |-> r.n * few[i][1].in, d |-> r.d * few[i][1].out] \in Rates
    <3> TAKE i \in 1..N, r \in Rates
    <3>1. /\ r.n \in Nat \ {0} /\ r.d \in Nat \ {0}
          /\ few[i][1].in \in Nat \ {0} /\ few[i][1].out \in Nat \ {0}
      BY <1>4 DEF Rates
    <3>2. \A a, b \in Nat \ {0} : a * b \in Nat \ {0}
      OBVIOUS
    <3>3. r.n * few[i][1].in \in Nat \ {0} /\ r.d * few[i][1].out \in Nat \ {0}
      BY <3>1, <3>2
    <3> QED
      BY <3>3 DEF Rates
  <2> QED
    BY <1>1, <2>1, <2>2 DEF Rounds
<1>6. \A i \in 1..N, r \in Rates : F[i][r] = [n |-> r.n * few[i][1].in, d |-> r.d * few[i][1].out]
  OBVIOUS
<1> HIDE DEF F
<1>7. PICK g : Values(Rates, [n |-> 1, d |-> 1], N, F, g)
  BY <1>5, LoopExists
<1>8. \A i \in 0..N : g[i] = IF i = 0 THEN [n |-> 1, d |-> 1]
                            ELSE [n |-> g[i - 1].n * few[i][1].in, d |-> g[i - 1].d * few[i][1].out]
  <2> TAKE i \in 0..N
  <2>1. CASE i = 0
    BY <1>7, <2>1 DEF Values
  <2>2. CASE i # 0
    <3>1. i \in 1..N /\ i - 1 \in 0..N
      BY <1>1, <2>2
    <3>2. g[i] = F[i][g[i - 1]] /\ g[i - 1] \in Rates
      BY <1>7, <3>1 DEF Values
    <3> QED
      BY <1>6, <2>2, <3>1, <3>2
  <2> QED
    BY <2>1, <2>2
<1>9. g = [i \in 0..N |-> IF i = 0 THEN [n |-> 1, d |-> 1]
                          ELSE [n |-> g[i - 1].n * few[i][1].in, d |-> g[i - 1].d * few[i][1].out]]
  <2>1. g = [i \in 0..N |-> g[i]]
    BY <1>7 DEF Values
  <2> QED
    BY <1>8, <2>1, Zenon
<1>10. rate = [i \in 0..N |-> IF i = 0 THEN [n |-> 1, d |-> 1]
                             ELSE [n |-> rate[i - 1].n * few[i][1].in, d |-> rate[i - 1].d * few[i][1].out]]
  BY <1>9, Zenon
<1> HIDE DEF rate
<1>11. rate[0] = [n |-> 1, d |-> 1] /\ \A i \in 1..N :
          rate[i] = [n |-> rate[i - 1].n * few[i][1].in, d |-> rate[i - 1].d * few[i][1].out]
  <2>1. \A i \in 0..N : rate[i] = IF i = 0 THEN [n |-> 1, d |-> 1]
                             ELSE [n |-> rate[i - 1].n * few[i][1].in, d |-> rate[i - 1].d * few[i][1].out]
    BY <1>10, Zenon
  <2>2. 0 \in 0..N /\ \A i \in 1..N : i \in 0..N /\ i # 0
    BY <1>1
  <2> QED
    BY <2>1, <2>2, Zenon
<1> DEFINE T == {i \in Nat : i <= N => rate[i] \in Rates}
<1>12. 0 \in T
  BY <1>11 DEF Rates
<1>13. ASSUME NEW i \in Nat, i \in T PROVE i + 1 \in T
  <2> SUFFICES ASSUME i + 1 <= N PROVE rate[i + 1] \in Rates
    OBVIOUS
  <2>1. i + 1 \in 1..N /\ (i + 1) - 1 = i /\ rate[i] \in Rates
    BY <1>1, <1>13
  <2>2. rate[i + 1] = F[i + 1][rate[i]]
    BY <1>6, <1>11, <2>1
  <2> QED
    BY <1>5, <2>1, <2>2 DEF Rounds
<1>14. Nat \subseteq T
  <2> HIDE DEF T
  <2> QED
    BY <1>12, <1>13, InductiveSet
<1>15. \A i \in 1..N : part(i) \in Nat
  <2> TAKE i \in 1..N
  <2>1. i - 1 \in Nat /\ i - 1 <= N
    BY <1>1
  <2>2. rate[i - 1] \in Rates
    BY <1>14, <2>1
  <2>3. room(i) \in Nat /\ rate[i - 1].n \in Nat /\ rate[i - 1].d \in Nat \ {0}
    BY <1>4, <2>2 DEF Rates
  <2> QED
    BY <2>3, ShareIsNat
<1> DEFINE f == [i \in 1..N |-> part(i)]
<1>16. f \in Surjection(1..N, parts)
  BY <1>1 DEF Surjection
<1>17. IsFiniteSet(parts)
  <2>1. IsFiniteSet(1..N)
    BY <1>1, FS_Interval
  <2> HIDE DEF f, parts
  <2> QED
    BY <1>16, <2>1, FS_Surjection
<1>18. parts \subseteq Nat /\ parts # {}
  <2>1. 1 \in 1..N
    BY <1>1
  <2> HIDE DEF part
  <2> QED
    BY <1>1, <1>15, <2>1
<1> HIDE DEF parts
<1>19. parts \subseteq Int
  BY <1>18
<1>20. Min(parts) \in parts
  BY <1>17, <1>18, <1>19, MinIs
<1> QED
  BY <1>2, <1>18, <1>20

LEMMA MaxAmountIsNat ==
    ASSUME market \in Markets
    PROVE  MaxAmount \in Nat
<1>1. MaxPosition \in Nat /\ StartCapacity \in Nat
  BY PlanAssumption, StartCapacityIsNat
<1> QED
  BY <1>1 DEF MaxAmount, Least

LEMMA ClampIs ==
    ASSUME NEW x \in Int, NEW a \in Int, NEW b \in Int, a <= b
    PROVE  Clamp(x, a, b) \in a..b
BY DEF Clamp, Most, Least

-----------------------------------------------------------------------------
(* Which amounts are tried *)

\* Amounts from a to b, in order
Between(s, a, b) ==
    /\ s \in Seq(a..b) /\ Len(s) \in Nat /\ DOMAIN s = 1..Len(s)
    /\ \A i \in 1..Len(s) : s[i] \in a..b
    /\ \A i, j \in 1..Len(s) : i < j => s[i] < s[j]

\* Amounts of a range, sorted, are amounts of that range in order.
LEMMA SortedBetween ==
    ASSUME NEW a \in Int, NEW b \in Int, NEW S, S \subseteq a..b
    PROVE  Between(Sorted(S), a, b) /\ ToSet(Sorted(S)) = S
<1>1. IsFiniteSet(S) /\ S \subseteq Int
  <2>1. IsFiniteSet(a..b) /\ a..b \subseteq Int
    BY FS_Interval
  <2> QED
    BY <2>1, FS_Subset
<1> DEFINE s == Sorted(S)
           c == Cardinality(S)
<1>2. /\ c \in Nat /\ DOMAIN s = 1..c /\ s \in Seq(S) /\ Len(s) = c /\ ToSet(s) = S
      /\ \A i, j \in 1..c : i < j => s[i] < s[j]
  BY <1>1, SortedHas
<1> HIDE DEF s, c
<1>3. s \in [1..c -> S]
  <2>1. Enumerates(s, S, Ascending(S))
    BY <1>1, SortedIs DEF s
  <2> QED
    BY <2>1 DEF Enumerates, c
<1>4. s \in [1..c -> a..b] /\ \A i \in 1..c : s[i] \in a..b
  BY <1>3
<1>5. s \in Seq(a..b)
  BY <1>2, <1>4, LenIs
<1> QED
  BY <1>2, <1>4, <1>5 DEF Between, s

LEMMA NothingBetween ==
    ASSUME NEW a, NEW b
    PROVE  Between(<<>>, a, b) /\ ToSet(<<>>) = {}
<1>1. <<>> \in Seq(a..b) /\ Len(<<>>) = 0 /\ DOMAIN <<>> = {}
  OBVIOUS
<1> QED
  BY <1>1 DEF Between, ToSet

\* Doubling the least amount stays above it, until it leaves the range.
LEMMA DoubledIs ==
    ASSUME market \in Markets, NEW n \in Nat, MinTrade <= MaxAmount
    PROVE  Doubled(n) \subseteq MinTrade..MaxAmount /\ MinTrade \in Doubled(n)
<1> DEFINE X == {y \in Nat : y >= MinTrade}
           F == [k \in 1..n |-> [y \in X |-> 2 * y]]
           double[k \in 0..n] == IF k = 0 THEN MinTrade ELSE 2 * double[k - 1]
<1>1. MinTrade \in Nat /\ MaxAmount \in Nat
  BY PlanAssumption, MaxAmountIsNat
<1>2. Doubled(n) = {double[k] : k \in 0..n} \cap 0..MaxAmount
  BY DEF Doubled
<1>3. Rounds(X, MinTrade, n, F)
  BY <1>1 DEF Rounds
<1>4. \A k \in 1..n, y \in X : F[k][y] = 2 * y
  OBVIOUS
<1> HIDE DEF F
<1>5. PICK g : Values(X, MinTrade, n, F, g)
  BY <1>3, LoopExists
<1>6. \A k \in 0..n : g[k] = IF k = 0 THEN MinTrade ELSE 2 * g[k - 1]
  <2> TAKE k \in 0..n
  <2>1. CASE k = 0
    BY <1>5, <2>1 DEF Values
  <2>2. CASE k # 0
    <3>1. k \in 1..n /\ k - 1 \in 0..n
      BY <2>2
    <3> HIDE DEF X
    <3>2. g[k] = F[k][g[k - 1]] /\ g[k - 1] \in X
      BY <1>5, <3>1 DEF Values
    <3> QED
      BY <1>4, <2>2, <3>1, <3>2
  <2> QED
    BY <2>1, <2>2
<1>7. g = [k \in 0..n |-> IF k = 0 THEN MinTrade ELSE 2 * g[k - 1]]
  <2>1. g = [k \in 0..n |-> g[k]]
    BY <1>5 DEF Values
  <2> QED
    BY <1>6, <2>1, Zenon
<1>8. double = [k \in 0..n |-> IF k = 0 THEN MinTrade ELSE 2 * double[k - 1]]
  BY <1>7, Zenon
<1> HIDE DEF double
<1>9. \A k \in 0..n : double[k] = IF k = 0 THEN MinTrade ELSE 2 * double[k - 1]
  BY <1>8, Zenon
<1> DEFINE T == {k \in Nat : k <= n => double[k] \in X}
<1>10. 0 \in T
  BY <1>1, <1>9
<1>11. ASSUME NEW k \in Nat, k \in T PROVE k + 1 \in T
  <2> SUFFICES ASSUME k + 1 <= n PROVE double[k + 1] \in X
    OBVIOUS
  <2>1. k + 1 \in 0..n /\ (k + 1) - 1 = k /\ k + 1 # 0 /\ double[k] \in X
    BY <1>11
  <2>2. double[k + 1] = 2 * double[k]
    BY <1>9, <2>1
  <2> QED
    BY <1>1, <2>1, <2>2
<1>12. Nat \subseteq T
  <2> HIDE DEF T
  <2> QED
    BY <1>10, <1>11, InductiveSet
<1>13. \A k \in 0..n : double[k] \in X
  BY <1>12
<1>14. 0 \in 0..n /\ double[0] = MinTrade
  BY <1>9
<1> QED
  BY <1>1, <1>2, <1>13, <1>14

LEMMA LadderIs ==
    ASSUME market \in Markets, MinTrade <= MaxAmount
    PROVE  Between(Ladder, MinTrade, MaxAmount) /\ Len(Ladder) # 0
<1>1. MinTrade \in Int /\ MaxAmount \in Int /\ MaxPosition \in Nat
  BY PlanAssumption, MaxAmountIsNat
<1> DEFINE S == Doubled(MaxPosition)
<1>2. S \subseteq MinTrade..MaxAmount /\ MinTrade \in S
  BY <1>1, DoubledIs
<1>3. Ladder = Sorted(S)
  BY DEF Ladder
<1> HIDE DEF S
<1>4. Between(Ladder, MinTrade, MaxAmount) /\ ToSet(Ladder) = S
  BY <1>1, <1>2, <1>3, SortedBetween
<1>5. Len(Ladder) # 0
  <2>1. DOMAIN Ladder # {}
    BY <1>2, <1>4 DEF ToSet
  <2>2. DOMAIN Ladder = 1..Len(Ladder)
    BY <1>4 DEF Between
  <2> QED
    BY <2>1, <2>2
<1> QED
  BY <1>4, <1>5

LEMMA LbAmountsAre ==
    ASSUME market \in Markets, MinTrade <= MaxAmount
    PROVE  Between(LbAmounts, 1, MaxAmount)
<1>1. MinTrade \in Nat \ {0} /\ MaxAmount \in Nat /\ LbPoints \in Nat
  BY PlanAssumption, MaxAmountIsNat
<1> DEFINE S == Doubled(LbPoints - 1)
<1>2. S \subseteq 1..MaxAmount
  <2>1. CASE LbPoints = 0
    <3>1. 0..(LbPoints - 1) = {}
      BY <2>1
    <3> QED
      BY <3>1 DEF Doubled
  <2>2. CASE LbPoints # 0
    <3>1. LbPoints - 1 \in Nat
      BY <1>1, <2>2
    <3>2. S \subseteq MinTrade..MaxAmount
      BY <3>1, DoubledIs
    <3> HIDE DEF S
    <3> QED
      BY <1>1, <3>2
  <2> QED
    BY <2>1, <2>2
<1>3. LbAmounts = Sorted(S \cup {MaxAmount})
  BY DEF LbAmounts
<1> HIDE DEF S
<1>4. S \cup {MaxAmount} \subseteq 1..MaxAmount
  BY <1>1, <1>2
<1>5. 1 \in Int /\ MaxAmount \in Int
  BY <1>1
<1> QED
  BY <1>3, <1>4, <1>5, SortedBetween

LEMMA RefinementPointsAre ==
    ASSUME market \in Markets, NEW c \in 1..MaxAmount
    PROVE  Between(RefinementPoints(c), 1, MaxAmount) /\ c \in ToSet(RefinementPoints(c))
<1>1. MaxAmount \in Nat
  BY MaxAmountIsNat
<1> DEFINE all == {c \div 2, (c * 3) \div 4, (c * 7) \div 8, c, (c * 9) \div 8, (c * 5) \div 4,
                   (c * 3) \div 2, c * 2}
<1>2. c \in all
  OBVIOUS
<1>3. RefinementPoints(c) = Sorted(all \cap 1..MaxAmount)
  BY DEF RefinementPoints
<1> HIDE DEF all
<1>4. all \cap 1..MaxAmount \subseteq 1..MaxAmount /\ 1 \in Int /\ MaxAmount \in Int
  BY <1>1
<1>5. /\ Between(RefinementPoints(c), 1, MaxAmount)
      /\ ToSet(RefinementPoints(c)) = all \cap 1..MaxAmount
  BY <1>3, <1>4, SortedBetween
<1> QED
  BY <1>2, <1>5

LEMMA DensePointsAre ==
    ASSUME NEW a \in Int, NEW b \in Int, NEW n
    PROVE  Between(DensePoints(a, b, n), a, b)
<1> DEFINE step == IF b - a <= n THEN 1 ELSE Most(1, (b - a) \div n)
           S == {x \in a..b : (x - a) % step = 0} \cup {b}
<1>1. DensePoints(a, b, n) = IF a > b THEN <<>> ELSE Sorted(S)
  BY DEF DensePoints
<1> HIDE DEF step
<1>2. a <= b => S \subseteq a..b
  OBVIOUS
<1> HIDE DEF S
<1>3. CASE a > b
  BY <1>1, <1>3, NothingBetween
<1>4. CASE ~ (a > b)
  <2>1. a <= b
    BY <1>4
  <2> QED
    BY <1>1, <1>2, <1>4, <2>1, SortedBetween
<1> QED
  BY <1>3, <1>4

LEMMA PointsAre ==
    ASSUME NEW c, NEW limit \in Nat, MinTrade <= limit, NEW target \in Nat
    PROVE  Between(PointsOf(c, target, limit), MinTrade, limit)
<1> DEFINE around == {y \in Around(target, Root(target)) : y > 0}
           S == {Clamp(x, MinTrade, limit) : x \in around} \cup {MinTrade, limit}
           none == c.n * Parts <= c.d * Cost \/ c.n * Parts <= Cost * (c.d + c.s * target)
<1>1. MinTrade \in Nat
  BY PlanAssumption
<1>2. PointsOf(c, target, limit) = IF none THEN <<>> ELSE Sorted(S)
  BY DEF PointsOf
<1> HIDE DEF none
<1>3. Root(target) \in Nat
  <2> DEFINE R == {r \in 0..target : r * r <= target}
  <2>1. R \in SUBSET (0..target) /\ IsFiniteSet(0..target)
    BY FS_Interval
  <2>2. 0 \in R
    OBVIOUS
  <2>3. Root(target) = Max(R)
    BY DEF Root
  <2> HIDE DEF R
  <2>4. IsFiniteSet(R) /\ R \subseteq Int /\ R # {}
    <3>1. IsFiniteSet(R)
      BY <2>1, FS_Subset
    <3>2. R \subseteq Int
      BY <2>1
    <3> QED
      BY <2>2, <3>1, <3>2
  <2>5. Max(R) \in R
    BY <2>4, MaxIs
  <2>6. Max(R) \in 0..target
    BY <2>1, <2>5
  <2> QED
    BY <2>3, <2>6
<1>4. \A x \in Around(target, Root(target)) : x \in Int
  <2> DEFINE root == Root(target)
  <2>1. root \in Nat
    BY <1>3
  <2> HIDE DEF root
  <2>2. Most(1, root) \in Int
    BY <2>1 DEF Most
  <2>3. \A x \in {target - Most(1, root), target + Most(1, root)} : x \in Int
    BY <2>2
  <2>4. \A k \in {4, 6, 7, 8, 9, 10, 12, 16} : (target * k) \div 8 \in Int
    <3> TAKE k \in {4, 6, 7, 8, 9, 10, 12, 16}
    <3>1. k \in Nat
      OBVIOUS
    <3> QED
      BY <3>1
  <2> QED
    BY <2>3, <2>4 DEF Around, root
<1>5. \A x \in around : Clamp(x, MinTrade, limit) \in MinTrade..limit
  <2> TAKE x \in around
  <2>1. x \in Int
    BY <1>4
  <2>2. MinTrade \in Int /\ limit \in Int
    BY <1>1
  <2> HIDE DEF around
  <2> QED
    BY <2>1, <2>2, ClampIs
<1> HIDE DEF around
<1>6. S \subseteq MinTrade..limit
  BY <1>1, <1>5
<1> HIDE DEF S
<1>7. MinTrade \in Int /\ limit \in Int
  BY <1>1
<1>8. Between(Sorted(S), MinTrade, limit)
  BY <1>6, <1>7, SortedBetween
<1>9. Between(<<>>, MinTrade, limit)
  BY NothingBetween, Zenon
<1> QED
  BY <1>2, <1>8, <1>9, Zenon

LEMMA FastPointsAre ==
    ASSUME market \in Markets, MinTrade <= MaxAmount
    PROVE  Between(FastPoints, MinTrade, MaxAmount)
<1> DEFINE limit == MaxAmount
           target == Target(Curve, limit)
           S == {x \in 0..limit : x = 0 \/ Pays(Curve, x)}
<1>1. limit \in Nat /\ MinTrade \in Nat
  BY PlanAssumption, MaxAmountIsNat
<1>2. target = Clamp(Max(S), MinTrade, limit)
  BY DEF Target
<1>3. \/ FastPoints = <<>>
      \/ FastPoints = PointsOf(Curve, target, limit)
  BY DEF FastPoints
<1> HIDE DEF limit
<1>4. Max(S) \in Int
  <2>1. S \in SUBSET (0..limit) /\ IsFiniteSet(0..limit)
    BY <1>1, FS_Interval
  <2>2. 0 \in S
    BY <1>1
  <2> HIDE DEF S
  <2>3. IsFiniteSet(S) /\ S \subseteq Int /\ S # {}
    <3>1. IsFiniteSet(S)
      BY <2>1, FS_Subset
    <3>2. S \subseteq Int
      BY <2>1
    <3> QED
      BY <2>2, <3>1, <3>2
  <2>4. Max(S) \in S
    BY <2>3, MaxIs
  <2> QED
    BY <2>3, <2>4
<1> HIDE DEF S, target
<1>5. MinTrade <= limit
  BY DEF limit
<1>6. target \in Nat
  <2>1. target \in MinTrade..limit
    BY <1>1, <1>2, <1>4, <1>5, ClampIs
  <2> QED
    BY <1>1, <2>1
<1>7. Between(FastPoints, MinTrade, limit)
  BY <1>1, <1>3, <1>5, <1>6, PointsAre, NothingBetween
<1> QED
  BY <1>7 DEF limit

LEMMA InRangeIs ==
    ASSUME market \in Markets, MinTrade <= MaxAmount, NEW x \in Int
    PROVE  InRange(x) \in 1..MaxAmount
<1> DEFINE M == MaxAmount
<1>1. MinTrade \in Nat \ {0} /\ M \in Nat /\ MinTrade <= M
  BY PlanAssumption, MaxAmountIsNat
<1>2. InRange(x) = Clamp(x, MinTrade, M)
  BY DEF InRange
<1> HIDE DEF M
<1>3. MinTrade \in Int /\ M \in Int
  BY <1>1
<1>4. InRange(x) \in MinTrade..M
  BY <1>1, <1>2, <1>3, ClampIs
<1>5. InRange(x) \in 1..M
  BY <1>1, <1>4
<1> QED
  BY <1>5 DEF M

\* The amounts verification asks about can be taken.
LEMMA VerificationAmountsAre ==
    ASSUME market \in Markets, MinTrade <= MaxAmount, NEW c \in Nat, NEW n \in Nat
    PROVE  VerificationAmounts(c, n) \in Seq(1..MaxAmount)
<1> DEFINE S == 1..MaxAmount
           X == Seq(S)
           centre == InRange(c)
           percent == <<85, 115, 70, 130, 150, 50>>
           next(k) == InRange((centre * percent[k]) \div 100)
           After(h, k) == IF Len(h) >= n \/ next(k) \in ToSet(h) THEN h ELSE Append(h, next(k))
           F == [k \in 1..6 |-> [h \in X |-> After(h, k)]]
           amounts[k \in 0..6] ==
              LET before == amounts[k - 1]
                  x == InRange((centre * percent[k]) \div 100)
              IN  IF k = 0 THEN <<centre>>
                  ELSE IF Len(before) >= n \/ x \in ToSet(before) THEN before ELSE Append(before, x)
<1>1. VerificationAmounts(c, n) = amounts[6]
  BY DEF VerificationAmounts
<1>2. MaxAmount \in Nat
  BY MaxAmountIsNat
<1>3. centre \in S
  <2>1. c \in Int
    OBVIOUS
  <2> QED
    BY <2>1, InRangeIs
<1>4. \A k \in 1..6 : next(k) \in S
  <2> TAKE k \in 1..6
  <2>1. percent[k] \in Nat
    BY SMT
  <2> DEFINE p == percent[k]
  <2>2. centre \in Nat /\ p \in Nat
    BY <1>2, <1>3, <2>1
  <2> HIDE DEF centre, p
  <2>3. (centre * p) \div 100 \in Int
    <3>1. centre * p \in Int
      BY <2>2
    <3> QED
      BY <3>1
  <2>4. InRange((centre * p) \div 100) \in 1..MaxAmount
    BY <2>3, InRangeIs
  <2> QED
    BY <2>4 DEF centre, p
<1> HIDE DEF centre, percent
<1>5. \A k \in 1..6, h \in X : After(h, k) \in X
  <2> TAKE k \in 1..6, h \in X
  <2>1. next(k) \in S
    BY <1>4
  <2> HIDE DEF next, S
  <2> QED
    BY <2>1
<1>6. <<centre>> \in X
  <2> HIDE DEF S
  <2> QED
    BY <1>3
<1> HIDE DEF X
<1>7. Rounds(X, <<centre>>, 6, F)
  <2> HIDE DEF After
  <2> QED
    BY <1>5, <1>6 DEF Rounds
<1>8. \A k \in 1..6, h \in X : F[k][h] = After(h, k)
  OBVIOUS
<1> HIDE DEF F
<1>9. PICK g : Values(X, <<centre>>, 6, F, g)
  BY <1>7, LoopExists
<1>10. \A k \in 0..6 : g[k] = IF k = 0 THEN <<centre>> ELSE After(g[k - 1], k)
  <2> TAKE k \in 0..6
  <2>1. CASE k = 0
    BY <1>9, <2>1 DEF Values
  <2>2. CASE k # 0
    <3>1. k \in 1..6 /\ k - 1 \in 0..6
      BY <2>2
    <3>2. g[k] = F[k][g[k - 1]] /\ g[k - 1] \in X
      BY <1>9, <3>1 DEF Values
    <3> HIDE DEF After
    <3> QED
      BY <1>8, <2>2, <3>1, <3>2
  <2> QED
    BY <2>1, <2>2
<1>11. g = [k \in 0..6 |-> LET before == g[k - 1]
                               x == InRange((centre * percent[k]) \div 100)
                           IN  IF k = 0 THEN <<centre>>
                               ELSE IF Len(before) >= n \/ x \in ToSet(before) THEN before
                                    ELSE Append(before, x)]
  <2>1. g = [k \in 0..6 |-> g[k]]
    BY <1>9 DEF Values
  <2> QED
    BY <1>10, <2>1, Zenon
<1>12. amounts = [k \in 0..6 |-> LET before == amounts[k - 1]
                                     x == InRange((centre * percent[k]) \div 100)
                                 IN  IF k = 0 THEN <<centre>>
                                     ELSE IF Len(before) >= n \/ x \in ToSet(before) THEN before
                                          ELSE Append(before, x)]
  BY <1>11, Zenon
<1> HIDE DEF amounts
<1>13. /\ amounts[0] = <<centre>>
       /\ \A k \in 1..6 : amounts[k] = After(amounts[k - 1], k)
  <2>1. \A k \in 0..6 : amounts[k] = IF k = 0 THEN <<centre>> ELSE After(amounts[k - 1], k)
    BY <1>12, Zenon
  <2>2. 0 \in 0..6 /\ \A k \in 1..6 : k \in 0..6 /\ k # 0
    OBVIOUS
  <2> HIDE DEF After
  <2> QED
    BY <2>1, <2>2, Zenon
<1> HIDE DEF After
<1>14. \A k \in 1..6 : amounts[k - 1] \in X => amounts[k] \in X
  BY <1>5, <1>13
<1>15. amounts[0] \in X
  BY <1>6, <1>13
<1>16. amounts[6] \in X
  BY <1>14, <1>15
<1> QED
  BY <1>1, <1>16 DEF X, S

-----------------------------------------------------------------------------
(* The better of two plans *)

\* Of a sequence, what FirstGreatest chooses
LEMMA FirstOfAll ==
    ASSUME NEW n \in Nat, NEW worth \in [1..(n + 1) -> Nat]
    PROVE  /\ FirstGreatest(worth) \in 1..(n + 1)
           /\ \A j \in 1..(n + 1) : worth[j] <= worth[FirstGreatest(worth)]
           /\ FirstGreatest(worth) # 1 => worth[FirstGreatest(worth)] > worth[1]
<1> DEFINE D == 1..(n + 1)
           i == FirstGreatest(worth)
<1>1. IsFiniteSet(D)
  BY FS_Interval
<1>2. D \subseteq Int /\ D # {} /\ worth \in [D -> Int] /\ 1 \in D
  <2>1. D \subseteq Int /\ 1 \in D
    OBVIOUS
  <2>2. worth \in [D -> Nat]
    OBVIOUS
  <2> HIDE DEF D
  <2>3. worth \in [D -> Int]
    BY <2>2
  <2> QED
    BY <2>1, <2>3
<1>3. worth \in [D -> Nat] /\ D \subseteq Nat /\ \A j \in D : j >= 1
  OBVIOUS
<1> HIDE DEF D
<1>4. /\ i \in D /\ \A j \in D : worth[i] >= worth[j]
      /\ \A j \in D : j < i => worth[i] > worth[j]
  BY <1>1, <1>2, FirstGreatestIs
<1> HIDE DEF i
<1>5. i # 1 => 1 < i
  BY <1>3, <1>4
<1>6. \A j \in D : worth[j] <= worth[i]
  BY <1>3, <1>4
<1> QED
  BY <1>2, <1>4, <1>5, <1>6 DEF i, D

\* What the plan for x earns, and nothing without a plan
Gains(f, x) == IF x = 0 THEN 0 ELSE f[x]

\* t is the best of b and of the amounts, f being what each earns.
IsBest(t, f, b, amounts) ==
    /\ t = b \/ t \in ToSet(amounts)
    /\ \A x \in ToSet(amounts) \cup {b} : Gains(f, x) <= Gains(f, t)
    /\ t # b => Gains(f, t) > Gains(f, b)

\* better_plan keeps the best of what it is given.
LEMMA BetterIs ==
    ASSUME NEW S, NEW b, NEW amounts \in Seq(S),
           \A x \in S \cup {b} : Gains(seen', x) \in Nat
    PROVE  IsBest(Better(b, amounts), seen', b, amounts)
<1> DEFINE all == <<b>> \o amounts
           n == Len(amounts)
           f == seen'
           worth == [i \in DOMAIN all |-> IF all[i] = 0 THEN 0 ELSE f[all[i]]]
           t == FirstGreatest(worth)
<1>1. n \in Nat /\ DOMAIN all = 1..(n + 1) /\ all[1] = b /\ DOMAIN amounts = 1..n
  OBVIOUS
<1>2. \A i \in 1..n : all[i + 1] = amounts[i] /\ amounts[i] \in S
  OBVIOUS
<1>3. \A i \in 1..(n + 1) : i = 1 \/ (i - 1 \in 1..n /\ (i - 1) + 1 = i)
  BY <1>1
<1>4. Better(b, amounts) = all[t]
  BY DEF Better
<1>5. \A x \in S \cup {b} : Gains(f, x) \in Nat
  OBVIOUS
<1> HIDE DEF all, n, f
<1>6. \A i \in 1..(n + 1) : all[i] = b \/ all[i] \in ToSet(amounts) \cap S
  <2> TAKE i \in 1..(n + 1)
  <2>1. CASE i = 1
    BY <1>1, <2>1
  <2>2. CASE i # 1
    <3>1. i - 1 \in 1..n /\ all[i] = amounts[i - 1]
      BY <1>2, <1>3, <2>2
    <3> QED
      BY <1>1, <1>2, <3>1 DEF ToSet
  <2> QED
    BY <2>1, <2>2
<1>7. \A i \in 1..(n + 1) : worth[i] = Gains(f, all[i]) /\ worth[i] \in Nat
  BY <1>1, <1>5, <1>6 DEF Gains
<1>8. worth \in [1..(n + 1) -> Nat]
  BY <1>1, <1>7
<1> HIDE DEF worth
<1>9. /\ t \in 1..(n + 1) /\ \A j \in 1..(n + 1) : worth[j] <= worth[t]
      /\ t # 1 => worth[t] > worth[1]
  BY <1>1, <1>8, FirstOfAll
<1> HIDE DEF t
<1>10. \A x \in ToSet(amounts) \cup {b} : \E j \in 1..(n + 1) : all[j] = x
  <2> TAKE x \in ToSet(amounts) \cup {b}
  <2>1. CASE x = b
    BY <1>1, <2>1
  <2>2. CASE x \in ToSet(amounts)
    <3>1. PICK i \in 1..n : amounts[i] = x
      BY <1>1, <2>2 DEF ToSet
    <3>2. i + 1 \in 1..(n + 1) /\ all[i + 1] = x
      BY <1>1, <1>2, <3>1
    <3> QED
      BY <3>2
  <2> QED
    BY <2>1, <2>2
<1>11. \A x \in ToSet(amounts) \cup {b} : Gains(f, x) <= Gains(f, all[t])
  <2> TAKE x \in ToSet(amounts) \cup {b}
  <2>1. PICK j \in 1..(n + 1) : all[j] = x
    BY <1>10
  <2>2. worth[j] <= worth[t]
    BY <1>9
  <2>3. worth[j] = Gains(f, x) /\ worth[t] = Gains(f, all[t])
    BY <1>7, <1>9, <2>1
  <2> QED
    BY <2>2, <2>3
<1>12. all[t] # b => Gains(f, all[t]) > Gains(f, b)
  <2> SUFFICES ASSUME all[t] # b PROVE Gains(f, all[t]) > Gains(f, b)
    OBVIOUS
  <2>1. t # 1 /\ 1 \in 1..(n + 1)
    BY <1>1
  <2>2. worth[t] = Gains(f, all[t]) /\ worth[1] = Gains(f, b)
    BY <1>1, <1>7, <1>9, <2>1
  <2> QED
    BY <1>9, <2>1, <2>2
<1>13. all[t] = b \/ all[t] \in ToSet(amounts)
  BY <1>6, <1>9
<1>14. IsBest(all[t], f, b, amounts)
  BY <1>11, <1>12, <1>13 DEF IsBest
<1> QED
  BY <1>4, <1>14 DEF f

\* The best of some plans is one of them, or there is none.
LEMMA BestPlanIs ==
    ASSUME NEW n \in Nat, NEW plans, DOMAIN plans = 1..n, plans \in Seq({plans[i] : i \in 1..n}),
           \A i \in 1..n : plans[i] = NoAnswer \/ Earns(plans[i])
    PROVE  BestPlan(plans) = NoAnswer \/ \E i \in 1..n : BestPlan(plans) = plans[i]
<1> DEFINE all == <<NoAnswer>> \o plans
           worth == [i \in DOMAIN all |-> all[i].profit]
           t == FirstGreatest(worth)
<1>1. Len(plans) = n
  OBVIOUS
<1>2. DOMAIN all = 1..(n + 1) /\ all[1] = NoAnswer /\ \A i \in 1..n : all[i + 1] = plans[i]
  BY <1>1
<1>3. BestPlan(plans) = all[t]
  BY DEF BestPlan
<1> HIDE DEF all
<1>4. \A i \in 1..(n + 1) : i = 1 \/ (i - 1 \in 1..n /\ (i - 1) + 1 = i)
  OBVIOUS
<1>5. \A i \in 1..(n + 1) : all[i] = NoAnswer \/ \E j \in 1..n : all[i] = plans[j]
  BY <1>2, <1>4
<1>6. NoAnswer.profit \in Nat /\ \A i \in 1..n : plans[i].profit \in Nat
  BY DEF NoAnswer, Earns
<1>7. worth \in [1..(n + 1) -> Nat]
  BY <1>2, <1>5, <1>6
<1> HIDE DEF worth
<1>8. t \in 1..(n + 1)
  BY <1>7, FirstOfAll
<1> QED
  BY <1>3, <1>5, <1>8

-----------------------------------------------------------------------------
(* The inductive invariant *)

\* What an answer must be
Sound(p) == p # NoAnswer => Earns(p) /\ p.amount \in 1..MaxAmount

\* While the market stays, so do the range of the search,
LEMMA SameRange ==
    ASSUME market' = market
    PROVE  MaxAmount' = MaxAmount /\ Ladder' = Ladder /\ OnlyLb' = OnlyLb
<1>1. MaxAmount' = MaxAmount
  BY DEF MaxAmount, StartCapacity
<1>2. Ladder' = Ladder
  BY <1>1 DEF Ladder, Doubled
<1>3. OnlyLb' = OnlyLb
  BY DEF OnlyLb
<1> QED
  BY <1>1, <1>2, <1>3

\* its fees,
LEMMA SameFees ==
    ASSUME market' = market
    PROVE  Cost' = Cost /\ \A x : FlashFee(x)' = FlashFee(x)
BY DEF Cost, FlashFee, FullFlash

\* the amounts of its closed form
LEMMA SameFastPoints ==
    ASSUME market' = market
    PROVE  FastPoints' = FastPoints
<1>1. MaxAmount' = MaxAmount /\ Cost' = Cost
  BY SameRange, SameFees
<1>2. Curve' = Curve
  BY DEF Curve
<1> QED
  BY <1>1, <1>2 DEF FastPoints, PointsOf, Target, Pays

\* and every quote.
LEMMA SameQuote ==
    ASSUME market' = market, NEW x
    PROVE  QuoteCandidate(x, "local")' = QuoteCandidate(x, "local")
BY DEF QuoteCandidate, PlanOf, Settled, Settle, FlashFee, FullFlash

\* What every quote of the local mathematics says of its amount
Quoted(f) == \A x \in DOMAIN f : x \in 1..MaxAmount /\ f[x] = QuoteCandidate(x, "local").profit

\* Amounts that have been quoted, none of which earns more than w
Beaten(S, w) == \A x \in S : x \in DOMAIN seen /\ seen[x] <= w

FastSet == ToSet(FastPoints)
LadderSet == ToSet(Ladder)

\* Nothing that the answer speaks for earns more than it does.
KeepsTried(p) ==
    MinTrade <= MaxAmount =>
        Beaten(IF p = NoAnswer THEN LadderSet
               ELSE FastSet \cup (IF taken = 0 THEN {} ELSE LadderSet), p.profit)

\* Each hop of a plan is within what its pools can take.
HopsFit(p) == \A i \in DOMAIN p.hops : FitsHop(p.hops[i], p.hops[i].in)

QuotedInv ==
    /\ Quoted(seen)
    /\ best # 0 => best \in DOMAIN seen
    /\ seeds \subseteq DOMAIN seen

BracketInv ==
    /\ low \in Nat /\ high \in Nat /\ low <= high
    /\ stage \in {"fast", "wide"} => low >= 1 /\ high <= MaxAmount

StageInv ==
    /\ market \in Markets
    /\ stage \in {"start", "fast", "ladder", "seed", "wide", "probe", "verify", "done", "failed"}
    /\ stage \in {"fast", "ladder", "seed", "wide", "probe", "verify"} => MinTrade <= MaxAmount
    /\ stage \in {"probe", "verify"} => verify
    /\ stage \in {"fast", "ladder", "seed", "wide"} => ~ OnlyLb
    /\ taken \in Nat
    /\ stage \in {"start", "fast", "ladder", "probe"} => taken = 0
    /\ stage = "wide" => taken # 0

SearchInv ==
    /\ stage \in {"fast", "seed", "wide"} => best # 0
    /\ stage = "fast" => Beaten(FastSet, seen[best]) /\ seen[best] > 0
    /\ stage = "ladder" => FastSet \subseteq DOMAIN seen
    /\ stage \in {"seed", "wide"} => FastSet \cup LadderSet \subseteq DOMAIN seen
    /\ stage = "seed" /\ taken = 0 => seeds = {x \in DOMAIN seen : seen[x] > 0} /\ seen[best] > 0
    /\ stage \in {"seed", "wide"} /\ taken # 0 => Beaten(FastSet \cup LadderSet, seen[best])

AnswerInv ==
    /\ Sound(answer)
    /\ stage = "probe" => answer # NoAnswer
    /\ stage = "done" /\ ~ verify /\ ~ OnlyLb => HopsFit(answer) /\ KeepsTried(answer)

PlanInv == QuotedInv /\ BracketInv /\ StageInv /\ SearchInv /\ AnswerInv

LEMMA SameInvariants ==
    ASSUME market' = market
    PROVE  /\ FastSet' = FastSet /\ LadderSet' = LadderSet
           /\ Quoted(seen') => Quoted(seen)'
           /\ Sound(answer') => Sound(answer)'
<1>1. /\ MaxAmount' = MaxAmount /\ Ladder' = Ladder /\ FastPoints' = FastPoints
      /\ \A x : FlashFee(x)' = FlashFee(x)
      /\ \A x : QuoteCandidate(x, "local")' = QuoteCandidate(x, "local")
  BY SameRange, SameFastPoints, SameFees, SameQuote
<1>2. FastSet' = FastSet /\ LadderSet' = LadderSet
  BY <1>1 DEF FastSet, LadderSet
<1>3. Quoted(seen') => Quoted(seen)'
  BY <1>1 DEF Quoted
<1>4. Sound(answer') => Sound(answer)'
  BY <1>1 DEF Sound, Earns, FlashFee, FullFlash
<1> QED
  BY <1>2, <1>3, <1>4

\* The quote of an amount that can be taken
LEMMA QuoteIs ==
    ASSUME market \in Markets, NEW x \in 1..MaxAmount
    PROVE  /\ QuoteCandidate(x, "local").profit \in Nat
           /\ Sound(QuoteCandidate(x, "local"))
           /\ \A i \in DOMAIN QuoteCandidate(x, "local").hops :
                 LET hop == QuoteCandidate(x, "local").hops[i]
                 IN  FitsHop(hop, hop.in)
<1> DEFINE p == QuoteCandidate(x, "local")
<1>1. x \in Nat \ {0}
  BY MaxAmountIsNat
<1>2. /\ AnswerFor(p, x)
      /\ \A i \in DOMAIN p.hops : LET hop == p.hops[i] IN FitsHop(hop, hop.in)
  BY <1>1, CandidateIs
<1> HIDE DEF p
<1>3. p = NoAnswer \/ (Earns(p) /\ p.amount = x)
  BY <1>2 DEF AnswerFor
<1>4. p.profit \in Nat
  BY <1>3 DEF NoAnswer, Earns
<1>5. Sound(p)
  BY <1>3 DEF Sound
<1> QED
  BY <1>2, <1>4, <1>5 DEF p

\* Evaluating amounts adds their quotes and changes none.
LEMMA EvaluatedIs ==
    ASSUME market \in Markets, Quoted(seen), NEW S, S \subseteq 1..MaxAmount, seen' = Evaluated(S)
    PROVE  /\ DOMAIN seen' = DOMAIN seen \cup S /\ Quoted(seen')
           /\ \A x \in DOMAIN seen : seen'[x] = seen[x]
           /\ \A x \in DOMAIN seen' : seen'[x] \in Nat /\ x \in 1..MaxAmount
<1>1. /\ DOMAIN seen' = DOMAIN seen \cup S
      /\ \A x \in DOMAIN seen' : seen'[x] = Profit(x)
  BY DEF Evaluated
<1>2. \A x \in DOMAIN seen : seen'[x] = seen[x]
  BY <1>1 DEF Profit
<1>3. \A x \in DOMAIN seen' : x \in 1..MaxAmount /\ seen'[x] = QuoteCandidate(x, "local").profit
  BY <1>1 DEF Profit, Quoted
<1>4. \A x \in DOMAIN seen' : seen'[x] \in Nat
  BY <1>3, QuoteIs
<1> QED
  BY <1>1, <1>2, <1>3, <1>4 DEF Quoted

\* The best of sound plans is sound.
LEMMA BestPlanIsSound ==
    ASSUME market \in Markets, NEW amounts, amounts \in Seq(1..MaxAmount), NEW plans,
           plans = [i \in DOMAIN amounts |-> plans[i]],
           \A i \in DOMAIN amounts : AnswerFor(plans[i], amounts[i])
    PROVE  Sound(BestPlan(plans))
<1> DEFINE n == Len(amounts)
           P == {plans[i] : i \in 1..n}
<1>1. n \in Nat /\ DOMAIN amounts = 1..n /\ \A i \in 1..n : amounts[i] \in 1..MaxAmount
  <2> DEFINE S == 1..MaxAmount
  <2>1. amounts \in Seq(S)
    OBVIOUS
  <2> HIDE DEF S
  <2>2. Len(amounts) \in Nat /\ DOMAIN amounts = 1..Len(amounts)
        /\ \A i \in 1..Len(amounts) : amounts[i] \in S
    BY <2>1
  <2> QED
    BY <2>2 DEF S
<1>2. DOMAIN plans = 1..n /\ \A i \in 1..n : plans[i] = NoAnswer \/ Earns(plans[i])
  BY <1>1 DEF AnswerFor
<1>3. plans \in Seq(P)
  <2>1. plans = [i \in 1..n |-> plans[i]] /\ \A i \in 1..n : plans[i] \in P
    BY <1>1
  <2> HIDE DEF P, n
  <2>2. plans \in [1..n -> P]
    BY <2>1
  <2> QED
    BY <1>1, <2>2, LenIs
<1>4. \A i \in 1..n : Sound(plans[i])
  BY <1>1 DEF AnswerFor, Sound
<1>5. BestPlan(plans) = NoAnswer \/ \E i \in 1..n : BestPlan(plans) = plans[i]
  <2> HIDE DEF n
  <2> QED
    BY <1>1, <1>2, <1>3, BestPlanIs DEF P
<1> QED
  BY <1>4, <1>5 DEF Sound

-----------------------------------------------------------------------------
(* The steps that only answer *)

LEMMA NoAnswerFits ==
    HopsFit(NoAnswer) /\ Sound(NoAnswer)
BY DEF HopsFit, NoAnswer, Sound

\* A step that answers and leaves the search alone keeps the invariant.
LEMMA AnsweringKeeps ==
    ASSUME PlanInv, UNCHANGED <<market, verify, seen, best, low, high, rounds, seeds, taken>>,
           stage' \in {"verify", "done", "failed"},
           stage' = "verify" => verify /\ MinTrade <= MaxAmount,
           Sound(answer'),
           stage' = "done" /\ ~ verify /\ ~ OnlyLb => HopsFit(answer') /\ KeepsTried(answer')
    PROVE  PlanInv'
<1>1. market' = market
  OBVIOUS
<1>2. /\ FastSet' = FastSet /\ LadderSet' = LadderSet /\ MaxAmount' = MaxAmount /\ OnlyLb' = OnlyLb
      /\ Quoted(seen)' /\ Sound(answer)'
  BY <1>1, SameInvariants, SameRange DEF PlanInv, QuotedInv
<1>3. QuotedInv'
  BY <1>2 DEF PlanInv, QuotedInv
<1>4. BracketInv'
  BY DEF PlanInv, BracketInv
<1>5. StageInv'
  BY <1>2 DEF PlanInv, StageInv
<1>6. SearchInv'
  BY DEF SearchInv
<1>7. AnswerInv'
  <2>1. HopsFit(answer') => HopsFit(answer)'
    BY DEF HopsFit
  <2>2. KeepsTried(answer') => KeepsTried(answer)'
    BY <1>1, <1>2 DEF KeepsTried, Beaten
  <2> QED
    BY <1>2, <2>1, <2>2 DEF AnswerInv
<1> QED
  BY <1>3, <1>4, <1>5, <1>6, <1>7 DEF PlanInv

LEMMA NoRangeKeeps ==
    ASSUME PlanInv, NoRange
    PROVE  PlanInv'
<1>1. market \in Markets /\ MinTrade > MaxAmount /\ MinTrade \in Nat
  BY PlanAssumption DEF PlanInv, StageInv, NoRange
<1>2. KeepsTried(NoAnswer)
  BY <1>1, MaxAmountIsNat DEF KeepsTried
<1> QED
  BY <1>2, NoAnswerFits, AnsweringKeeps DEF NoRange, Answer

LEMMA QuoteFailsKeeps ==
    ASSUME PlanInv, QuoteFails
    PROVE  PlanInv'
BY NoAnswerFits, AnsweringKeeps DEF QuoteFails

LEMMA SearchLbKeeps ==
    ASSUME PlanInv, SearchLb
    PROVE  PlanInv'
<1> DEFINE source == IF HasQuoter THEN "rpc" ELSE "local"
           s == LbAmounts
           plans == [i \in DOMAIN s |-> QuoteLbDirect(s[i], source)]
<1>1. market \in Markets /\ MinTrade <= MaxAmount
  BY DEF SearchLb, PlanInv, StageInv
<1>2. Between(s, 1, MaxAmount) /\ MaxAmount \in Nat
  BY <1>1, LbAmountsAre, MaxAmountIsNat
<1>3. answer' = BestPlan(plans) /\ stage' = "done" /\ OnlyLb
  BY DEF SearchLb, Answer
<1>4. UNCHANGED <<market, verify, seen, best, low, high, rounds, seeds, taken>>
  BY DEF SearchLb
<1> HIDE DEF s, source
<1>5. s \in Seq(1..MaxAmount) /\ \A i \in DOMAIN s : s[i] \in Nat \ {0}
  BY <1>2 DEF Between
<1>6. \A i \in DOMAIN s : AnswerFor(plans[i], s[i])
  BY <1>1, <1>5, LbDirectIs
<1>7. plans = [i \in DOMAIN s |-> plans[i]]
  OBVIOUS
<1> HIDE DEF plans
<1>8. Sound(answer')
  BY <1>1, <1>3, <1>5, <1>6, <1>7, BestPlanIsSound
<1> QED
  BY <1>3, <1>4, <1>8, AnsweringKeeps

LEMMA BestRequotedIsSound ==
    ASSUME market \in Markets, MinTrade <= MaxAmount, Sound(answer), answer # NoAnswer,
           NEW n \in Nat, NEW anew
    PROVE  Sound(BestRequoted(n, anew))
<1> DEFINE s == VerificationAmounts(answer.amount, n)
           plans == [i \in DOMAIN s |-> Requote(s[i], anew)]
<1>1. answer.amount \in Nat /\ Earns(answer) /\ MaxAmount \in Nat
  BY MaxAmountIsNat DEF Sound, Earns
<1>2. s \in Seq(1..MaxAmount)
  BY <1>1, VerificationAmountsAre
<1>3. BestRequoted(n, anew) = BestPlan(plans)
  BY DEF BestRequoted
<1> HIDE DEF s
<1>4. \A i \in DOMAIN s : s[i] \in Nat \ {0}
  <2> DEFINE S == 1..MaxAmount
  <2>1. S \subseteq Nat \ {0} /\ s \in Seq(S)
    BY <1>1, <1>2
  <2> HIDE DEF S
  <2>2. DOMAIN s = 1..Len(s) /\ \A i \in 1..Len(s) : s[i] \in S
    BY <2>1
  <2> QED
    BY <2>1, <2>2
<1>5. \A i \in DOMAIN s : AnswerFor(plans[i], s[i])
  <2> TAKE i \in DOMAIN s
  <2>1. s[i] \in Nat \ {0}
    BY <1>4
  <2>2. AnswerFor(QuoteCandidate(s[i], "rpc"), s[i])
    BY <2>1, CandidateIs
  <2>3. AnswerFor(QuoteExisting(answer, s[i], "rpc"), s[i])
    BY <1>1, <2>1, ExistingIs
  <2> QED
    BY <2>2, <2>3 DEF Requote
<1>6. plans = [i \in DOMAIN s |-> plans[i]]
  OBVIOUS
<1> HIDE DEF plans
<1> QED
  BY <1>2, <1>3, <1>5, <1>6, BestPlanIsSound

LEMMA ProbeKeeps ==
    ASSUME PlanInv, Probe
    PROVE  PlanInv'
<1>1. /\ market \in Markets /\ MinTrade <= MaxAmount /\ verify
      /\ Sound(answer) /\ answer # NoAnswer
  BY DEF Probe, PlanInv, StageInv, AnswerInv
<1>2. Probes \in Nat
  BY PlanAssumption
<1>3. Sound(answer')
  BY <1>1, <1>2, BestRequotedIsSound DEF Probe
<1> QED
  BY <1>1, <1>3, AnsweringKeeps DEF Probe

LEMMA VerifyKeeps ==
    ASSUME PlanInv, Verify
    PROVE  PlanInv'
<1>1. market \in Markets /\ MinTrade <= MaxAmount /\ verify /\ Sound(answer)
  BY DEF Verify, PlanInv, StageInv, AnswerInv
<1>2. Refinements \in Nat
  BY PlanAssumption
<1>3. UsesVerifiedAdapter(answer) => answer # NoAnswer
  BY DEF UsesVerifiedAdapter, NoAnswer
<1>4. Sound(answer')
  BY <1>1, <1>2, <1>3, BestRequotedIsSound DEF Verify, Answer
<1> QED
  BY <1>1, <1>4, AnsweringKeeps DEF Verify, Answer

\* The answer of a search for the best amount
LEMMA ConcludedIs ==
    ASSUME PlanInv, NEW b \in 1..MaxAmount, Conclude(b)
    PROVE  /\ stage' \in {"verify", "done"} /\ (stage' = "verify" => verify)
           /\ Sound(answer') /\ HopsFit(answer')
           /\ answer'.profit = QuoteCandidate(b, "local").profit
<1>1. market \in Markets
  BY DEF PlanInv, StageInv
<1>2. answer' = QuoteCandidate(b, "local")
  BY DEF Conclude
<1>3. Sound(QuoteCandidate(b, "local")) /\ HopsFit(QuoteCandidate(b, "local"))
  BY <1>1, QuoteIs DEF HopsFit
<1> QED
  BY <1>2, <1>3 DEF Conclude

LEMMA FinishWideKeeps ==
    ASSUME PlanInv, FinishWide
    PROVE  PlanInv'
<1>1. /\ stage = "seed" /\ (seeds = {} \/ taken = SeedCount) /\ Conclude(best)
      /\ UNCHANGED <<market, verify, seen, best, low, high, rounds, seeds, taken>>
  BY DEF FinishWide
<1>2. /\ market \in Markets /\ MinTrade <= MaxAmount /\ best # 0 /\ best \in DOMAIN seen
      /\ best \in 1..MaxAmount /\ seen[best] = QuoteCandidate(best, "local").profit
  BY <1>1 DEF PlanInv, StageInv, SearchInv, QuotedInv, Quoted
<1>3. taken # 0
  <2> SUFFICES ASSUME taken = 0 PROVE FALSE
    OBVIOUS
  <2>1. SeedCount # 0
    BY PlanAssumption
  <2>2. best \in seeds
    BY <1>1, <1>2 DEF PlanInv, SearchInv
  <2> QED
    BY <1>1, <2>1, <2>2
<1>4. Beaten(FastSet \cup LadderSet, seen[best])
  BY <1>1, <1>3 DEF PlanInv, SearchInv
<1>5. /\ stage' \in {"verify", "done"} /\ (stage' = "verify" => verify)
      /\ Sound(answer') /\ HopsFit(answer') /\ answer'.profit = seen[best]
  BY <1>1, <1>2, ConcludedIs
<1>6. KeepsTried(answer')
  BY <1>3, <1>4, <1>5 DEF KeepsTried, Beaten
<1> QED
  BY <1>1, <1>2, <1>5, <1>6, AnsweringKeeps

-----------------------------------------------------------------------------
(* The steps that search *)

LEMMA QuotedKept ==
    ASSUME PlanInv, market' = market, NEW S, S \subseteq 1..MaxAmount, seen' = Evaluated(S),
           best' = 0 \/ best' \in DOMAIN seen \cup S, seeds' \subseteq DOMAIN seen'
    PROVE  QuotedInv'
<1>1. market \in Markets /\ Quoted(seen)
  BY DEF PlanInv, StageInv, QuotedInv
<1>2. DOMAIN seen' = DOMAIN seen \cup S /\ Quoted(seen')
  BY <1>1, EvaluatedIs
<1>3. Quoted(seen)'
  BY <1>2, SameInvariants
<1> QED
  BY <1>2, <1>3 DEF QuotedInv

LEMMA StillSearching ==
    ASSUME PlanInv, market' = market, verify' = verify, answer' = answer,
           stage' \in {"fast", "ladder", "seed", "wide"}
    PROVE  AnswerInv'
<1>1. Sound(answer)'
  BY SameInvariants DEF PlanInv, AnswerInv
<1> QED
  BY <1>1 DEF AnswerInv

\* What was beaten stays so while the best does not get worse.
LEMMA StillBeaten ==
    ASSUME NEW S, NEW b, NEW c, Beaten(S, seen[b]), b \in DOMAIN seen, c \in DOMAIN seen',
           DOMAIN seen \subseteq DOMAIN seen', \A x \in DOMAIN seen : seen'[x] = seen[x],
           \A x \in DOMAIN seen' : seen'[x] \in Nat, seen'[c] >= seen'[b]
    PROVE  \A x \in S : x \in DOMAIN seen' /\ seen'[x] <= seen'[c]
<1> TAKE x \in S
<1>1. x \in DOMAIN seen /\ seen[x] <= seen[b]
  BY DEF Beaten
<1>2. /\ x \in DOMAIN seen' /\ b \in DOMAIN seen' /\ seen'[x] = seen[x] /\ seen'[b] = seen[b]
      /\ seen'[x] \in Nat /\ seen'[b] \in Nat /\ seen'[c] \in Nat
  BY <1>1
<1> QED
  BY <1>1, <1>2

\* The same of the better of the best so far and of more amounts
LEMMA BetterBeats ==
    ASSUME market \in Markets, Quoted(seen), NEW s, NEW a \in Nat \ {0}, NEW z, z <= MaxAmount,
           z \in Int, Between(s, a, z), seen' = Evaluated(ToSet(s)),
           NEW b, b = 0 \/ b \in DOMAIN seen
    PROVE  /\ ToSet(s) \subseteq 1..MaxAmount
           /\ DOMAIN seen' = DOMAIN seen \cup ToSet(s) /\ Quoted(seen')
           /\ \A x \in DOMAIN seen : seen'[x] = seen[x]
           /\ \A x \in DOMAIN seen' : seen'[x] \in Nat /\ x \in 1..MaxAmount
           /\ IsBest(Better(b, s), seen', b, s)
           /\ Better(b, s) = 0 \/ Better(b, s) \in DOMAIN seen'
           /\ b # 0 => Better(b, s) # 0 /\ seen'[Better(b, s)] >= seen'[b]
           /\ Better(b, s) # 0 =>
                 \A x \in ToSet(s) : x \in DOMAIN seen' /\ seen'[x] <= seen'[Better(b, s)]
           /\ b = 0 /\ Better(b, s) # 0 => seen'[Better(b, s)] > 0
           /\ b = 0 /\ Better(b, s) = 0 => \A x \in ToSet(s) : seen'[x] <= 0
<1> DEFINE S == ToSet(s)
           t == Better(b, s)
<1>1. MaxAmount \in Nat
  BY MaxAmountIsNat
<1>2. S \subseteq 1..MaxAmount
  <2>1. \A x \in S : x \in a..z
    BY DEF Between, ToSet
  <2> HIDE DEF S
  <2> QED
    BY <1>1, <2>1
<1>3. /\ DOMAIN seen' = DOMAIN seen \cup S /\ Quoted(seen')
      /\ \A x \in DOMAIN seen : seen'[x] = seen[x]
      /\ \A x \in DOMAIN seen' : seen'[x] \in Nat /\ x \in 1..MaxAmount
  BY <1>2, EvaluatedIs
<1>4. s \in Seq(S)
  <2>1. s \in Seq(a..z) /\ \A i \in DOMAIN s : s[i] \in S
    BY DEF Between, ToSet
  <2>2. Len(s) \in Nat /\ DOMAIN s = 1..Len(s)
    BY DEF Between
  <2> DEFINE n == Len(s)
  <2>3. s = [i \in 1..n |-> s[i]]
    <3> DEFINE A == a..z
    <3>1. s \in Seq(A)
      BY <2>1
    <3> HIDE DEF A
    <3> QED
      BY <3>1
  <2> HIDE DEF S, n
  <2>4. s \in [1..n -> S]
    BY <2>1, <2>2, <2>3 DEF n
  <2> QED
    BY <2>2, <2>4, LenIs DEF n
<1>5. \A x \in S \cup {b} : Gains(seen', x) \in Nat
  BY <1>3 DEF Gains
<1>6. IsBest(t, seen', b, s)
  <2> HIDE DEF S
  <2> QED
    BY <1>4, <1>5, BetterIs
<1>7. t = b \/ t \in S
  BY <1>6 DEF IsBest
<1>8. t = 0 \/ t \in DOMAIN seen'
  BY <1>3, <1>7
<1>9. \A x \in S : x # 0 /\ x \in DOMAIN seen'
  BY <1>2, <1>3
<1> HIDE DEF S, t
<1>10. b # 0 => t # 0 /\ seen'[t] >= seen'[b]
  <2> SUFFICES ASSUME b # 0 PROVE t # 0 /\ seen'[t] >= seen'[b]
    OBVIOUS
  <2>1. t # 0 /\ Gains(seen', b) = seen'[b] /\ Gains(seen', t) = seen'[t]
    BY <1>7, <1>9 DEF Gains
  <2>2. Gains(seen', b) <= Gains(seen', t)
    BY <1>6 DEF IsBest
  <2> QED
    BY <2>1, <2>2
<1>11. t # 0 => \A x \in S : x \in DOMAIN seen' /\ seen'[x] <= seen'[t]
  <2> SUFFICES ASSUME t # 0, NEW x \in S PROVE x \in DOMAIN seen' /\ seen'[x] <= seen'[t]
    OBVIOUS
  <2>1. x \in DOMAIN seen' /\ Gains(seen', x) = seen'[x] /\ Gains(seen', t) = seen'[t]
    BY <1>9 DEF Gains
  <2>2. Gains(seen', x) <= Gains(seen', t)
    BY <1>6 DEF IsBest, S
  <2> QED
    BY <2>1, <2>2
<1>12. b = 0 /\ t # 0 => seen'[t] > 0
  BY <1>6 DEF IsBest, Gains
<1>13. b = 0 /\ t = 0 => \A x \in S : seen'[x] <= 0
  <2> SUFFICES ASSUME b = 0, t = 0, NEW x \in S PROVE seen'[x] <= 0
    OBVIOUS
  <2>1. Gains(seen', x) = seen'[x] /\ Gains(seen', t) = 0
    BY <1>9 DEF Gains
  <2>2. Gains(seen', x) <= Gains(seen', t)
    BY <1>6 DEF IsBest, S
  <2> QED
    BY <2>1, <2>2
<1> QED
  BY <1>2, <1>3, <1>6, <1>8, <1>10, <1>11, <1>12, <1>13 DEF S, t

\* A round of the ternary search quotes two amounts of the bracket, which stays one.
LEMMA NarrowingIs ==
    ASSUME PlanInv, market' = market, stage \in {"fast", "wide"}, high - low > Narrow, NarrowBracket
    PROVE  /\ \E S \in SUBSET (1..MaxAmount) : seen' = Evaluated(S)
           /\ low' \in Nat /\ high' \in Nat /\ low' <= high' /\ low' >= 1 /\ high' <= MaxAmount
<1> DEFINE third == (high - low) \div 3
           left == low + third
           right == high - third
           M == MaxAmount
<1>1. /\ low \in Nat /\ high \in Nat /\ low <= high /\ low >= 1 /\ high <= M
      /\ market \in Markets /\ M \in Nat /\ Narrow \in Nat
  BY PlanAssumption, MaxAmountIsNat DEF PlanInv, BracketInv, StageInv
<1>2. /\ seen' = Evaluated({left, right})
      /\ IF seen'[left] < seen'[right]
         THEN low' = left + 1 /\ UNCHANGED high
         ELSE high' = Most(right - 1, low) /\ UNCHANGED low
  BY DEF NarrowBracket
<1> HIDE DEF M
<1>3. third \in Nat /\ 3 * third <= high - low
  BY <1>1
<1> HIDE DEF third
<1>4. left \in low..high /\ right \in low..high /\ left <= right
  BY <1>1, <1>3
<1>5. left \in 1..M /\ right \in 1..M
  BY <1>1, <1>4
<1>6. \E S \in SUBSET (1..M) : seen' = Evaluated(S)
  BY <1>2, <1>5
<1>7. CASE seen'[left] < seen'[right]
  <2>1. low' = left + 1 /\ high' = high
    BY <1>2, <1>7
  <2>2. left # right
    <3> SUFFICES ASSUME left = right PROVE FALSE
      OBVIOUS
    <3>1. DOMAIN seen' = DOMAIN seen \cup {left, right}
      BY <1>2 DEF Evaluated
    <3>2. \A x \in DOMAIN seen' : seen'[x] \in Nat
      <4>1. Quoted(seen) /\ {left, right} \subseteq 1..MaxAmount
        BY <1>5 DEF PlanInv, QuotedInv, M
      <4> HIDE DEF left, right
      <4> QED
        BY <1>1, <1>2, <4>1, EvaluatedIs
    <3>3. seen'[left] \in Nat /\ seen'[left] < seen'[left]
      BY <1>7, <3>1, <3>2
    <3> QED
      BY <3>3
  <2> HIDE DEF left, right
  <2> QED
    BY <1>1, <1>4, <1>6, <2>1, <2>2 DEF M
<1>8. CASE ~ (seen'[left] < seen'[right])
  <2>1. low' = low /\ high' = Most(right - 1, low)
    BY <1>2, <1>8
  <2> HIDE DEF left, right
  <2>2. Most(right - 1, low) \in low..high
    BY <1>1, <1>4 DEF Most
  <2> QED
    BY <1>1, <1>6, <2>1, <2>2 DEF M
<1> QED
  BY <1>7, <1>8

LEMMA StartFastKeeps ==
    ASSUME PlanInv, StartFast
    PROVE  PlanInv'
<1> DEFINE s == FastPoints
           M == MaxAmount
           lo == Least(Most(best' - best' \div 2, MinTrade), M)
           hi == Least(Most(best' + best' \div 2, best' + 1), M)
<1>1. /\ market' = market /\ verify' = verify /\ answer' = answer /\ seeds' = seeds /\ taken' = taken
      /\ seen' = Evaluated(ToSet(s)) /\ best' = Better(0, s)
      /\ stage = "start" /\ ~ OnlyLb /\ MinTrade <= M
  BY DEF StartFast
<1>2. IF best' = 0 THEN stage' = "ladder" /\ UNCHANGED <<low, high>>
      ELSE /\ stage' = "fast"
           /\ low' = IF lo >= hi THEN Least(MinTrade, best') ELSE lo
           /\ high' = IF lo >= hi THEN Most(M, best') ELSE hi
  BY DEF StartFast
<1>3. /\ market \in Markets /\ Quoted(seen) /\ taken = 0 /\ seeds \subseteq DOMAIN seen
      /\ low \in Nat /\ high \in Nat /\ low <= high
      /\ MinTrade \in Nat \ {0} /\ M \in Nat
  BY <1>1, PlanAssumption, MaxAmountIsNat DEF PlanInv, StageInv, QuotedInv, BracketInv
<1>4. Between(s, MinTrade, M)
  BY <1>1, <1>3, FastPointsAre
<1>5. /\ ToSet(s) \subseteq 1..M
      /\ DOMAIN seen' = DOMAIN seen \cup ToSet(s)
      /\ \A x \in DOMAIN seen' : x \in 1..M
      /\ best' = 0 \/ best' \in DOMAIN seen'
      /\ best' # 0 => /\ \A x \in ToSet(s) : x \in DOMAIN seen' /\ seen'[x] <= seen'[best']
                     /\ seen'[best'] > 0
  <2>1. M \in Int /\ M <= MaxAmount
    BY <1>3
  <2> HIDE DEF s, M
  <2> QED
    BY <1>1, <1>3, <1>4, <2>1, BetterBeats DEF M
<1>6. /\ FastSet' = FastSet /\ OnlyLb' = OnlyLb /\ MaxAmount' = MaxAmount /\ FastSet = ToSet(s)
      /\ stage' \in {"fast", "ladder"}
  BY <1>1, <1>2, SameInvariants, SameRange DEF FastSet
<1>7. QuotedInv'
  <2>1. seeds' \subseteq DOMAIN seen' /\ (best' = 0 \/ best' \in DOMAIN seen \cup ToSet(s))
    BY <1>1, <1>3, <1>5
  <2> HIDE DEF s, M
  <2> QED
    BY <1>1, <1>5, <2>1, QuotedKept DEF M
<1>8. BracketInv'
  <2>1. CASE best' = 0
    BY <1>2, <1>3, <2>1 DEF BracketInv
  <2>2. CASE best' # 0
    <3> DEFINE b == best'
    <3>1. b \in 1..M
      BY <1>5, <2>2
    <3>2. /\ low' = IF lo >= hi THEN Least(MinTrade, b) ELSE lo
          /\ high' = IF lo >= hi THEN Most(M, b) ELSE hi
      BY <1>2, <2>2
    <3> DEFINE half == b \div 2
    <3>3. half \in Nat
      <4>1. b \in Nat
        BY <1>3, <3>1
      <4> HIDE DEF b
      <4> QED
        BY <4>1
    <3>4. lo = Least(Most(b - half, MinTrade), M) /\ hi = Least(Most(b + half, b + 1), M)
      OBVIOUS
    <3> HIDE DEF M, b, half, lo, hi
    <3>5. lo \in 1..M /\ hi \in 1..M
      BY <1>1, <1>3, <3>1, <3>3, <3>4 DEF Least, Most
    <3>6. low' \in 1..M /\ high' \in 1..M /\ low' <= high'
      BY <1>1, <1>3, <3>1, <3>2, <3>5 DEF Least, Most
    <3>7. low' \in Nat /\ high' \in Nat /\ low' <= high' /\ low' >= 1 /\ high' <= M
      BY <1>3, <3>6
    <3> QED
      BY <1>6, <3>7 DEF BracketInv, M
  <2> QED
    BY <2>1, <2>2
<1>9. StageInv'
  BY <1>1, <1>3, <1>6 DEF StageInv
<1>10. SearchInv'
  BY <1>1, <1>2, <1>5, <1>6 DEF SearchInv, Beaten
<1>11. AnswerInv'
  BY <1>1, <1>6, StillSearching
<1> QED
  BY <1>7, <1>8, <1>9, <1>10, <1>11 DEF PlanInv

\* A round of the ternary search, of the first search or of a seed's
LEMMA NarrowedKeeps ==
    ASSUME PlanInv, stage \in {"fast", "wide"}, high - low > Narrow, NarrowBracket,
           UNCHANGED <<market, verify, stage, best, seeds, taken, answer>>
    PROVE  PlanInv'
<1>1. PICK S \in SUBSET (1..MaxAmount) : seen' = Evaluated(S)
  BY NarrowingIs
<1>2. low' \in Nat /\ high' \in Nat /\ low' <= high' /\ low' >= 1 /\ high' <= MaxAmount
  BY NarrowingIs
<1>3. /\ market \in Markets /\ Quoted(seen) /\ best # 0 /\ best \in DOMAIN seen
      /\ seeds \subseteq DOMAIN seen
  BY DEF PlanInv, StageInv, QuotedInv, SearchInv
<1>4. /\ DOMAIN seen' = DOMAIN seen \cup S
      /\ \A x \in DOMAIN seen : seen'[x] = seen[x]
      /\ \A x \in DOMAIN seen' : seen'[x] \in Nat
  BY <1>1, <1>3, EvaluatedIs
<1>5. /\ FastSet' = FastSet /\ LadderSet' = LadderSet /\ OnlyLb' = OnlyLb /\ MaxAmount' = MaxAmount
  BY SameInvariants, SameRange
<1>6. QuotedInv'
  BY <1>1, <1>3, <1>4, QuotedKept
<1>7. BracketInv'
  BY <1>2, <1>5 DEF BracketInv
<1>8. StageInv'
  BY <1>5 DEF PlanInv, StageInv
<1>9. SearchInv'
  <2>1. best \in DOMAIN seen' /\ seen'[best] >= seen'[best] /\ seen'[best] = seen[best]
    BY <1>3, <1>4
  <2>2. stage = "fast" => \A x \in FastSet : x \in DOMAIN seen' /\ seen'[x] <= seen'[best]
    <3> SUFFICES ASSUME stage = "fast"
                 PROVE  \A x \in FastSet : x \in DOMAIN seen' /\ seen'[x] <= seen'[best]
      OBVIOUS
    <3>1. Beaten(FastSet, seen[best])
      BY DEF PlanInv, SearchInv
    <3> QED
      BY <1>3, <1>4, <2>1, <3>1, StillBeaten
  <2>3. stage = "wide" => \A x \in FastSet \cup LadderSet : x \in DOMAIN seen' /\ seen'[x] <= seen'[best]
    <3> SUFFICES ASSUME stage = "wide"
                 PROVE  \A x \in FastSet \cup LadderSet : x \in DOMAIN seen' /\ seen'[x] <= seen'[best]
      OBVIOUS
    <3> DEFINE T == FastSet \cup LadderSet
    <3>1. Beaten(T, seen[best])
      BY DEF PlanInv, SearchInv, StageInv
    <3> HIDE DEF T
    <3>2. \A x \in T : x \in DOMAIN seen' /\ seen'[x] <= seen'[best]
      BY <1>3, <1>4, <2>1, <3>1, StillBeaten
    <3> QED
      BY <3>2 DEF T
  <2> QED
    BY <1>3, <1>5, <2>1, <2>2, <2>3 DEF PlanInv, SearchInv, Beaten
<1>10. AnswerInv'
  BY StillSearching
<1> QED
  BY <1>6, <1>7, <1>8, <1>9, <1>10 DEF PlanInv

LEMMA NotBracketed ==
    ASSUME PlanInv, NEW limit, ~ Bracketed(limit)
    PROVE  high - low > Narrow
<1>1. low \in Nat /\ high \in Nat /\ Narrow \in Nat
  BY PlanAssumption DEF PlanInv, BracketInv
<1> QED
  BY <1>1 DEF Bracketed

LEMMA NarrowFastKeeps ==
    ASSUME PlanInv, NarrowFast
    PROVE  PlanInv'
BY NotBracketed, NarrowedKeeps DEF NarrowFast

LEMMA NarrowWideKeeps ==
    ASSUME PlanInv, NarrowWide
    PROVE  PlanInv'
BY NotBracketed, NarrowedKeeps DEF NarrowWide

LEMMA FinishFastKeeps ==
    ASSUME PlanInv, FinishFast
    PROVE  PlanInv'
<1> DEFINE s == DensePoints(low, high, FastDense)
           top == Better(best, s)
           atEdge == (top = low /\ low > MinTrade) \/ (top = high /\ high < MaxAmount)
<1>1. /\ UNCHANGED <<market, verify, low, high, rounds, seeds, taken>> /\ stage = "fast"
      /\ seen' = Evaluated(ToSet(s))
      /\ best' = IF atEdge THEN 0 ELSE top
      /\ IF atEdge THEN stage' = "ladder" /\ answer' = answer ELSE Conclude(top)
  BY DEF FinishFast
<1>2. /\ market \in Markets /\ Quoted(seen) /\ taken = 0 /\ seeds \subseteq DOMAIN seen
      /\ low \in Nat /\ high \in Nat /\ low <= high /\ low >= 1 /\ high <= MaxAmount
      /\ best # 0 /\ best \in DOMAIN seen /\ ~ OnlyLb /\ MinTrade <= MaxAmount
      /\ Beaten(FastSet, seen[best]) /\ seen[best] > 0
  BY <1>1 DEF PlanInv, StageInv, QuotedInv, BracketInv, SearchInv
<1> HIDE DEF atEdge
<1>3. Between(s, low, high)
  <2>1. low \in Int /\ high \in Int
    BY <1>2
  <2> QED
    BY <2>1, DensePointsAre
<1> HIDE DEF s
<1>4. /\ ToSet(s) \subseteq 1..MaxAmount /\ Quoted(seen')
      /\ DOMAIN seen' = DOMAIN seen \cup ToSet(s)
      /\ \A x \in DOMAIN seen : seen'[x] = seen[x]
      /\ \A x \in DOMAIN seen' : seen'[x] \in Nat /\ x \in 1..MaxAmount
      /\ top \in DOMAIN seen' /\ seen'[top] >= seen'[best]
  <2>1. low \in Nat \ {0} /\ high \in Int
    BY <1>2
  <2> QED
    BY <1>1, <1>2, <1>3, <2>1, BetterBeats
<1> HIDE DEF top
<1>5. \A x \in FastSet : x \in DOMAIN seen' /\ seen'[x] <= seen'[top]
  BY <1>2, <1>4, StillBeaten
<1>6. /\ FastSet' = FastSet /\ OnlyLb' = OnlyLb /\ MaxAmount' = MaxAmount
  BY <1>1, SameInvariants, SameRange
<1>7. QuotedInv'
  <2>1. seeds' \subseteq DOMAIN seen' /\ (best' = 0 \/ best' \in DOMAIN seen \cup ToSet(s))
    BY <1>1, <1>2, <1>4
  <2> QED
    BY <1>1, <1>4, <2>1, QuotedKept
<1>8. stage' \in {"ladder", "verify", "done"} /\ (stage' = "verify" => verify)
  BY <1>1 DEF Conclude
<1>9. BracketInv'
  BY <1>1, <1>2, <1>8 DEF BracketInv
<1>10. StageInv'
  BY <1>1, <1>2, <1>6, <1>8 DEF StageInv
<1>11. SearchInv'
  BY <1>5, <1>6, <1>8 DEF SearchInv
<1>12. AnswerInv'
  <2>1. CASE atEdge
    BY <1>1, <2>1, StillSearching
  <2>2. CASE ~ atEdge
    <3>1. Conclude(top) /\ top \in 1..MaxAmount
      BY <1>1, <1>4, <2>2
    <3>2. /\ stage' \in {"verify", "done"} /\ Sound(answer') /\ HopsFit(answer')
          /\ answer'.profit = QuoteCandidate(top, "local").profit
      BY <3>1, ConcludedIs
    <3>3. answer'.profit = seen'[top]
      BY <1>4, <3>2 DEF Quoted
    <3>4. KeepsTried(answer)'
      <4>1. seen[best] \in Nat /\ seen[best] > 0 /\ seen'[top] >= seen[best] /\ seen'[top] \in Nat
        BY <1>2, <1>4
      <4>2. taken' = 0
        BY <1>1, <1>2
      <4>3. answer'.profit > 0
        BY <3>3, <4>1
      <4>4. answer' # NoAnswer
        BY <4>3 DEF NoAnswer
      <4>5. \A x \in FastSet' : x \in DOMAIN seen' /\ seen'[x] <= answer'.profit
        BY <1>5, <1>6, <3>3
      <4> QED
        BY <4>2, <4>4, <4>5 DEF KeepsTried, Beaten
    <3>5. Sound(answer)' /\ HopsFit(answer)'
      BY <1>1, <3>2, SameInvariants DEF HopsFit
    <3> QED
      BY <3>2, <3>4, <3>5 DEF AnswerInv
  <2> QED
    BY <2>1, <2>2
<1> QED
  BY <1>7, <1>9, <1>10, <1>11, <1>12 DEF PlanInv

LEMMA ClimbLadderKeeps ==
    ASSUME PlanInv, ClimbLadder
    PROVE  PlanInv'
<1> DEFINE s == Ladder
           M == MaxAmount
<1>1. /\ UNCHANGED <<market, verify, low, high, rounds, taken>> /\ stage = "ladder"
      /\ seen' = Evaluated(ToSet(s)) /\ best' = Better(0, s)
  BY DEF ClimbLadder
<1>2. \/ best' = 0 /\ Answer(NoAnswer) /\ UNCHANGED seeds
      \/ /\ best' > 0 /\ ProbesFirst(best')
         /\ stage' = "probe" /\ answer' = QuoteCandidate(best', "local") /\ UNCHANGED seeds
      \/ /\ best' > 0 /\ stage' = "seed" /\ seeds' = {x \in DOMAIN seen' : seen'[x] > 0}
         /\ UNCHANGED answer
  BY DEF ClimbLadder
<1>3. /\ market \in Markets /\ Quoted(seen) /\ taken = 0 /\ seeds \subseteq DOMAIN seen
      /\ low \in Nat /\ high \in Nat /\ low <= high /\ ~ OnlyLb /\ MinTrade <= M
      /\ MinTrade \in Nat \ {0} /\ M \in Nat /\ FastSet \subseteq DOMAIN seen
  BY <1>1, PlanAssumption, MaxAmountIsNat DEF PlanInv, StageInv, QuotedInv, BracketInv, SearchInv
<1>4. Between(s, MinTrade, M)
  BY <1>3, LadderIs
<1>5. /\ ToSet(s) \subseteq 1..MaxAmount /\ Quoted(seen')
      /\ DOMAIN seen' = DOMAIN seen \cup ToSet(s)
      /\ \A x \in DOMAIN seen' : seen'[x] \in Nat /\ x \in 1..MaxAmount
      /\ best' = 0 \/ best' \in DOMAIN seen'
      /\ best' # 0 => seen'[best'] > 0
      /\ best' = 0 => \A x \in ToSet(s) : seen'[x] <= 0
  <2>1. M \in Int /\ M <= MaxAmount
    BY <1>3
  <2> HIDE DEF s, M
  <2> QED
    BY <1>1, <1>3, <1>4, <2>1, BetterBeats DEF M
<1>6. /\ FastSet' = FastSet /\ LadderSet' = LadderSet /\ OnlyLb' = OnlyLb /\ MaxAmount' = MaxAmount
      /\ LadderSet = ToSet(s)
  BY <1>1, SameInvariants, SameRange DEF LadderSet
<1>7. QuotedInv'
  <2>1. seeds' \subseteq DOMAIN seen' /\ (best' = 0 \/ best' \in DOMAIN seen \cup ToSet(s))
    BY <1>2, <1>3, <1>5
  <2> HIDE DEF s
  <2> QED
    BY <1>1, <1>5, <2>1, QuotedKept
<1>8. stage' \in {"done", "probe", "seed"} /\ (stage' = "probe" => verify)
  BY <1>2 DEF Answer, ProbesFirst
<1>9. BracketInv'
  BY <1>1, <1>3, <1>8 DEF BracketInv
<1>10. StageInv'
  BY <1>1, <1>3, <1>6, <1>8 DEF StageInv
<1>11. SearchInv'
  <2>1. stage' = "seed" => best' # 0 /\ seeds' = {x \in DOMAIN seen' : seen'[x] > 0}
    <3>1. best' > 0 => best' # 0
      BY <1>5
    <3> QED
      BY <1>2, <3>1 DEF Answer
  <2> QED
    BY <1>1, <1>3, <1>5, <1>6, <1>8, <2>1 DEF SearchInv
<1>12. AnswerInv'
  <2>1. CASE best' = 0 /\ Answer(NoAnswer)
    <3>1. stage' = "done" /\ answer' = NoAnswer
      BY <2>1 DEF Answer
    <3>2. NoAnswer.profit = 0
      BY DEF NoAnswer
    <3>3. KeepsTried(answer)'
      BY <1>5, <1>6, <2>1, <3>1, <3>2 DEF KeepsTried, Beaten
    <3>4. HopsFit(answer)' /\ Sound(answer)'
      BY <3>1 DEF HopsFit, Sound, NoAnswer
    <3> QED
      BY <3>1, <3>3, <3>4 DEF AnswerInv
  <2>2. CASE best' > 0 /\ stage' = "probe" /\ answer' = QuoteCandidate(best', "local")
    <3>1. best' # 0 /\ best' \in 1..MaxAmount /\ seen'[best'] > 0
      <4>1. best' # 0
        BY <2>2
      <4> QED
        BY <1>5, <4>1
    <3>2. answer'.profit > 0
      BY <1>5, <2>2, <3>1 DEF Quoted
    <3>3. answer' # NoAnswer
      BY <3>2 DEF NoAnswer
    <3> DEFINE b == best'
    <3>4. b \in 1..MaxAmount /\ answer' = QuoteCandidate(b, "local")
      BY <2>2, <3>1
    <3> HIDE DEF b
    <3>5. Sound(answer')
      BY <1>3, <3>4, QuoteIs
    <3>6. Sound(answer)'
      BY <1>1, <3>5, SameInvariants
    <3> QED
      BY <2>2, <3>3, <3>6 DEF AnswerInv
  <2>3. CASE stage' = "seed" /\ answer' = answer
    BY <1>1, <2>3, StillSearching
  <2> QED
    BY <1>2, <2>1, <2>2, <2>3
<1> QED
  BY <1>7, <1>9, <1>10, <1>11, <1>12 DEF PlanInv

\* The bracket around a seed
LEMMA SeedBracket ==
    ASSUME PlanInv, stage = "seed", NEW c \in 1..MaxAmount, TakeSeed(c)
    PROVE  low' \in Nat /\ high' \in Nat /\ low' <= high' /\ low' >= 1 /\ high' <= MaxAmount
<1> DEFINE steps == Ladder
           below == {i \in DOMAIN steps : steps[i] < c}
           n == Len(steps)
           at == Least(Cardinality(below) + 1, n)
           M == MaxAmount
<1>1. /\ low' = IF at = 1 THEN MinTrade ELSE steps[at - 1]
      /\ high' = Most(IF at < n THEN steps[at + 1] ELSE M, c)
  BY DEF TakeSeed
<1>2. market \in Markets /\ MinTrade <= M /\ MinTrade \in Nat \ {0} /\ M \in Nat
  BY PlanAssumption, MaxAmountIsNat DEF PlanInv, StageInv
<1>3. /\ n \in Nat \ {0} /\ DOMAIN steps = 1..n
      /\ \A i \in 1..n : steps[i] \in MinTrade..M
      /\ \A i, j \in 1..n : i < j => steps[i] < steps[j]
  <2>1. Between(steps, MinTrade, M) /\ n # 0
    BY <1>2, LadderIs
  <2> QED
    BY <2>1 DEF Between
<1>4. c \in 1..M
  OBVIOUS
<1> HIDE DEF steps, n, M
<1>5. Cardinality(below) \in Nat
  <2>1. IsFiniteSet(1..n) /\ below \in SUBSET (1..n)
    BY <1>3, FS_Interval
  <2> HIDE DEF below
  <2> QED
    BY <2>1, FS_Subset, FS_CardinalityType
<1>6. at \in 1..n
  BY <1>3, <1>5 DEF Least
<1> HIDE DEF at
<1> DEFINE top == IF at < n THEN steps[at + 1] ELSE M
<1>7. /\ low' \in MinTrade..M /\ top \in MinTrade..M /\ low' <= top
  <2>1. CASE at = 1
    <3>1. at < n => at + 1 \in 1..n
      BY <1>3, <1>6
    <3> QED
      BY <1>1, <1>2, <1>3, <2>1, <3>1
  <2>2. CASE at # 1
    <3>1. at - 1 \in 1..n /\ low' = steps[at - 1]
      BY <1>1, <1>3, <1>6, <2>2
    <3>2. low' \in MinTrade..M
      BY <1>3, <3>1
    <3>3. CASE at < n
      <4>1. at + 1 \in 1..n /\ at - 1 < at + 1 /\ top = steps[at + 1]
        BY <1>3, <1>6, <3>3
      <4>2. steps[at - 1] < steps[at + 1] /\ top \in MinTrade..M
        BY <1>3, <3>1, <4>1
      <4> HIDE DEF top
      <4> QED
        BY <1>2, <3>1, <3>2, <4>1, <4>2
    <3>4. CASE ~ (at < n)
      BY <1>2, <3>2, <3>4
    <3> QED
      BY <3>3, <3>4
  <2> QED
    BY <2>1, <2>2
<1>8. high' = Most(top, c)
  BY <1>1
<1> HIDE DEF top
<1>9. low' \in Nat /\ high' \in Nat /\ low' <= high' /\ low' >= 1 /\ high' <= M
  BY <1>2, <1>4, <1>7, <1>8 DEF Most
<1> QED
  BY <1>9 DEF M

LEMMA TakeSeedKeeps ==
    ASSUME PlanInv, NEW c \in seeds, TakeSeed(c)
    PROVE  PlanInv'
<1> DEFINE s == RefinementPoints(c)
<1>1. /\ UNCHANGED <<market, verify, answer>> /\ stage = "seed" /\ stage' = "wide"
      /\ seen' = Evaluated(ToSet(s)) /\ best' = Better(best, s)
      /\ seeds' = seeds \ {c} /\ taken' = taken + 1
      /\ \A d \in seeds : seen[c] >= seen[d]
  BY DEF TakeSeed
<1>2. /\ market \in Markets /\ Quoted(seen) /\ taken \in Nat /\ seeds \subseteq DOMAIN seen
      /\ ~ OnlyLb /\ MinTrade <= MaxAmount /\ MaxAmount \in Nat
      /\ best # 0 /\ best \in DOMAIN seen /\ FastSet \cup LadderSet \subseteq DOMAIN seen
  BY <1>1, MaxAmountIsNat DEF PlanInv, StageInv, QuotedInv, SearchInv
<1>3. c \in DOMAIN seen /\ c \in 1..MaxAmount
  BY <1>2 DEF Quoted
<1>4. Between(s, 1, MaxAmount) /\ c \in ToSet(s)
  BY <1>2, <1>3, RefinementPointsAre
<1> HIDE DEF s
<1>5. /\ ToSet(s) \subseteq 1..MaxAmount
      /\ DOMAIN seen' = DOMAIN seen \cup ToSet(s)
      /\ \A x \in DOMAIN seen : seen'[x] = seen[x]
      /\ \A x \in DOMAIN seen' : seen'[x] \in Nat
      /\ best' # 0 /\ best' \in DOMAIN seen' /\ seen'[best'] >= seen'[best]
      /\ \A x \in ToSet(s) : x \in DOMAIN seen' /\ seen'[x] <= seen'[best']
  <2>1. 1 \in Nat \ {0} /\ MaxAmount \in Int /\ MaxAmount <= MaxAmount
    BY <1>2
  <2> QED
    BY <1>1, <1>2, <1>4, <2>1, BetterBeats
<1>6. /\ FastSet' = FastSet /\ LadderSet' = LadderSet /\ OnlyLb' = OnlyLb /\ MaxAmount' = MaxAmount
  BY <1>1, SameInvariants, SameRange
<1>7. QuotedInv'
  <2>1. seeds' \subseteq DOMAIN seen' /\ (best' = 0 \/ best' \in DOMAIN seen \cup ToSet(s))
    BY <1>1, <1>2, <1>5
  <2> QED
    BY <1>1, <1>5, <2>1, QuotedKept
<1>8. BracketInv'
  BY <1>1, <1>3, <1>6, SeedBracket DEF BracketInv
<1>9. StageInv'
  <2>1. taken' \in Nat /\ taken' # 0
    BY <1>1, <1>2
  <2> QED
    BY <1>1, <1>2, <1>6, <2>1 DEF StageInv
<1> DEFINE T == FastSet \cup LadderSet
<1>10. \A x \in T : x \in DOMAIN seen' /\ seen'[x] <= seen'[best']
  <2>1. CASE taken = 0
    <3>1. seeds = {x \in DOMAIN seen : seen[x] > 0}
      BY <1>1, <2>1 DEF PlanInv, SearchInv
    <3> HIDE DEF T
    <3> SUFFICES ASSUME NEW x \in DOMAIN seen PROVE x \in DOMAIN seen' /\ seen'[x] <= seen'[best']
      BY <1>2 DEF T
    <3>2. x \in DOMAIN seen' /\ c \in DOMAIN seen' /\ seen'[x] = seen[x] /\ seen'[c] = seen[c]
      BY <1>3, <1>5
    <3>3. seen'[x] \in Nat /\ seen'[c] \in Nat /\ seen'[best'] \in Nat /\ seen'[c] <= seen'[best']
      BY <1>4, <1>5, <3>2
    <3>4. seen[x] > 0 => seen[c] >= seen[x]
      BY <1>1, <3>1
    <3> QED
      BY <3>2, <3>3, <3>4
  <2>2. CASE taken # 0
    <3>1. Beaten(T, seen[best])
      BY <1>1, <2>2 DEF PlanInv, SearchInv
    <3>2. DOMAIN seen \subseteq DOMAIN seen'
      BY <1>5
    <3> HIDE DEF T
    <3> QED
      BY <1>2, <1>5, <3>1, <3>2, StillBeaten
  <2> QED
    BY <2>1, <2>2
<1>11. SearchInv'
  <2>1. T' = T
    BY <1>6
  <2> QED
    BY <1>1, <1>5, <1>6, <1>10, <2>1 DEF SearchInv, Beaten
<1>12. AnswerInv'
  BY <1>1, StillSearching
<1> QED
  BY <1>7, <1>8, <1>9, <1>11, <1>12 DEF PlanInv

LEMMA FinishSeedKeeps ==
    ASSUME PlanInv, FinishSeed
    PROVE  PlanInv'
<1> DEFINE s == DensePoints(low, high, WideDense)
           T == FastSet \cup LadderSet
<1>1. /\ UNCHANGED <<market, verify, low, high, rounds, seeds, taken, answer>>
      /\ stage = "wide" /\ stage' = "seed"
      /\ seen' = Evaluated(ToSet(s)) /\ best' = Better(best, s)
  BY DEF FinishSeed
<1>2. /\ market \in Markets /\ Quoted(seen) /\ taken \in Nat /\ taken # 0 /\ seeds \subseteq DOMAIN seen
      /\ ~ OnlyLb /\ MinTrade <= MaxAmount
      /\ low \in Nat /\ high \in Nat /\ low <= high /\ low >= 1 /\ high <= MaxAmount
      /\ best # 0 /\ best \in DOMAIN seen
  BY <1>1 DEF PlanInv, StageInv, QuotedInv, BracketInv, SearchInv
<1>3. Beaten(T, seen[best])
  BY <1>1, <1>2 DEF PlanInv, SearchInv
<1>4. Between(s, low, high)
  <2>1. low \in Int /\ high \in Int
    BY <1>2
  <2> QED
    BY <2>1, DensePointsAre
<1> HIDE DEF s
<1>5. /\ ToSet(s) \subseteq 1..MaxAmount
      /\ DOMAIN seen' = DOMAIN seen \cup ToSet(s)
      /\ \A x \in DOMAIN seen : seen'[x] = seen[x]
      /\ \A x \in DOMAIN seen' : seen'[x] \in Nat
      /\ best' # 0 /\ best' \in DOMAIN seen' /\ seen'[best'] >= seen'[best]
  <2>1. low \in Nat \ {0} /\ high \in Int
    BY <1>2
  <2> QED
    BY <1>1, <1>2, <1>4, <2>1, BetterBeats
<1>6. /\ FastSet' = FastSet /\ LadderSet' = LadderSet /\ OnlyLb' = OnlyLb /\ MaxAmount' = MaxAmount
  BY <1>1, SameInvariants, SameRange
<1>7. QuotedInv'
  <2>1. seeds' \subseteq DOMAIN seen' /\ (best' = 0 \/ best' \in DOMAIN seen \cup ToSet(s))
    BY <1>1, <1>2, <1>5
  <2> QED
    BY <1>1, <1>5, <2>1, QuotedKept
<1>8. BracketInv'
  BY <1>1, <1>2 DEF BracketInv
<1>9. StageInv'
  BY <1>1, <1>2, <1>6 DEF StageInv
<1>10. \A x \in T : x \in DOMAIN seen' /\ seen'[x] <= seen'[best']
  <2>1. DOMAIN seen \subseteq DOMAIN seen'
    BY <1>5
  <2> HIDE DEF T
  <2> QED
    BY <1>2, <1>3, <1>5, <2>1, StillBeaten
<1>11. SearchInv'
  <2>1. T' = T
    BY <1>6
  <2> QED
    BY <1>1, <1>2, <1>5, <1>6, <1>10, <2>1 DEF SearchInv, Beaten
<1>12. AnswerInv'
  BY <1>1, StillSearching
<1> QED
  BY <1>7, <1>8, <1>9, <1>11, <1>12 DEF PlanInv

-----------------------------------------------------------------------------
(* The theorems *)

\* Every step keeps the invariant.
LEMMA StepKeeps ==
    ASSUME PlanInv, [PlanNext]_planVars
    PROVE  PlanInv'
<1>1. CASE PlanNext
  <2>1. CASE \E c \in seeds : TakeSeed(c)
    BY <2>1, TakeSeedKeeps
  <2>2. CASE ~ \E c \in seeds : TakeSeed(c)
    BY <1>1, <2>2, NoRangeKeeps, SearchLbKeeps, StartFastKeeps, NarrowFastKeeps, FinishFastKeeps,
       ClimbLadderKeeps, NarrowWideKeeps, FinishSeedKeeps, FinishWideKeeps, ProbeKeeps, VerifyKeeps,
       QuoteFailsKeeps DEF PlanNext
  <2> QED
    BY <2>1, <2>2
<1>2. CASE UNCHANGED planVars
  <2>1. /\ UNCHANGED <<market, verify, stage, seen, best, low, high, rounds, seeds, taken, answer>>
    BY <1>2 DEF planVars
  <2>2. /\ FastSet' = FastSet /\ LadderSet' = LadderSet /\ OnlyLb' = OnlyLb /\ MaxAmount' = MaxAmount
        /\ Quoted(seen)' /\ Sound(answer)'
    BY <2>1, SameInvariants, SameRange DEF PlanInv, QuotedInv, AnswerInv
  <2>3. QuotedInv' /\ BracketInv' /\ StageInv'
    BY <2>1, <2>2 DEF PlanInv, QuotedInv, BracketInv, StageInv
  <2>4. SearchInv'
    BY <2>1, <2>2 DEF PlanInv, SearchInv, Beaten
  <2>5. AnswerInv'
    BY <2>1, <2>2 DEF PlanInv, AnswerInv, HopsFit, KeepsTried, Beaten
  <2> QED
    BY <2>3, <2>4, <2>5 DEF PlanInv
<1> QED
  BY <1>1, <1>2

\* Through a search, from its start to its answer, the amounts that have been
\* quoted have the profits the local mathematics gives them, the bracket is one of
\* tradable amounts, and the best so far beats what had to be tried
\* (search_best_plan_with_stats_mode).
THEOREM PlanInvariant == PlanSpec => []PlanInv
<1>1. PlanInit => PlanInv
  <2> SUFFICES ASSUME PlanInit PROVE PlanInv
    OBVIOUS
  <2>1. /\ market \in Markets /\ stage = "start" /\ seen = <<>> /\ best = 0
        /\ low = 0 /\ high = 0 /\ seeds = {} /\ taken = 0 /\ answer = NoAnswer
    BY DEF PlanInit
  <2>2. DOMAIN seen = {}
    BY <2>1
  <2>3. QuotedInv /\ BracketInv /\ StageInv /\ SearchInv
    BY <2>1, <2>2 DEF QuotedInv, Quoted, BracketInv, StageInv, SearchInv
  <2>4. AnswerInv
    BY <2>1 DEF AnswerInv, Sound
  <2> QED
    BY <2>3, <2>4 DEF PlanInv
<1>2. PlanInv /\ [PlanNext]_planVars => PlanInv'
  BY StepKeeps
<1> QED
  BY <1>1, <1>2, PTL DEF PlanSpec

\* A search quotes amounts the pools can take, and an answer leads through the path
\* from its amount to what it says it earns (PlanTypeOK).
THEOREM PlanTypes == PlanSpec => []PlanTypeOK
<1>1. PlanInv => PlanTypeOK
  <2> SUFFICES ASSUME PlanInv PROVE PlanTypeOK
    OBVIOUS
  <2>1. /\ market \in Markets /\ Quoted(seen) /\ MaxAmount \in Nat
        /\ low \in Nat /\ high \in Nat /\ low <= high /\ seeds \subseteq DOMAIN seen
        /\ stage \in {"start", "fast", "ladder", "seed", "wide", "probe", "verify", "done", "failed"}
    BY MaxAmountIsNat DEF PlanInv, QuotedInv, BracketInv, StageInv
  <2>2. \A x \in DOMAIN seen : x \in 1..MaxAmount /\ seen[x] \in Nat
    BY <2>1, QuoteIs DEF Quoted
  <2>3. best \in Nat
    BY <2>1, <2>2 DEF PlanInv, QuotedInv
  <2>4. answer # NoAnswer =>
          /\ answer.amount \in 1..MaxAmount
          /\ answer.hops[1].in = answer.amount
          /\ \A i \in 1..(Len(answer.hops) - 1) : answer.hops[i + 1].in = answer.hops[i].out
          /\ answer.profit = answer.hops[Len(answer.hops)].out - answer.amount - FlashFee(answer.amount)
    BY DEF PlanInv, AnswerInv, Sound, Earns
  <2> QED
    BY <2>1, <2>2, <2>3, <2>4 DEF PlanTypeOK
<1> QED
  BY <1>1, PlanInvariant, PTL

\* However a hop is shared out, by price, by the closed form or in slices, no pool
\* is given more than it can take (WithinCapacity).
THEOREM CapacityIsKept == PlanSpec => []WithinCapacity
<1>1. PlanInv => WithinCapacity
  BY DEF PlanInv, AnswerInv, WithinCapacity, HopsFit, Hops, FitsHop, SplitsOf
<1> QED
  BY <1>1, PlanInvariant, PTL

\* The answer earns at least what every amount of the closed form does, and of the
\* ladder once a seed has been refined, whatever the markets and however far the
\* narrowing goes astray; and no answer means that nothing on the ladder earns
\* anything (TriedIsKept).
THEOREM NothingTriedIsBetter == PlanSpec => []TriedIsKept
<1>1. PlanInv => TriedIsKept
  BY DEF PlanInv, AnswerInv, TriedIsKept, KeepsTried, Beaten, FastSet, LadderSet
<1> QED
  BY <1>1, PlanInvariant, PTL
=============================================================================
