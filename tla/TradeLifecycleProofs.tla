------------------------ MODULE TradeLifecycleProofs ------------------------
(***************************************************************************)
(* The invariants of TradeLifecycle for every set of plans, number of      *)
(* channels, limit and bound.                                              *)
(***************************************************************************)
EXTENDS TradeLifecycle, FiniteSetTheorems, WellFoundedInduction, TLAPS

\* The engine holds a transaction exactly while it submits or waits, it is the
\* running process that signed it, and it passed the profit check.
TxInHand ==
    /\ pc \in {"submit", "wait"} <=> tx # NoTx
    /\ tx # NoTx => tx.run = run /\ tx.plan.net >= 0 /\ tx.nonce < ledger.next
    /\ pc # "down" => run \in Runs

\* While a transaction is in hand the day's booked loss is within the limit,
\* and nothing has been booked for a later day.
LossInHand ==
    /\ pc \in {"submit", "wait"} => dailyPnl[day] >= -DailyLossLimit
    /\ \A d \in Days : d > day => dailyPnl[d] = 0

\* What is queued or executed was broadcast, by this run or an earlier one.
NetworkSeesBroadcast ==
    /\ mempool \subseteq broadcast
    /\ \A r \in mined : r.tx \in broadcast
    /\ \A t \in broadcast : t.run <= run

\* A broadcast transaction with the nonce in hand is the one in hand.
InHandUnique ==
    tx # NoTx => \A t \in broadcast : t.run = run /\ t.nonce = tx.nonce => t = tx

IInv ==
    /\ TypeOK
    /\ LedgerConsistent
    /\ OpenCountExact
    /\ TxInHand
    /\ DailyLossBounded
    /\ LossInHand
    /\ NetworkSeesBroadcast
    /\ InHandUnique
    /\ SignedOnce
    /\ IncludedIsMined

-----------------------------------------------------------------------------
(* The ledger's operations, one field at a time *)

\* sync moves the counter and nothing else.
LEMMA AfterSyncFields ==
    ASSUME NEW l \in Ledger, NEW k \in 0..(MaxNonce + 1)
    PROVE  /\ AfterSync(l, k) \in Ledger
           /\ AfterSync(l, k).states = l.states
           /\ AfterSync(l, k).pending = l.pending
BY MaxNonceAssumption DEF AfterSync, Ledger

\* reserve advances the counter by one and marks the nonce it hands out.
LEMMA AfterReserveFields ==
    ASSUME NEW l \in Ledger, l.next \in Nonces
    PROVE  /\ AfterReserve(l) \in Ledger
           /\ AfterReserve(l).next = l.next + 1
           /\ AfterReserve(l).states = [l.states EXCEPT ![l.next] = "Reserved"]
           /\ AfterReserve(l).pending = l.pending
<1>1. l.next + 1 \in 0..(MaxNonce + 1)
  BY MaxNonceAssumption DEF Nonces
<1>2. [l.states EXCEPT ![l.next] = "Reserved"] \in [Nonces -> NonceState]
  BY DEF Ledger, NonceState
<1>3. QED  BY <1>1, <1>2 DEF AfterReserve, Ledger

\* mark_submitted, mark_included and mark_dropped change the state of one
\* nonce and its entry in the replacement table.
LEMMA MarkFields ==
    ASSUME NEW l \in Ledger, NEW n \in Nonces
    PROVE  /\ AfterSubmitted(l, n) \in Ledger
           /\ AfterSubmitted(l, n).next = l.next
           /\ AfterSubmitted(l, n).states = [l.states EXCEPT ![n] = "Submitted"]
           /\ AfterSubmitted(l, n).pending = l.pending \union {n}
           /\ AfterIncluded(l, n) \in Ledger
           /\ AfterIncluded(l, n).next = l.next
           /\ AfterIncluded(l, n).states = [l.states EXCEPT ![n] = "Included"]
           /\ AfterIncluded(l, n).pending = l.pending \ {n}
           /\ AfterDropped(l, n) \in Ledger
           /\ AfterDropped(l, n).next = l.next
           /\ AfterDropped(l, n).states = [l.states EXCEPT ![n] = "Dropped"]
           /\ AfterDropped(l, n).pending = l.pending \ {n}
BY DEF AfterSubmitted, AfterIncluded, AfterDropped, Ledger, NonceState

\* with_replacement builds a well-formed ledger.
LEMMA EmptyLedgerType == EmptyLedger \in Ledger
BY MaxNonceAssumption DEF EmptyLedger, Ledger, Nonces, NonceState

-----------------------------------------------------------------------------
(* Facts used by every step *)

\* While the engine submits or waits it holds a transaction of this run.
LEMMA HeldTx ==
    ASSUME TypeOK, TxInHand, pc \in {"submit", "wait"}
    PROVE  /\ tx \in Tx /\ tx # NoTx
           /\ tx.nonce \in Nonces /\ tx.run \in Runs /\ tx.plan \in Plans
           /\ tx.run = run
           /\ tx.plan.net \in Nat /\ tx.plan.gas \in 0..MaxGas
<1>1. tx \in Tx /\ tx # NoTx /\ tx.run = run /\ tx.plan.net >= 0
  BY DEF TypeOK, TxInHand
<1>2. tx.plan \in Plans
  BY <1>1 DEF Tx
<1>3. tx.plan \in Plan /\ tx.plan.gas <= MaxGas
  BY <1>2, TradeAssumption
<1>4. tx.plan.net \in Int /\ tx.plan.gas \in Nat
  BY <1>3 DEF Plan
<1>5. QED  BY <1>1, <1>2, <1>3, <1>4, TradeAssumption DEF Tx

\* The booked result of a step: the risk counters keep their types.
LEMMA RiskTypes ==
    ASSUME TypeOK
    PROVE  /\ MarkFailedSubmission => openTxCount' \in Nat /\ dailyPnl' \in [Days -> Int]
           /\ \A v \in Int : MarkFinalized(v) => openTxCount' \in Nat /\ dailyPnl' \in [Days -> Int]
BY DEF TypeOK, MarkFailedSubmission, MarkFinalized

-----------------------------------------------------------------------------
(* Type correctness *)

\* A process that is not started has well-typed managers.
LEMMA TypeInit == Init => TypeOK
<1> SUFFICES ASSUME Init PROVE TypeOK
  OBVIOUS
<1>1. ledger \in Ledger
  BY EmptyLedgerType DEF Init
<1>2. QED
  BY <1>1, TradeAssumption, MaxNonceAssumption DEF Init, TypeOK, NoPnl, Days

\* Every path of process_routed_candidate keeps the types of the managers
\* and of the chain they talk to.
LEMMA TypeStep == TypeOK /\ TxInHand /\ [Next]_vars => TypeOK'
<1> SUFFICES ASSUME TypeOK, TxInHand, [Next]_vars PROVE TypeOK'
  OBVIOUS
<1>1. CASE Start
  <2>1. ledger' \in Ledger
    BY <1>1, AfterSyncFields, EmptyLedgerType DEF Start
  <2>2. run' \in 0..MaxRuns
    BY <1>1, TradeAssumption DEF Start, TypeOK
  <2>3. QED
    BY <1>1, <2>1, <2>2 DEF Start, TypeOK, netVars, NoPnl, Days
<1>2. CASE Crash
  <2>1. broadcast' \subseteq Tx
    BY <1>2, HeldTx DEF Crash, TypeOK
  <2>2. QED
    BY <1>2, <2>1, EmptyLedgerType, TradeAssumption DEF Crash, TypeOK, NoPnl, Days
<1>3. ASSUME NEW p \in Plans, Trade(p) PROVE TypeOK'
  <2>1. ledger' \in Ledger /\ ledger.next \in Nonces
    BY <1>3, AfterReserveFields DEF Trade, TypeOK
  <2>2. run \in Runs
    BY <1>3 DEF Trade, TxInHand
  <2>3. tx' \in Tx
    BY <1>3, <2>1, <2>2 DEF Trade, Tx
  <2>4. QED
    BY <1>3, <2>1, <2>3, TradeAssumption DEF Trade, TypeOK, netVars
<1>4. CASE SubmitOk
  <2>1. tx \in Tx /\ tx.nonce \in Nonces
    BY <1>4, HeldTx DEF SubmitOk
  <2>2. ledger' \in Ledger
    BY <1>4, <2>1, MarkFields DEF SubmitOk, TypeOK
  <2>3. QED
    BY <1>4, <2>1, <2>2 DEF SubmitOk, TypeOK
<1>5. CASE ChannelFails
  <2>1. tx \in Tx
    BY <1>5, HeldTx DEF ChannelFails
  <2>2. QED
    BY <1>5, <2>1, TradeAssumption DEF ChannelFails, TypeOK
<1>6. CASE SubmitFails
  <2>1. ledger' \in Ledger
    BY <1>6, HeldTx, MarkFields DEF SubmitFails, TypeOK
  <2>2. QED
    BY <1>6, <2>1, RiskTypes DEF SubmitFails, TypeOK, netVars
<1>7. ASSUME NEW ok \in BOOLEAN, ReceiptSeen(ok) PROVE TypeOK'
  <2>1. ledger' \in Ledger
    BY <1>7, HeldTx, MarkFields DEF ReceiptSeen, TypeOK
  <2>2. (IF ok THEN tx.plan.net ELSE -tx.plan.gas) \in Int
    BY <1>7, HeldTx DEF ReceiptSeen
  <2>3. openTxCount' \in Nat /\ dailyPnl' \in [Days -> Int]
    BY <1>7, <2>2, RiskTypes DEF ReceiptSeen
  <2>4. QED
    BY <1>7, <2>1, <2>3 DEF ReceiptSeen, TypeOK, netVars
<1>8. CASE ReceiptUnknown
  BY <1>8, RiskTypes DEF ReceiptUnknown, TypeOK, netVars
<1>9. ASSUME NEW t \in broadcast, NodeAccepts(t) PROVE TypeOK'
  BY <1>9 DEF NodeAccepts, TypeOK, engineVars
<1>10. ASSUME NEW t \in mempool, NEW ok \in BOOLEAN, Mine(t, ok) PROVE TypeOK'
  <2>1. t \in Tx /\ t.nonce \in Nonces
    BY DEF TypeOK, Tx
  <2>2. [tx |-> t, ok |-> ok, day |-> day] \in Receipt
    BY <2>1 DEF TypeOK, Receipt
  <2>3. chainNonce' \in 0..(MaxNonce + 1)
    BY <1>10, <2>1, MaxNonceAssumption DEF Mine, TypeOK, Nonces
  <2>4. QED
    BY <1>10, <2>2, <2>3 DEF Mine, TypeOK, engineVars
<1>11. ASSUME NEW t \in mempool, Evict(t) PROVE TypeOK'
  BY <1>11 DEF Evict, TypeOK, engineVars
<1>12. CASE NextDay
  BY <1>12, TradeAssumption DEF NextDay, TypeOK, engineVars, netVars, Days
<1>13. CASE UNCHANGED vars
  BY <1>13 DEF vars, engineVars, netVars, TypeOK
<1>14. QED
  BY <1>1, <1>2, <1>3, <1>4, <1>5, <1>6, <1>7, <1>8, <1>9, <1>10, <1>11, <1>12, <1>13
     DEF Next

-----------------------------------------------------------------------------
(* The engine's side of the invariant *)

\* The environment does not touch the engine's memory.
Environment ==
    \/ \E t \in broadcast : NodeAccepts(t)
    \/ \E t \in mempool, ok \in BOOLEAN : Mine(t, ok)
    \/ \E t \in mempool : Evict(t)
    \/ NextDay
    \/ UNCHANGED vars

\* Nodes, chain and clock change none of the process's variables.
LEMMA EnvironmentKeepsEngine == Environment => UNCHANGED engineVars
BY DEF Environment, NodeAccepts, Mine, Evict, NextDay, vars

\* Every step is one of the engine's or one of the environment's.
LEMMA StepCases ==
    [Next]_vars =>
        \/ Start \/ Crash \/ (\E p \in Plans : Trade(p))
        \/ SubmitOk \/ ChannelFails \/ SubmitFails
        \/ (\E ok \in BOOLEAN : ReceiptSeen(ok)) \/ ReceiptUnknown
        \/ Environment
BY DEF Next, Environment

\* The engine goes on holding exactly the transaction it is busy with.
LEMMA TxInHandStep ==
    TypeOK /\ TxInHand /\ [Next]_vars => TxInHand'
<1> SUFFICES ASSUME TypeOK, TxInHand, [Next]_vars PROVE TxInHand'
  OBVIOUS
<1>1. CASE Start
  BY <1>1, TradeAssumption DEF Start, TxInHand, TypeOK, Runs
<1>2. CASE Crash
  BY <1>2 DEF Crash, TxInHand
<1>3. ASSUME NEW p \in Plans, Trade(p) PROVE TxInHand'
  <2>1. ledger' \in Ledger /\ ledger'.next = ledger.next + 1 /\ ledger.next \in Nonces
    BY <1>3, AfterReserveFields DEF Trade, TypeOK
  <2>2. tx' \in Tx /\ tx' # NoTx
    BY <1>3, <2>1, NoTxAssumption DEF Trade, Tx, TxInHand
  <2>3. tx'.run = run /\ tx'.plan = p /\ tx'.nonce = ledger.next
    BY <1>3 DEF Trade
  <2>4. p.net >= 0
    BY <1>3 DEF Trade, PreTradeCheck
  <2>5. tx'.nonce < ledger'.next
    BY <2>1, <2>3, MaxNonceAssumption DEF Nonces
  <2>6. QED
    BY <1>3, <2>2, <2>3, <2>4, <2>5 DEF Trade, TxInHand
<1>4. CASE SubmitOk
  <2>1. ledger'.next = ledger.next
    BY <1>4, HeldTx, MarkFields DEF SubmitOk, TypeOK
  <2>2. QED
    BY <1>4, <2>1 DEF SubmitOk, TxInHand
<1>5. CASE ChannelFails
  BY <1>5 DEF ChannelFails, TxInHand
<1>6. CASE SubmitFails
  BY <1>6 DEF SubmitFails, TxInHand
<1>7. ASSUME NEW ok \in BOOLEAN, ReceiptSeen(ok) PROVE TxInHand'
  BY <1>7 DEF ReceiptSeen, TxInHand
<1>8. CASE ReceiptUnknown
  BY <1>8 DEF ReceiptUnknown, TxInHand
<1>9. CASE Environment
  BY <1>9, EnvironmentKeepsEngine DEF engineVars, TxInHand
<1>10. QED
  BY <1>1, <1>2, <1>3, <1>4, <1>5, <1>6, <1>7, <1>8, <1>9, StepCases

\* Every path of process_routed_candidate that takes a slot gives it back once.
LEMMA OpenCountStep ==
    TypeOK /\ TxInHand /\ OpenCountExact /\ [Next]_vars => OpenCountExact'
<1> SUFFICES ASSUME TypeOK, TxInHand, OpenCountExact, [Next]_vars PROVE OpenCountExact'
  OBVIOUS
<1> USE DEF OpenCountExact
<1>1. CASE Start
  BY <1>1 DEF Start
<1>2. CASE Crash
  BY <1>2 DEF Crash
<1>3. ASSUME NEW p \in Plans, Trade(p) PROVE OpenCountExact'
  BY <1>3 DEF Trade
<1>4. CASE SubmitOk
  BY <1>4 DEF SubmitOk
<1>5. CASE ChannelFails
  BY <1>5 DEF ChannelFails
<1>6. CASE SubmitFails
  BY <1>6 DEF SubmitFails, MarkFailedSubmission
<1>7. ASSUME NEW ok \in BOOLEAN, ReceiptSeen(ok) PROVE OpenCountExact'
  BY <1>7 DEF ReceiptSeen, MarkFinalized
<1>8. CASE ReceiptUnknown
  BY <1>8 DEF ReceiptUnknown, MarkFailedSubmission
<1>9. CASE Environment
  BY <1>9, EnvironmentKeepsEngine DEF engineVars
<1>10. QED
  BY <1>1, <1>2, <1>3, <1>4, <1>5, <1>6, <1>7, <1>8, <1>9, StepCases

\* Every call on NonceManager leaves its states and its table agreeing.
LEMMA LedgerStep ==
    TypeOK /\ TxInHand /\ LedgerConsistent /\ [Next]_vars => LedgerConsistent'
<1> SUFFICES ASSUME TypeOK, TxInHand, LedgerConsistent, [Next]_vars PROVE LedgerConsistent'
  OBVIOUS
<1>1. CASE Start
  <2>1. /\ ledger'.states = EmptyLedger.states
        /\ ledger'.pending = EmptyLedger.pending
    BY <1>1, AfterSyncFields, EmptyLedgerType DEF Start
  <2>2. \A n \in Nonces : ledger'.states[n] = "Absent"
    BY <2>1 DEF EmptyLedger
  <2>3. QED
    BY <1>1, <2>1, <2>2 DEF Start, EmptyLedger, LedgerConsistent
<1>2. CASE Crash
  BY <1>2 DEF Crash, EmptyLedger, LedgerConsistent
<1>3. ASSUME NEW p \in Plans, Trade(p) PROVE LedgerConsistent'
  <2> DEFINE k == ledger.next
  <2>1. /\ ledger' \in Ledger /\ k \in Nonces
        /\ ledger'.next = k + 1
        /\ ledger'.states = [ledger.states EXCEPT ![k] = "Reserved"]
        /\ ledger'.pending = ledger.pending
    BY <1>3, AfterReserveFields DEF Trade, TypeOK
  <2>2. ledger.states \in [Nonces -> NonceState] /\ ledger.states[k] = "Absent"
    BY <2>1, MaxNonceAssumption DEF TypeOK, Ledger, LedgerConsistent, Nonces
  <2>3. tx'.nonce = k /\ pc = "idle" /\ pc' = "submit"
    BY <1>3 DEF Trade
  <2>4. \A n \in Nonces : ledger'.states[n] = IF n = k THEN "Reserved" ELSE ledger.states[n]
    BY <2>1, <2>2
  <2>5. \A n \in Nonces : ledger.states[n] # "Reserved"
    BY <2>3 DEF LedgerConsistent
  <2>6. \A n \in Nonces : ledger'.states[n] # "Absent" => n < k + 1
    BY <2>1, <2>4, MaxNonceAssumption DEF LedgerConsistent, Nonces
  <2>7. \A m, n \in Nonces :
           m < n /\ n < k + 1 /\ ledger'.states[m] # "Absent" => ledger'.states[n] # "Absent"
    BY <2>1, <2>4, <2>6, MaxNonceAssumption DEF LedgerConsistent, Nonces
  <2>8. ledger'.pending = {n \in Nonces : ledger'.states[n] = "Submitted"}
    BY <2>1, <2>2, <2>4 DEF LedgerConsistent
  <2>9. QED
    BY <2>1, <2>3, <2>4, <2>5, <2>6, <2>7, <2>8 DEF LedgerConsistent
<1>4. CASE SubmitOk
  <2>1. /\ ledger'.next = ledger.next
        /\ ledger'.states = [ledger.states EXCEPT ![tx.nonce] = "Submitted"]
        /\ ledger'.pending = ledger.pending \union {tx.nonce}
        /\ tx.nonce \in Nonces
    BY <1>4, HeldTx, MarkFields DEF SubmitOk, TypeOK
  <2>2. ledger.states \in [Nonces -> NonceState]
    BY DEF TypeOK, Ledger
  <2>3. pc = "submit" /\ pc' = "wait" /\ tx' = tx
    BY <1>4 DEF SubmitOk
  <2>4. QED
    BY <2>1, <2>2, <2>3 DEF LedgerConsistent
<1>5. CASE ChannelFails
  BY <1>5 DEF ChannelFails, LedgerConsistent
<1>6. CASE SubmitFails
  <2>1. /\ ledger'.next = ledger.next
        /\ ledger'.states = [ledger.states EXCEPT ![tx.nonce] = "Dropped"]
        /\ ledger'.pending = ledger.pending \ {tx.nonce}
        /\ tx.nonce \in Nonces
    BY <1>6, HeldTx, MarkFields DEF SubmitFails, TypeOK
  <2>2. ledger.states \in [Nonces -> NonceState]
    BY DEF TypeOK, Ledger
  <2>3. pc = "submit" /\ pc' = "idle"
    BY <1>6 DEF SubmitFails
  <2>4. QED
    BY <2>1, <2>2, <2>3 DEF LedgerConsistent
<1>7. ASSUME NEW ok \in BOOLEAN, ReceiptSeen(ok) PROVE LedgerConsistent'
  <2>1. /\ ledger'.next = ledger.next
        /\ ledger'.states = [ledger.states EXCEPT ![tx.nonce] = "Included"]
        /\ ledger'.pending = ledger.pending \ {tx.nonce}
        /\ tx.nonce \in Nonces
    BY <1>7, HeldTx, MarkFields DEF ReceiptSeen, TypeOK
  <2>2. ledger.states \in [Nonces -> NonceState]
    BY DEF TypeOK, Ledger
  <2>3. pc = "wait" /\ pc' = "idle"
    BY <1>7 DEF ReceiptSeen
  <2>4. QED
    BY <2>1, <2>2, <2>3 DEF LedgerConsistent
<1>8. CASE ReceiptUnknown
  BY <1>8 DEF ReceiptUnknown, LedgerConsistent
<1>9. CASE Environment
  BY <1>9, EnvironmentKeepsEngine DEF engineVars, LedgerConsistent
<1>10. QED
  BY <1>1, <1>2, <1>3, <1>4, <1>5, <1>6, <1>7, <1>8, <1>9, StepCases

-----------------------------------------------------------------------------
(* The booked loss *)

\* A result is booked only while the loss before it was within the limit.
LEMMA LossStep ==
    TypeOK /\ TxInHand /\ DailyLossBounded /\ LossInHand /\ [Next]_vars
        => DailyLossBounded' /\ LossInHand'
<1> SUFFICES ASSUME TypeOK, TxInHand, DailyLossBounded, LossInHand, [Next]_vars
             PROVE  DailyLossBounded' /\ LossInHand'
  OBVIOUS
<1> DEFINE Limit == DailyLossLimit
<1>0. /\ Limit \in Nat /\ MaxGas \in Nat /\ MaxDay \in Nat
      /\ dailyPnl \in [Days -> Int] /\ day \in Days
      /\ \A d \in Days : dailyPnl[d] \in Int
  BY TradeAssumption DEF TypeOK
<1>a. ASSUME dailyPnl' = NoPnl PROVE DailyLossBounded' /\ \A d \in Days : dailyPnl'[d] = 0
  BY <1>a, <1>0 DEF DailyLossBounded, NoPnl
<1>b. ASSUME UNCHANGED <<dailyPnl, day>>, pc' \notin {"submit", "wait"} \/ pc \in {"submit", "wait"}
      PROVE  DailyLossBounded' /\ LossInHand'
  BY <1>b DEF DailyLossBounded, LossInHand
<1>1. CASE Start
  <2>1. dailyPnl' = NoPnl /\ day' = day /\ pc' = "idle"
    BY <1>1 DEF Start
  <2>2. QED
    BY <2>1, <1>a DEF LossInHand
<1>2. CASE Crash
  <2>1. dailyPnl' = NoPnl /\ day' = day /\ pc' = "down"
    BY <1>2 DEF Crash
  <2>2. QED
    BY <2>1, <1>a DEF LossInHand
<1>3. ASSUME NEW p \in Plans, Trade(p) PROVE DailyLossBounded' /\ LossInHand'
  <2>1. dailyPnl[day] >= -Limit
    BY <1>3, <1>0 DEF Trade, PreTradeCheck, WithinLossLimit
  <2>2. UNCHANGED <<dailyPnl, day>>
    BY <1>3 DEF Trade
  <2>3. QED
    BY <2>1, <2>2 DEF DailyLossBounded, LossInHand
<1>4. CASE SubmitOk
  BY <1>4, <1>b DEF SubmitOk
<1>5. CASE ChannelFails
  BY <1>5, <1>b DEF ChannelFails
<1>6. CASE SubmitFails
  BY <1>6, <1>b DEF SubmitFails, MarkFailedSubmission
<1>7. ASSUME NEW ok \in BOOLEAN, ReceiptSeen(ok) PROVE DailyLossBounded' /\ LossInHand'
  <2> DEFINE v == IF ok THEN tx.plan.net ELSE -tx.plan.gas
  <2>1. pc = "wait" /\ pc' = "idle" /\ day' = day
    BY <1>7 DEF ReceiptSeen
  <2>2. v \in Int /\ v >= -MaxGas
    BY <1>0, <2>1, HeldTx
  <2>3. \/ dailyPnl' = dailyPnl
        \/ dailyPnl' = [dailyPnl EXCEPT ![day] = @ + v]
    BY <1>7 DEF ReceiptSeen, MarkFinalized
  <2>4. dailyPnl[day] >= -Limit
    BY <2>1 DEF LossInHand
  <2>5. dailyPnl'[day] >= -(Limit + MaxGas)
    BY <1>0, <2>2, <2>3, <2>4
  <2>6. \A d \in Days : d # day => dailyPnl'[d] = dailyPnl[d]
    BY <1>0, <2>3
  <2>7. DailyLossBounded'
    BY <2>1, <2>5, <2>6 DEF DailyLossBounded
  <2>8. LossInHand'
    BY <1>0, <2>1, <2>6 DEF LossInHand, Days
  <2>9. QED
    BY <2>7, <2>8
<1>8. CASE ReceiptUnknown
  BY <1>8, <1>b DEF ReceiptUnknown, MarkFailedSubmission
<1>9. CASE Environment
  <2>1. UNCHANGED engineVars
    BY <1>9, EnvironmentKeepsEngine
  <2>2. CASE day' = day
    BY <2>1, <2>2, <1>b DEF engineVars, LossInHand, DailyLossBounded
  <2>3. CASE NextDay
    <3>1. day' \in Days /\ day' > day /\ dailyPnl' = dailyPnl /\ pc' = pc
      BY <2>3, <2>1, <1>0 DEF NextDay, Days, engineVars
    <3>2. dailyPnl'[day'] = 0
      BY <3>1 DEF LossInHand
    <3>3. DailyLossBounded'
      BY <3>1 DEF DailyLossBounded
    <3>4. \A d \in Days : d > day' => d > day
      BY <3>1, <1>0 DEF Days
    <3>5. QED
      BY <3>1, <3>2, <3>3, <3>4, <1>0 DEF LossInHand
  <2>4. QED
    BY <1>9, <2>2, <2>3 DEF Environment, NodeAccepts, Mine, Evict, vars
<1>10. QED
  BY <1>1, <1>2, <1>3, <1>4, <1>5, <1>6, <1>7, <1>8, <1>9, StepCases

-----------------------------------------------------------------------------
(* What has been broadcast and executed *)

\* Nothing is queued or executed that no channel was sent.
LEMMA BroadcastStep ==
    TypeOK /\ TxInHand /\ NetworkSeesBroadcast /\ [Next]_vars => NetworkSeesBroadcast'
<1> SUFFICES ASSUME TypeOK, TxInHand, NetworkSeesBroadcast, [Next]_vars
             PROVE  NetworkSeesBroadcast'
  OBVIOUS
<1>0. /\ run \in Nat
      /\ pc \in {"submit", "wait"} => tx.run = run
      /\ \A t \in broadcast : t.run <= run
  BY TradeAssumption DEF TypeOK, TxInHand, NetworkSeesBroadcast
<1>1. CASE Start
  <2>1. run' = run + 1 /\ UNCHANGED <<broadcast, mempool, mined>>
    BY <1>1 DEF Start, netVars
  <2>2. \A t \in broadcast : t.run \in Nat
    BY TradeAssumption DEF TypeOK, Tx, Runs
  <2>3. QED
    BY <1>0, <2>1, <2>2 DEF NetworkSeesBroadcast
<1>2. CASE Crash
  BY <1>0, <1>2 DEF Crash, NetworkSeesBroadcast
<1>3. ASSUME NEW p \in Plans, Trade(p) PROVE NetworkSeesBroadcast'
  BY <1>3 DEF Trade, netVars, NetworkSeesBroadcast
<1>4. CASE SubmitOk
  BY <1>0, <1>4 DEF SubmitOk, NetworkSeesBroadcast
<1>5. CASE ChannelFails
  BY <1>0, <1>5 DEF ChannelFails, NetworkSeesBroadcast
<1>6. CASE SubmitFails
  BY <1>6 DEF SubmitFails, netVars, NetworkSeesBroadcast
<1>7. ASSUME NEW ok \in BOOLEAN, ReceiptSeen(ok) PROVE NetworkSeesBroadcast'
  BY <1>7 DEF ReceiptSeen, netVars, NetworkSeesBroadcast
<1>8. CASE ReceiptUnknown
  BY <1>8 DEF ReceiptUnknown, netVars, NetworkSeesBroadcast
<1>9. CASE Environment
  <2>1. ASSUME NEW t \in mempool, NEW ok \in BOOLEAN, Mine(t, ok) PROVE NetworkSeesBroadcast'
    BY <2>1 DEF Mine, engineVars, NetworkSeesBroadcast
  <2>2. QED
    BY <1>9, <2>1
       DEF Environment, NodeAccepts, Evict, NextDay, vars, engineVars, netVars, NetworkSeesBroadcast
<1>10. QED
  BY <1>1, <1>2, <1>3, <1>4, <1>5, <1>6, <1>7, <1>8, <1>9, StepCases

\* A nonce that is signed for was never used by this run before, so what is
\* broadcast under it is the transaction in hand.
LEMMA SignedStep ==
    /\ TypeOK /\ TxInHand /\ LedgerConsistent /\ NetworkSeesBroadcast
    /\ InHandUnique /\ SignedOnce /\ [Next]_vars
    => InHandUnique' /\ SignedOnce'
<1> SUFFICES ASSUME TypeOK, TxInHand, LedgerConsistent, NetworkSeesBroadcast,
                    InHandUnique, SignedOnce, [Next]_vars
             PROVE  InHandUnique' /\ SignedOnce'
  OBVIOUS
<1>0. /\ run \in Nat
      /\ ledger \in Ledger
      /\ ledger.states \in [Nonces -> NonceState]
      /\ \A t \in broadcast : t.nonce \in Nonces /\ t.run \in Nat /\ t.run <= run
      /\ pc = "down" => tx = NoTx
  BY TradeAssumption DEF TypeOK, Ledger, Tx, Runs, NetworkSeesBroadcast, TxInHand
<1>a. ASSUME UNCHANGED <<broadcast, run>>, pc # "down", tx' \in {tx, NoTx},
             \A n \in Nonces : ledger.states[n] # "Absent" => ledger'.states[n] # "Absent"
      PROVE  InHandUnique' /\ SignedOnce'
  BY <1>a, <1>0 DEF InHandUnique, SignedOnce
<1>1. CASE Start
  <2>1. run' = run + 1 /\ broadcast' = broadcast /\ tx' = NoTx
    BY <1>1, <1>0 DEF Start, netVars
  <2>2. \A t \in broadcast : t.run # run + 1
    BY <1>0
  <2>3. QED
    BY <2>1, <2>2 DEF InHandUnique, SignedOnce
<1>2. CASE Crash
  <2>1. pc' = "down" /\ tx' = NoTx /\ run' = run
    BY <1>2 DEF Crash
  <2>2. CASE UNCHANGED broadcast
    BY <2>1, <2>2 DEF InHandUnique, SignedOnce
  <2>3. CASE pc = "submit" /\ broadcast' = broadcast \union {tx}
    <3>1. tx # NoTx /\ tx.run = run
      BY <2>3, HeldTx
    <3>2. QED
      BY <2>1, <2>3, <3>1 DEF InHandUnique, SignedOnce
  <2>4. QED
    BY <1>2, <2>2, <2>3 DEF Crash
<1>3. ASSUME NEW p \in Plans, Trade(p) PROVE InHandUnique' /\ SignedOnce'
  <2> DEFINE k == ledger.next
  <2>1. /\ k \in Nonces
        /\ ledger'.states = [ledger.states EXCEPT ![k] = "Reserved"]
    BY <1>0, <1>3, AfterReserveFields DEF Trade
  <2>2. ledger.states[k] = "Absent"
    BY <1>0, <2>1, MaxNonceAssumption DEF LedgerConsistent, Nonces
  <2>3. tx'.nonce = k /\ UNCHANGED <<broadcast, run>> /\ pc = "idle"
    BY <1>3 DEF Trade, netVars
  <2>4. \A t \in broadcast : t.run = run => ledger.states[t.nonce] # "Absent"
    BY <2>3 DEF SignedOnce
  <2>5. InHandUnique'
    BY <2>2, <2>3, <2>4 DEF InHandUnique
  <2>6. \A t \in broadcast : t.run = run => ledger'.states[t.nonce] # "Absent"
    BY <1>0, <2>1, <2>4
  <2>7. SignedOnce'
    BY <2>3, <2>6 DEF SignedOnce
  <2>8. QED
    BY <2>5, <2>7
<1>4. CASE SubmitOk
  <2>1. /\ ledger'.states = [ledger.states EXCEPT ![tx.nonce] = "Submitted"]
        /\ tx # NoTx /\ tx.nonce \in Nonces /\ tx.run = run
    BY <1>0, <1>4, HeldTx, MarkFields DEF SubmitOk
  <2>2. broadcast' = broadcast \union {tx} /\ tx' = tx /\ run' = run /\ pc = "submit"
    BY <1>4 DEF SubmitOk
  <2>3. QED
    BY <1>0, <2>1, <2>2 DEF InHandUnique, SignedOnce
<1>5. CASE ChannelFails
  <2>1. tx # NoTx /\ tx.nonce \in Nonces /\ tx.run = run
    BY <1>5, HeldTx DEF ChannelFails
  <2>2. ledger.states[tx.nonce] = "Reserved"
    BY <1>5, <2>1 DEF ChannelFails, LedgerConsistent
  <2>3. /\ broadcast' \in {broadcast, broadcast \union {tx}}
        /\ UNCHANGED <<tx, run, pc, ledger>> /\ pc = "submit"
    BY <1>5 DEF ChannelFails
  <2>4. QED
    BY <1>0, <2>1, <2>2, <2>3 DEF InHandUnique, SignedOnce
<1>6. CASE SubmitFails
  <2>1. ledger'.states = [ledger.states EXCEPT ![tx.nonce] = "Dropped"]
    BY <1>0, <1>6, HeldTx, MarkFields DEF SubmitFails
  <2>2. QED
    BY <1>0, <1>6, <2>1, <1>a DEF SubmitFails, netVars
<1>7. ASSUME NEW ok \in BOOLEAN, ReceiptSeen(ok) PROVE InHandUnique' /\ SignedOnce'
  <2>1. ledger'.states = [ledger.states EXCEPT ![tx.nonce] = "Included"]
    BY <1>0, <1>7, HeldTx, MarkFields DEF ReceiptSeen
  <2>2. QED
    BY <1>0, <1>7, <2>1, <1>a DEF ReceiptSeen, netVars
<1>8. CASE ReceiptUnknown
  BY <1>8, <1>a DEF ReceiptUnknown, netVars
<1>9. CASE Environment
  <2>1. UNCHANGED <<pc, run, ledger, tx>>
    BY <1>9, EnvironmentKeepsEngine DEF engineVars
  <2>2. broadcast' = broadcast
    BY <1>9 DEF Environment, NodeAccepts, Mine, Evict, NextDay, vars, netVars
  <2>3. QED
    BY <2>1, <2>2 DEF InHandUnique, SignedOnce
<1>10. QED
  BY <1>1, <1>2, <1>3, <1>4, <1>5, <1>6, <1>7, <1>8, <1>9, StepCases

\* A nonce becomes Included only when the receipt of the very transaction the
\* engine waits for has been seen, and a receipt is never taken back.
LEMMA IncludedStep ==
    TypeOK /\ TxInHand /\ IncludedIsMined /\ [Next]_vars => IncludedIsMined'
<1> SUFFICES ASSUME TypeOK, TxInHand, IncludedIsMined, [Next]_vars
             PROVE  IncludedIsMined'
  OBVIOUS
<1>0. ledger \in Ledger /\ ledger.states \in [Nonces -> NonceState]
  BY DEF TypeOK, Ledger
<1>a. ASSUME run' = run, mined \subseteq mined',
             \A n \in Nonces : ledger'.states[n] = "Included" => ledger.states[n] = "Included"
      PROVE  IncludedIsMined'
  BY <1>a DEF IncludedIsMined
<1>1. CASE Start
  <2>1. ledger'.states = EmptyLedger.states
    BY <1>1, AfterSyncFields, EmptyLedgerType DEF Start
  <2>2. QED
    BY <2>1 DEF EmptyLedger, IncludedIsMined
<1>2. CASE Crash
  BY <1>2 DEF Crash, EmptyLedger, IncludedIsMined
<1>3. ASSUME NEW p \in Plans, Trade(p) PROVE IncludedIsMined'
  <2>1. /\ ledger.next \in Nonces
        /\ ledger'.states = [ledger.states EXCEPT ![ledger.next] = "Reserved"]
    BY <1>0, <1>3, AfterReserveFields DEF Trade
  <2>2. QED
    BY <1>0, <1>3, <2>1, <1>a DEF Trade, netVars
<1>4. CASE SubmitOk
  <2>1. ledger'.states = [ledger.states EXCEPT ![tx.nonce] = "Submitted"]
    BY <1>0, <1>4, HeldTx, MarkFields DEF SubmitOk
  <2>2. QED
    BY <1>0, <1>4, <2>1, <1>a DEF SubmitOk
<1>5. CASE ChannelFails
  BY <1>5, <1>a DEF ChannelFails
<1>6. CASE SubmitFails
  <2>1. ledger'.states = [ledger.states EXCEPT ![tx.nonce] = "Dropped"]
    BY <1>0, <1>6, HeldTx, MarkFields DEF SubmitFails
  <2>2. QED
    BY <1>0, <1>6, <2>1, <1>a DEF SubmitFails, netVars
<1>7. ASSUME NEW ok \in BOOLEAN, ReceiptSeen(ok) PROVE IncludedIsMined'
  <2>1. /\ ledger'.states = [ledger.states EXCEPT ![tx.nonce] = "Included"]
        /\ tx.run = run /\ tx.nonce \in Nonces
    BY <1>0, <1>7, HeldTx, MarkFields DEF ReceiptSeen
  <2>2. PICK r \in mined : r.tx = tx
    BY <1>7 DEF ReceiptSeen
  <2>3. run' = run /\ mined' = mined
    BY <1>7 DEF ReceiptSeen, netVars
  <2>4. QED
    BY <1>0, <2>1, <2>2, <2>3 DEF IncludedIsMined
<1>8. CASE ReceiptUnknown
  BY <1>8, <1>a DEF ReceiptUnknown, netVars
<1>9. CASE Environment
  <2>1. UNCHANGED <<run, ledger>>
    BY <1>9, EnvironmentKeepsEngine DEF engineVars
  <2>2. mined \subseteq mined'
    BY <1>9 DEF Environment, NodeAccepts, Mine, Evict, NextDay, vars, netVars
  <2>3. QED
    BY <2>1, <2>2, <1>a
<1>10. QED
  BY <1>1, <1>2, <1>3, <1>4, <1>5, <1>6, <1>7, <1>8, <1>9, StepCases

-----------------------------------------------------------------------------
(* The invariant *)

\* The account that nothing was signed for satisfies the invariant.
LEMMA InvInit == Init => IInv
<1> SUFFICES ASSUME Init PROVE IInv
  OBVIOUS
<1>1. TypeOK
  BY TypeInit
<1>2. LedgerConsistent
  BY DEF Init, EmptyLedger, LedgerConsistent
<1>3. OpenCountExact /\ TxInHand
  BY DEF Init, OpenCountExact, TxInHand
<1>4. DailyLossBounded /\ LossInHand
  BY TradeAssumption DEF Init, DailyLossBounded, LossInHand, NoPnl
<1>5. NetworkSeesBroadcast /\ InHandUnique /\ SignedOnce
  BY DEF Init, NetworkSeesBroadcast, InHandUnique, SignedOnce
<1>6. IncludedIsMined
  BY DEF Init, EmptyLedger, IncludedIsMined
<1>7. QED
  BY <1>1, <1>2, <1>3, <1>4, <1>5, <1>6 DEF IInv

\* IInv is inductive.
LEMMA InvStep == IInv /\ [Next]_vars => IInv'
BY TypeStep, TxInHandStep, OpenCountStep, LedgerStep, LossStep, BroadcastStep, SignedStep,
   IncludedStep
   DEF IInv

\* The conjunction every result below is read off from.
THEOREM Invariance == Spec => []IInv
BY InvInit, InvStep, PTL DEF Spec

\* The managers, the transaction in hand and the chain keep their types.
THEOREM TypeCorrect == Spec => []TypeOK
<1>1. IInv => TypeOK
  BY DEF IInv
<1>2. QED
  BY <1>1, Invariance, PTL

\* NonceManager's two maps agree, and no nonce is skipped or left Reserved
\* behind, whatever the channels and the receipts answer.
THEOREM LedgerIsConsistent == Spec => []LedgerConsistent
<1>1. IInv => LedgerConsistent
  BY DEF IInv
<1>2. QED
  BY <1>1, Invariance, PTL

\* No two transactions of one run carry the same nonce, and all that is on
\* the wire is in the ledger.
THEOREM NoNonceSignedTwice == Spec => []SignedOnce
<1>1. IInv => SignedOnce
  BY DEF IInv
<1>2. QED
  BY <1>1, Invariance, PTL

\* The concurrency slot is never leaked and never returned twice.
THEOREM SlotsAreExact == Spec => []OpenCountExact
<1>1. IInv => OpenCountExact
  BY DEF IInv
<1>2. QED
  BY <1>1, Invariance, PTL

\* For every loss limit and gas bound, a day's booked loss exceeds the limit
\* by at most the gas of one revert.
THEOREM LossIsBounded == Spec => []DailyLossBounded
<1>1. IInv => DailyLossBounded
  BY DEF IInv
<1>2. QED
  BY <1>1, Invariance, PTL

\* The ledger calls nothing Included that the chain did not execute.
THEOREM IncludedWasMined == Spec => []IncludedIsMined
<1>1. IInv => IncludedIsMined
  BY DEF IInv
<1>2. QED
  BY <1>1, Invariance, PTL

-----------------------------------------------------------------------------
(* What a step may do to a nonce *)

\* Each call on NonceManager moves one nonce along Successors.
LEMMA AdvanceStep == IInv /\ [Next]_vars => NonceAdvances
<1> SUFFICES ASSUME IInv, [Next]_vars, pc # "down", pc' # "down" PROVE NonceAdvances
  BY DEF NonceAdvances
<1>0. /\ TypeOK /\ TxInHand /\ LedgerConsistent
      /\ ledger \in Ledger /\ ledger.next \in Nat /\ ledger.states \in [Nonces -> NonceState]
  BY MaxNonceAssumption DEF IInv, TypeOK, Ledger
<1>a. ASSUME NEW n \in Nonces, NEW s,
             s \in Successors[ledger.states[n]], ledger'.next >= ledger.next,
             ledger'.states = [ledger.states EXCEPT ![n] = s]
      PROVE  NonceAdvances
  BY <1>0, <1>a DEF NonceAdvances
<1>b. ASSUME UNCHANGED ledger PROVE NonceAdvances
  BY <1>0, <1>b DEF NonceAdvances
<1>1. ~Start /\ ~Crash
  BY DEF Start, Crash
<1>2. ASSUME NEW p \in Plans, Trade(p) PROVE NonceAdvances
  <2> DEFINE k == ledger.next
  <2>1. /\ k \in Nonces /\ ledger'.next = k + 1
        /\ ledger'.states = [ledger.states EXCEPT ![k] = "Reserved"]
    BY <1>0, <1>2, AfterReserveFields DEF Trade
  <2>2. ledger.states[k] = "Absent"
    BY <1>0, <2>1 DEF LedgerConsistent
  <2>3. QED
    BY <1>0, <1>a, <2>1, <2>2 DEF Successors
<1>3. CASE SubmitOk
  <2>1. /\ tx.nonce \in Nonces /\ ledger'.next = ledger.next
        /\ ledger'.states = [ledger.states EXCEPT ![tx.nonce] = "Submitted"]
    BY <1>0, <1>3, HeldTx, MarkFields DEF SubmitOk
  <2>2. ledger.states[tx.nonce] = "Reserved"
    BY <1>0, <1>3, <2>1 DEF SubmitOk, LedgerConsistent
  <2>3. QED
    BY <1>0, <1>a, <2>1, <2>2 DEF Successors
<1>4. CASE ChannelFails
  BY <1>4, <1>b DEF ChannelFails
<1>5. CASE SubmitFails
  <2>1. /\ tx.nonce \in Nonces /\ ledger'.next = ledger.next
        /\ ledger'.states = [ledger.states EXCEPT ![tx.nonce] = "Dropped"]
    BY <1>0, <1>5, HeldTx, MarkFields DEF SubmitFails
  <2>2. ledger.states[tx.nonce] = "Reserved"
    BY <1>0, <1>5, <2>1 DEF SubmitFails, LedgerConsistent
  <2>3. QED
    BY <1>0, <1>a, <2>1, <2>2 DEF Successors
<1>6. ASSUME NEW ok \in BOOLEAN, ReceiptSeen(ok) PROVE NonceAdvances
  <2>1. /\ tx.nonce \in Nonces /\ ledger'.next = ledger.next
        /\ ledger'.states = [ledger.states EXCEPT ![tx.nonce] = "Included"]
    BY <1>0, <1>6, HeldTx, MarkFields DEF ReceiptSeen
  <2>2. ledger.states[tx.nonce] = "Submitted"
    BY <1>0, <1>6 DEF ReceiptSeen, LedgerConsistent
  <2>3. QED
    BY <1>0, <1>a, <2>1, <2>2 DEF Successors
<1>7. CASE ReceiptUnknown
  BY <1>7, <1>b DEF ReceiptUnknown
<1>8. CASE Environment
  BY <1>8, <1>b, EnvironmentKeepsEngine DEF engineVars
<1>9. QED
  BY <1>1, <1>2, <1>3, <1>4, <1>5, <1>6, <1>7, <1>8, StepCases

\* While a process lives a nonce is never handed out again and never leaves
\* Included or Dropped, and the counter never goes back.
THEOREM NonceNeverReused == Spec => NonceOnlyAdvances
<1>1. IInv /\ [Next]_vars => [NonceAdvances]_vars
  BY AdvanceStep
<1>2. QED
  BY <1>1, Invariance, PTL DEF Spec, NonceOnlyAdvances

-----------------------------------------------------------------------------
(* TradeLifecycle implements TradeBook *)

Verdicts == [n \in Nonces |-> VerdictOf(n)]

\* A managers' state nobody has traded from is the empty book.
LEMMA RestartIsRestart ==
    ASSUME ledger'.states = EmptyLedger.states, dailyPnl' = NoPnl, day' = day
    PROVE  Book!Restart
<1>1. \A n \in Nonces : VerdictOf(n)' = "none"
  BY DEF VerdictOf, Verdict, EmptyLedger
<1>2. QED
  BY <1>1 DEF Book!Restart, Book!NoVerdict, NoPnl

\* Every step of the engine, its environment and a crash is a step of the
\* book or leaves it unchanged.
LEMMA BookStep == IInv /\ [Next]_vars => [Book!Next]_(Book!bookVars)
<1> SUFFICES ASSUME IInv, [Next]_vars PROVE [Book!Next]_(Book!bookVars)
  OBVIOUS
<1>0. /\ TypeOK /\ TxInHand /\ LedgerConsistent /\ OpenCountExact
      /\ ledger \in Ledger /\ ledger.states \in [Nonces -> NonceState]
  BY DEF IInv, TypeOK, Ledger
<1>a. ASSUME UNCHANGED <<dailyPnl, day>>, \A n \in Nonces : VerdictOf(n)' = VerdictOf(n)
      PROVE  UNCHANGED Book!bookVars
  BY <1>a DEF Book!bookVars
<1>b. ASSUME NEW k \in Nonces, NEW v,
             VerdictOf(k)' = v, \A n \in Nonces \ {k} : VerdictOf(n)' = VerdictOf(n)
      PROVE  Verdicts' = [Verdicts EXCEPT ![k] = v]
  BY <1>b DEF Verdicts
<1>1. CASE Start
  BY <1>1, AfterSyncFields, EmptyLedgerType, RestartIsRestart DEF Start, Book!Next
<1>2. CASE Crash
  BY <1>2, RestartIsRestart DEF Crash, Book!Next
<1>3. ASSUME NEW p \in Plans, Trade(p) PROVE Book!Next
  <2>0. PICK k \in Nonces : k = ledger.next
    BY <1>3 DEF Trade
  <2>1. /\ k = ledger.next
        /\ ledger'.states = [ledger.states EXCEPT ![k] = "Reserved"]
        /\ pc = "idle" /\ pc' = "submit" /\ UNCHANGED <<dailyPnl, day>>
    BY <1>0, <1>3, <2>0, AfterReserveFields DEF Trade
  <2>2. \A m \in Nonces : VerdictOf(m) # "open"
    BY <1>0, <2>1 DEF VerdictOf, Verdict, LedgerConsistent, NonceState
  <2>3. \A m \in Nonces : m >= k => VerdictOf(m) = "none"
    BY <1>0, <2>1, MaxNonceAssumption DEF VerdictOf, Verdict, LedgerConsistent, Nonces
  <2>4. dailyPnl[day] >= -DailyLossLimit
    BY <1>0, <1>3, TradeAssumption DEF Trade, PreTradeCheck, WithinLossLimit, TypeOK
  <2>5. VerdictOf(k)' = "open" /\ \A n \in Nonces \ {k} : VerdictOf(n)' = VerdictOf(n)
    BY <1>0, <2>1 DEF VerdictOf, Verdict
  <2>6. Verdicts' = [Verdicts EXCEPT ![k] = "open"]
    BY <1>b, <2>1, <2>5
  <2>7. Book!Open(k)
    BY <2>1, <2>2, <2>3, <2>4, <2>6 DEF Book!Open, Verdicts
  <2>8. QED
    BY <2>1, <2>7 DEF Book!Next
<1>4. CASE SubmitOk
  <2>1. /\ tx.nonce \in Nonces /\ pc = "submit" /\ pc' = "wait" /\ tx' = tx
        /\ ledger'.states = [ledger.states EXCEPT ![tx.nonce] = "Submitted"]
        /\ UNCHANGED <<dailyPnl, day>>
    BY <1>0, <1>4, HeldTx, MarkFields DEF SubmitOk
  <2>2. ledger.states[tx.nonce] = "Reserved"
    BY <1>0, <2>1 DEF LedgerConsistent
  <2>3. \A n \in Nonces : VerdictOf(n)' = VerdictOf(n)
    BY <1>0, <2>1, <2>2 DEF VerdictOf, Verdict
  <2>4. QED
    BY <1>a, <2>1, <2>3
<1>5. CASE ChannelFails
  <2>1. \A n \in Nonces : VerdictOf(n)' = VerdictOf(n)
    BY <1>5 DEF ChannelFails, VerdictOf, Verdict
  <2>2. QED
    BY <1>a, <1>5, <2>1 DEF ChannelFails
<1>6. CASE SubmitFails
  <2>0. PICK k \in Nonces : k = tx.nonce
    BY <1>0, <1>6, HeldTx DEF SubmitFails
  <2>1. /\ k = tx.nonce /\ pc = "submit" /\ pc' = "idle"
        /\ ledger'.states = [ledger.states EXCEPT ![k] = "Dropped"]
        /\ UNCHANGED <<dailyPnl, day>>
    BY <1>0, <1>6, <2>0, HeldTx, MarkFields DEF SubmitFails, MarkFailedSubmission
  <2>2. ledger.states[k] = "Reserved"
    BY <1>0, <2>1 DEF LedgerConsistent
  <2>3. /\ VerdictOf(k) = "open" /\ VerdictOf(k)' = "dropped"
        /\ \A n \in Nonces \ {k} : VerdictOf(n)' = VerdictOf(n)
    BY <1>0, <2>1, <2>2 DEF VerdictOf, Verdict
  <2>4. Verdicts' = [Verdicts EXCEPT ![k] = "dropped"]
    BY <1>b, <2>1, <2>3
  <2>5. Book!Close(k)
    BY <2>1, <2>3, <2>4 DEF Book!Close, Verdicts
  <2>6. QED
    BY <2>1, <2>5 DEF Book!Next
<1>7. ASSUME NEW ok \in BOOLEAN, ReceiptSeen(ok) PROVE Book!Next
  <2>0. PICK k \in Nonces : k = tx.nonce
    BY <1>0, <1>7, HeldTx DEF ReceiptSeen
  <2> DEFINE gain == IF ok THEN tx.plan.net ELSE -tx.plan.gas
  <2>1. /\ k = tx.nonce /\ pc = "wait" /\ pc' = "idle" /\ UNCHANGED day
        /\ ledger'.states = [ledger.states EXCEPT ![k] = "Included"]
    BY <1>0, <1>7, <2>0, HeldTx, MarkFields DEF ReceiptSeen
  <2>2. ledger.states[k] = "Submitted"
    BY <1>0, <2>1 DEF LedgerConsistent
  <2>3. /\ VerdictOf(k) = "open" /\ VerdictOf(k)' = "booked"
        /\ \A n \in Nonces \ {k} : VerdictOf(n)' = VerdictOf(n)
    BY <1>0, <2>1, <2>2 DEF VerdictOf, Verdict
  <2>4. Verdicts' = [Verdicts EXCEPT ![k] = "booked"]
    BY <1>b, <2>1, <2>3
  <2>5. dailyPnl' = [dailyPnl EXCEPT ![day] = @ + gain]
    BY <1>0, <1>7, <2>1 DEF ReceiptSeen, MarkFinalized, OpenCountExact
  <2>6. gain \in {p.net : p \in Plans} \union {-p.gas : p \in Plans}
    BY <1>0, <2>1, HeldTx
  <2>7. Book!Settle(k, gain)
    BY <2>1, <2>3, <2>4, <2>5 DEF Book!Settle, Verdicts
  <2>8. QED
    BY <2>1, <2>6, <2>7 DEF Book!Next
<1>8. CASE ReceiptUnknown
  <2>0. PICK k \in Nonces : k = tx.nonce
    BY <1>0, <1>8, HeldTx DEF ReceiptUnknown
  <2>1. /\ k = tx.nonce /\ pc = "wait" /\ pc' = "idle" /\ ledger' = ledger
        /\ UNCHANGED <<dailyPnl, day>>
    BY <1>0, <1>8, <2>0 DEF ReceiptUnknown, MarkFailedSubmission
  <2>2. ledger.states[k] = "Submitted"
    BY <1>0, <2>1 DEF LedgerConsistent
  <2>3. /\ VerdictOf(k) = "open" /\ VerdictOf(k)' = "unknown"
        /\ \A n \in Nonces \ {k} : VerdictOf(n)' = VerdictOf(n)
    BY <1>0, <2>1, <2>2 DEF VerdictOf, Verdict
  <2>4. Verdicts' = [Verdicts EXCEPT ![k] = "unknown"]
    BY <1>b, <2>1, <2>3
  <2>5. Book!Close(k)
    BY <2>1, <2>3, <2>4 DEF Book!Close, Verdicts
  <2>6. QED
    BY <2>1, <2>5 DEF Book!Next
<1>9. CASE Environment
  <2>1. UNCHANGED <<pc, tx, ledger, dailyPnl>>
    BY <1>9, EnvironmentKeepsEngine DEF engineVars
  <2>2. \A n \in Nonces : VerdictOf(n)' = VerdictOf(n)
    BY <2>1 DEF VerdictOf, Verdict
  <2>3. CASE day' = day
    BY <1>a, <2>1, <2>2, <2>3
  <2>4. CASE NextDay
    <3>1. day' = day + 1 /\ day' \in Days
      BY <1>0, <2>4, TradeAssumption DEF NextDay, TypeOK, Days
    <3>2. Book!NextDay
      BY <2>1, <2>2, <3>1 DEF Book!NextDay
    <3>3. QED
      BY <3>2 DEF Book!Next
  <2>5. QED
    BY <1>9, <2>3, <2>4 DEF Environment, NodeAccepts, Mine, Evict, vars
<1>10. QED
  BY <1>1, <1>2, <1>3, <1>4, <1>5, <1>6, <1>7, <1>8, <1>9, StepCases

\* The submission path, with its counters, tables and retries over channels,
\* implements the abstract book for every instance.
THEOREM Refinement == Spec => ImplementsBook
<1>1. Init => Book!Init
  BY TradeAssumption DEF Init, Book!Init, Book!NoVerdict, EmptyLedger, NoPnl, VerdictOf, Verdict
<1>2. QED
  BY <1>1, BookStep, Invariance, PTL DEF Spec, ImplementsBook, Book!Spec

-----------------------------------------------------------------------------
(* Sums over finite sets *)

\* Induction over the natural numbers, about the set of those that have a property
LEMMA InductiveSet ==
    ASSUME NEW S, 0 \in S, \A n \in Nat : n \in S => n + 1 \in S
    PROVE  Nat \subseteq S
<1> DEFINE R == OpToRel(<, Nat)
           T == {n \in Nat : n \notin S}
<1> SUFFICES ASSUME T # {} PROVE FALSE
  OBVIOUS
<1>1. IsWellFoundedOn(R, Nat)
  BY NatLessThanWellFounded, Zenon
<1>2. PICK x \in T : \A y \in T : ~ (<<y, x>> \in R)
  <2> HIDE DEF R
  <2> QED
    BY <1>1, WFMin
<1>3. \A y \in T : ~ (y < x)
  BY <1>2 DEF OpToRel
<1>4. x # 0
  OBVIOUS
<1>5. x - 1 \in Nat /\ x - 1 \in T
  <2>1. x - 1 \in Nat /\ (x - 1) + 1 = x
    BY <1>4
  <2> QED
    BY <2>1
<1> QED
  BY <1>3, <1>5

Pick(s) == CHOOSE x \in s : TRUE

\* g has the sum of f over every subset of S, as MapThenSumSet takes it.
SumsUp(g, f, S) ==
    \A s \in SUBSET S : g[s] = IF s = {} THEN 0 ELSE f[Pick(s)] + g[s \ {Pick(s)}]

LEMMA PickIs ==
    ASSUME NEW s, IsFiniteSet(s), s # {}
    PROVE  /\ Pick(s) \in s /\ IsFiniteSet(s \ {Pick(s)})
           /\ Cardinality(s) \in Nat \ {0}
           /\ Cardinality(s \ {Pick(s)}) = Cardinality(s) - 1
<1>1. Pick(s) \in s
  BY DEF Pick
<1> QED
  BY <1>1, FS_RemoveElement, FS_CardinalityType, FS_EmptySet

\* The sums over the sets of at most n elements
Sums(f, S, n, g) ==
    LET small == {s \in SUBSET S : Cardinality(s) <= n}
    IN  /\ g \in [small -> Int]
        /\ \A s \in small : g[s] = IF s = {} THEN 0 ELSE f[Pick(s)] + g[s \ {Pick(s)}]

LEMMA SumsExist ==
    ASSUME NEW S, IsFiniteSet(S), NEW f \in [S -> Int]
    PROVE  \E g \in [SUBSET S -> Int] : SumsUp(g, f, S)
<1>0. \A s \in SUBSET S : IsFiniteSet(s) /\ Cardinality(s) \in Nat /\ Cardinality(s) <= Cardinality(S)
  BY FS_Subset, FS_CardinalityType
<1> DEFINE T == {n \in Nat : \E g : Sums(f, S, n, g)}
<1>1. 0 \in T
  <2> DEFINE g == [s \in {{}} |-> 0]
  <2>1. {s \in SUBSET S : Cardinality(s) <= 0} = {{}}
    BY <1>0, FS_EmptySet
  <2>2. g \in [{{}} -> Int] /\ g[{}] = 0
    OBVIOUS
  <2>3. Sums(f, S, 0, g)
    BY <2>1, <2>2 DEF Sums
  <2> QED
    BY <2>3
<1>2. ASSUME NEW n \in Nat, n \in T PROVE n + 1 \in T
  <2>1. PICK g : Sums(f, S, n, g)
    BY <1>2
  <2> DEFINE small == {s \in SUBSET S : Cardinality(s) <= n}
             more == {s \in SUBSET S : Cardinality(s) <= n + 1}
             h == [s \in more |-> IF s = {} THEN 0 ELSE f[Pick(s)] + g[s \ {Pick(s)}]]
  <2>2. /\ g \in [small -> Int]
        /\ \A s \in small : g[s] = IF s = {} THEN 0 ELSE f[Pick(s)] + g[s \ {Pick(s)}]
    BY <2>1 DEF Sums
  <2>3. \A s \in more : s # {} => /\ Pick(s) \in S /\ s \ {Pick(s)} \in small
                                  /\ s \ {Pick(s)} \in more
    <3> SUFFICES ASSUME NEW s \in more, s # {}
                 PROVE  Pick(s) \in S /\ s \ {Pick(s)} \in small /\ s \ {Pick(s)} \in more
      OBVIOUS
    <3>1. s \in SUBSET S /\ IsFiniteSet(s) /\ Cardinality(s) <= n + 1
      BY <1>0
    <3> QED
      BY <3>1, PickIs
  <2>4. small \subseteq more
    BY <1>0
  <2> HIDE DEF small, more
  <2>5. h \in [more -> Int]
    BY <2>2, <2>3
  <2>6. \A s \in small : h[s] = g[s]
    BY <2>2, <2>4
  <2>7. \A s \in more : h[s] = IF s = {} THEN 0 ELSE f[Pick(s)] + h[s \ {Pick(s)}]
    BY <2>3, <2>6
  <2> HIDE DEF h
  <2>8. Sums(f, S, n + 1, h)
    BY <2>5, <2>7 DEF Sums, more
  <2> QED
    BY <2>8
<1>3. Cardinality(S) \in T
  <2> HIDE DEF T
  <2> QED
    BY <1>0, <1>1, <1>2, InductiveSet
<1>4. PICK g : Sums(f, S, Cardinality(S), g)
  BY <1>3
<1>5. {s \in SUBSET S : Cardinality(s) <= Cardinality(S)} = SUBSET S
  BY <1>0
<1> QED
  BY <1>4, <1>5 DEF Sums, SumsUp

\* The sum is a number, and depends on the values in the set only.
LEMMA SumIsUnique ==
    ASSUME NEW f, NEW g, NEW S, SumsUp(g, f, S),
           NEW e, NEW h, NEW R, SumsUp(h, e, R),
           NEW U, IsFiniteSet(U), U \subseteq S, U \subseteq R,
           \A x \in U : f[x] = e[x] /\ f[x] \in Int
    PROVE  g[U] = h[U] /\ g[U] \in Int
<1> DEFINE T == {n \in Nat : \A s \in SUBSET U : Cardinality(s) = n => g[s] = h[s] /\ g[s] \in Int}
<1>0. \A s \in SUBSET U : IsFiniteSet(s) /\ Cardinality(s) \in Nat
  BY FS_Subset, FS_CardinalityType
<1>1. 0 \in T
  <2> SUFFICES ASSUME NEW s \in SUBSET U, Cardinality(s) = 0 PROVE g[s] = h[s] /\ g[s] \in Int
    OBVIOUS
  <2>1. s = {} /\ s \in SUBSET S /\ s \in SUBSET R
    BY <1>0, FS_EmptySet
  <2>2. g[s] = 0 /\ h[s] = 0
    BY <2>1, Zenon DEF SumsUp
  <2> QED
    BY <2>2
<1>2. ASSUME NEW n \in Nat, n \in T PROVE n + 1 \in T
  <2> SUFFICES ASSUME NEW s \in SUBSET U, Cardinality(s) = n + 1 PROVE g[s] = h[s] /\ g[s] \in Int
    OBVIOUS
  <2> DEFINE r == s \ {Pick(s)}
  <2>1. s # {} /\ s \in SUBSET S /\ s \in SUBSET R
    BY FS_EmptySet
  <2>2. Pick(s) \in U /\ r \in SUBSET U /\ Cardinality(r) = n
    BY <1>0, <2>1, PickIs
  <2>3. g[r] = h[r] /\ g[r] \in Int
    BY <1>2, <2>2
  <2>4. g[s] = f[Pick(s)] + g[r] /\ h[s] = e[Pick(s)] + h[r]
    BY <2>1 DEF SumsUp
  <2> QED
    BY <2>2, <2>3, <2>4
<1>3. Cardinality(U) \in T
  <2> HIDE DEF T
  <2> QED
    BY <1>0, <1>1, <1>2, InductiveSet
<1> QED
  BY <1>3

\* One more element adds its value, whatever is picked first.
LEMMA SumAdds ==
    ASSUME NEW S, IsFiniteSet(S), NEW f \in [S -> Int], NEW g, SumsUp(g, f, S),
           NEW u \in SUBSET S, NEW x \in S \ u
    PROVE  g[u \union {x}] = g[u] + f[x]
<1>0. \A s \in SUBSET S : IsFiniteSet(s) /\ Cardinality(s) \in Nat /\ g[s] \in Int
  <2> TAKE s \in SUBSET S
  <2>1. IsFiniteSet(s) /\ Cardinality(s) \in Nat
    BY FS_Subset, FS_CardinalityType
  <2> QED
    BY <2>1, SumIsUnique
<1> DEFINE T == {n \in Nat : \A s \in SUBSET S : \A v \in S \ s :
                                  Cardinality(s) = n => g[s \union {v}] = g[s] + f[v]}
<1>1. ASSUME NEW n \in Nat, \A m \in Nat : n = m + 1 => m \in T PROVE n \in T
  <2> SUFFICES ASSUME NEW s \in SUBSET S, NEW v \in S \ s, Cardinality(s) = n
               PROVE  g[s \union {v}] = g[s] + f[v]
    OBVIOUS
  <2> DEFINE t == s \union {v}
             y == Pick(t)
             r == s \ {y}
  <2>1. /\ t \in SUBSET S /\ t # {} /\ y \in t /\ IsFiniteSet(t)
        /\ g[t] = f[y] + g[t \ {y}]
    <3>1. t \in SUBSET S /\ t # {}
      OBVIOUS
    <3> QED
      BY <1>0, <3>1, PickIs DEF SumsUp
  <2>2. f[v] \in Int /\ g[s] \in Int
    BY <1>0
  <2> HIDE DEF y
  <2>3. CASE y = v
    <3>1. t \ {y} = s
      BY <2>3
    <3>2. g[t] = f[v] + g[s]
      BY <2>1, <2>3, <3>1
    <3> HIDE DEF t
    <3>3. g[t] = g[s] + f[v]
      BY <2>2, <3>2
    <3> QED
      BY <3>3 DEF t
  <2>4. CASE y # v
    <3>1. /\ y \in s /\ r \in SUBSET S /\ v \in S \ r /\ y \in S \ r
          /\ t \ {y} = r \union {v} /\ s = r \union {y}
      BY <2>1, <2>4
    <3>2. Cardinality(r) + 1 = n /\ Cardinality(r) \in Nat
      BY <1>0, <3>1, FS_AddElement
    <3> HIDE DEF r
    <3>3. g[r \union {v}] = g[r] + f[v] /\ g[r \union {y}] = g[r] + f[y]
      <4>1. Cardinality(r) \in T
        <5> HIDE DEF T
        <5> QED
          BY <1>1, <3>2
      <4> HIDE DEF t, y
      <4> QED
        BY <3>1, <4>1
    <3>4. f[y] \in Int /\ g[r] \in Int
      BY <1>0, <3>1
    <3>5. g[t] = f[y] + (g[r] + f[v]) /\ g[s] = g[r] + f[y]
      BY <2>1, <3>1, <3>3
    <3> HIDE DEF t
    <3>6. g[t] = g[s] + f[v]
      BY <2>2, <3>4, <3>5
    <3> QED
      BY <3>6 DEF t
  <2> QED
    BY <2>3, <2>4
<1>2. 0 \in T
  <2> HIDE DEF T
  <2>1. \A m \in Nat : 0 # m + 1
    OBVIOUS
  <2> QED
    BY <1>1, <2>1
<1>3. ASSUME NEW n \in Nat, n \in T PROVE n + 1 \in T
  <2> HIDE DEF T
  <2>1. \A m \in Nat : n + 1 = m + 1 => m = n
    OBVIOUS
  <2> QED
    BY <1>1, <1>3, <2>1
<1>4. Cardinality(u) \in T
  <2> HIDE DEF T
  <2> QED
    BY <1>0, <1>2, <1>3, InductiveSet
<1> QED
  BY <1>4

\* MapThenSumSet with the values of a function
SumOf(f, S) == MapThenSumSet(LAMBDA x : f[x], S)

LEMMA SumOfIs ==
    ASSUME NEW S, IsFiniteSet(S), NEW f \in [S -> Int]
    PROVE  \E g \in [SUBSET S -> Int] : SumsUp(g, f, S) /\ SumOf(f, S) = g[S]
<1> DEFINE iter[s \in SUBSET S] ==
               IF s = {} THEN 0 ELSE LET x == CHOOSE x \in s : TRUE IN f[x] + iter[s \ {x}]
<1>1. SumOf(f, S) = iter[S]
  BY DEF SumOf, MapThenSumSet, MapThenFoldSet
<1>2. PICK g \in [SUBSET S -> Int] : SumsUp(g, f, S)
  BY SumsExist
<1>3. iter = [s \in SUBSET S |->
                 IF s = {} THEN 0 ELSE LET x == CHOOSE x \in s : TRUE IN f[x] + iter[s \ {x}]]
  <2>1. g = [s \in SUBSET S |->
                 IF s = {} THEN 0 ELSE LET x == CHOOSE x \in s : TRUE IN f[x] + g[s \ {x}]]
    BY <1>2 DEF SumsUp, Pick
  <2> QED
    BY <2>1, Zenon
<1> HIDE DEF iter
<1>4. SumsUp(iter, f, S)
  BY <1>3 DEF SumsUp, Pick
<1>5. SumOf(f, S) = g[S]
  BY <1>1, <1>2, <1>4, SumIsUnique
<1> QED
  BY <1>2, <1>5

LEMMA SumOfEmpty == ASSUME NEW f PROVE SumOf(f, {}) = 0
<1>1. {} \in SUBSET {} /\ IsFiniteSet({})
  BY FS_EmptySet
<1> DEFINE e == [x \in {} |-> 0]
<1>2. PICK g \in [SUBSET {} -> Int] : SumsUp(g, e, {})
  BY <1>1, SumsExist
<1> DEFINE iter[s \in SUBSET {}] ==
               IF s = {} THEN 0 ELSE LET x == CHOOSE x \in s : TRUE IN f[x] + iter[s \ {x}]
<1>3. SumOf(f, {}) = iter[{}]
  BY DEF SumOf, MapThenSumSet, MapThenFoldSet
<1>4. iter = [s \in SUBSET {} |->
                 IF s = {} THEN 0 ELSE LET x == CHOOSE x \in s : TRUE IN f[x] + iter[s \ {x}]]
  <2>1. g = [s \in SUBSET {} |->
                 IF s = {} THEN 0 ELSE LET x == CHOOSE x \in s : TRUE IN f[x] + g[s \ {x}]]
    BY <1>2 DEF SumsUp, Pick
  <2> QED
    BY <2>1, Zenon
<1> HIDE DEF iter
<1> QED
  BY <1>1, <1>3, <1>4

LEMMA SumOfWith ==
    ASSUME NEW S, IsFiniteSet(S), NEW x, x \notin S,
           NEW f \in [S -> Int], NEW e \in [S \union {x} -> Int], \A y \in S : e[y] = f[y]
    PROVE  SumOf(e, S \union {x}) = SumOf(f, S) + e[x] /\ SumOf(f, S) \in Int
<1> DEFINE R == S \union {x}
<1>1. IsFiniteSet(R)
  BY FS_AddElement
<1>2. PICK g \in [SUBSET S -> Int] : SumsUp(g, f, S) /\ SumOf(f, S) = g[S]
  BY SumOfIs
<1>3. PICK h \in [SUBSET R -> Int] : SumsUp(h, e, R) /\ SumOf(e, R) = h[R]
  <2> HIDE DEF R
  <2> QED
    BY <1>1, SumOfIs DEF R
<1>4. h[R] = h[S] + e[x]
  BY <1>1, <1>3, SumAdds
<1>5. h[S] = g[S] /\ g[S] \in Int
  <2>1. S \in SUBSET S /\ S \in SUBSET R /\ \A y \in S : f[y] = e[y] /\ f[y] \in Int
    OBVIOUS
  <2> HIDE DEF R
  <2> QED
    BY <1>2, <1>3, <2>1, SumIsUnique
<1> QED
  BY <1>2, <1>3, <1>4, <1>5

\* A value that changes by v changes the sum by v.
LEMMA SumOfChanged ==
    ASSUME NEW S, IsFiniteSet(S), NEW f \in [S -> Int], NEW x \in S, NEW v \in Int
    PROVE  SumOf([f EXCEPT ![x] = @ + v], S) = SumOf(f, S) + v
<1> DEFINE R == S \ {x}
           r == [y \in R |-> f[y]]
           e == [f EXCEPT ![x] = @ + v]
<1>1. /\ IsFiniteSet(R) /\ x \notin R /\ S = R \union {x}
      /\ r \in [R -> Int] /\ f \in [R \union {x} -> Int] /\ e \in [R \union {x} -> Int]
      /\ \A y \in R : f[y] = r[y] /\ e[y] = r[y]
      /\ e[x] = f[x] + v /\ f[x] \in Int
  BY FS_RemoveElement
<1> HIDE DEF R, r, e
<1>2. SumOf(f, S) = SumOf(r, R) + f[x] /\ SumOf(e, S) = SumOf(r, R) + e[x] /\ SumOf(r, R) \in Int
  BY <1>1, SumOfWith
<1>3. SumOf(e, S) = SumOf(f, S) + v
  BY <1>1, <1>2
<1> QED
  BY <1>3 DEF e

LEMMA SumOfZeros ==
    ASSUME NEW S, IsFiniteSet(S)
    PROVE  SumOf([x \in S |-> 0], S) = 0
<1> DEFINE f == [x \in S |-> 0]
<1>1. PICK g \in [SUBSET S -> Int] : SumsUp(g, f, S) /\ SumOf(f, S) = g[S]
  BY SumOfIs
<1> DEFINE h == [s \in SUBSET S |-> 0]
<1>2. SumsUp(h, f, S)
  <2> SUFFICES ASSUME NEW s \in SUBSET S
               PROVE  h[s] = IF s = {} THEN 0 ELSE f[Pick(s)] + h[s \ {Pick(s)}]
    BY DEF SumsUp
  <2>1. s # {} => Pick(s) \in S
    <3>1. s # {} => Pick(s) \in s
      BY DEF Pick
    <3> QED
      BY <3>1
  <2> QED
    BY <2>1
<1>3. g[S] = h[S]
  <2> HIDE DEF h
  <2>1. \A x \in S : f[x] \in Int
    OBVIOUS
  <2> HIDE DEF f
  <2> QED
    BY <1>1, <1>2, <2>1, SumIsUnique
<1> QED
  BY <1>1, <1>3

-----------------------------------------------------------------------------
(* The sums of PnlIsObservedOutcomes *)

LEMMA OutcomeIs == \A r \in Receipt : Outcome(r) \in Int
<1> SUFFICES ASSUME NEW r \in Receipt PROVE Outcome(r) \in Int
  OBVIOUS
<1>1. r.tx.plan \in Plans
  BY DEF Receipt, Tx
<1>2. r.tx.plan.net \in Int /\ r.tx.plan.gas \in Nat
  BY <1>1, TradeAssumption DEF Plan
<1> QED
  BY <1>2 DEF Outcome

LEMMA OutcomesAre ==
    ASSUME NEW S \in SUBSET Receipt, IsFiniteSet(S)
    PROVE  MapThenSumSet(Outcome, S) = SumOf([r \in S |-> Outcome(r)], S)
<1> DEFINE f == [r \in S |-> Outcome(r)]
           iter[s \in SUBSET S] ==
               IF s = {} THEN 0 ELSE LET x == CHOOSE x \in s : TRUE IN Outcome(x) + iter[s \ {x}]
<1>1. MapThenSumSet(Outcome, S) = iter[S]
  BY DEF MapThenSumSet, MapThenFoldSet
<1>2. f \in [S -> Int]
  BY OutcomeIs
<1>3. PICK g \in [SUBSET S -> Int] : SumsUp(g, f, S) /\ SumOf(f, S) = g[S]
  BY <1>2, SumOfIs
<1>4. \A s \in SUBSET S : s # {} => f[Pick(s)] = Outcome(Pick(s))
  <2> TAKE s \in SUBSET S
  <2>1. s # {} => Pick(s) \in s
    BY DEF Pick
  <2> QED
    BY <2>1
<1> HIDE DEF f
<1>5. iter = [s \in SUBSET S |->
                 IF s = {} THEN 0 ELSE LET x == CHOOSE x \in s : TRUE IN Outcome(x) + iter[s \ {x}]]
  <2>1. g = [s \in SUBSET S |->
                 IF s = {} THEN 0 ELSE LET x == CHOOSE x \in s : TRUE IN Outcome(x) + g[s \ {x}]]
    BY <1>3, <1>4 DEF SumsUp, Pick
  <2> QED
    BY <2>1, Zenon
<1> HIDE DEF iter
<1>6. SumsUp(iter, f, S)
  BY <1>4, <1>5 DEF SumsUp, Pick
<1>7. \A x \in S : f[x] \in Int
  BY <1>2
<1>8. iter[S] = g[S]
  BY <1>3, <1>6, <1>7, SumIsUnique
<1> QED
  BY <1>1, <1>3, <1>8 DEF f

LEMMA OutcomesWith ==
    ASSUME NEW S \in SUBSET Receipt, IsFiniteSet(S), NEW r \in Receipt, r \notin S
    PROVE  MapThenSumSet(Outcome, S \union {r}) = MapThenSumSet(Outcome, S) + Outcome(r)
<1> DEFINE R == S \union {r}
           f == [x \in S |-> Outcome(x)]
           e == [x \in R |-> Outcome(x)]
<1>1. R \in SUBSET Receipt /\ IsFiniteSet(R)
  BY FS_AddElement
<1>2. f \in [S -> Int] /\ e \in [R -> Int] /\ \A x \in S : e[x] = f[x]
  BY OutcomeIs
<1>3. e[r] = Outcome(r)
  OBVIOUS
<1>4. SumOf(e, R) = SumOf(f, S) + e[r]
  <2> HIDE DEF f, e
  <2> QED
    BY <1>2, SumOfWith
<1>5. MapThenSumSet(Outcome, R) = SumOf(e, R) /\ MapThenSumSet(Outcome, S) = SumOf(f, S)
  BY <1>1, OutcomesAre
<1> QED
  BY <1>3, <1>4, <1>5

\* The chain executes a nonce once.
MinedOnce ==
    /\ IsFiniteSet(mined)
    /\ \A r \in mined : r.tx.nonce < chainNonce
    /\ \A r, s \in mined : r.tx.nonce = s.tx.nonce => r = s

Observed == {r \in mined : r.tx.run = run /\ ledger.states[r.tx.nonce] = "Included"}

\* PnlIsObservedOutcomes is inductive only with the chain's side of it: a receipt
\* that is booked must be the only one of its nonce.
PnlInv == MinedOnce /\ PnlIsObservedOutcomes

LEMMA PnlIs ==
    /\ PnlIsObservedOutcomes <=> SumOf(dailyPnl, Days) = MapThenSumSet(Outcome, Observed)
    /\ PnlIsObservedOutcomes' <=> SumOf(dailyPnl', Days) = MapThenSumSet(Outcome, Observed')
<1>1. PnlIsObservedOutcomes <=> SumOf(dailyPnl, Days) = MapThenSumSet(Outcome, Observed)
  BY DEF PnlIsObservedOutcomes, SumOf, Observed
<1>2. PnlIsObservedOutcomes' <=> SumOf(dailyPnl', Days) = MapThenSumSet(Outcome, Observed')
  BY DEF PnlIsObservedOutcomes, SumOf, Observed, MapThenSumSet, MapThenFoldSet
<1> QED
  BY <1>1, <1>2

LEMMA DaysAre == IsFiniteSet(Days) /\ SumOf(NoPnl, Days) = 0
<1>1. IsFiniteSet(Days)
  BY TradeAssumption, FS_Interval DEF Days
<1> QED
  BY <1>1, SumOfZeros DEF NoPnl

LEMMA NothingObserved == MapThenSumSet(Outcome, {}) = 0
BY FS_EmptySet, OutcomesAre, SumOfEmpty

LEMMA MinedOnceInit == Init => MinedOnce
BY FS_EmptySet DEF Init, MinedOnce

LEMMA MinedOnceStep == TypeOK /\ MinedOnce /\ [Next]_vars => MinedOnce'
<1> SUFFICES ASSUME TypeOK, MinedOnce, [Next]_vars PROVE MinedOnce'
  OBVIOUS
<1>1. chainNonce \in Nat
  BY MaxNonceAssumption DEF TypeOK
<1>2. CASE UNCHANGED <<mined, chainNonce>>
  BY <1>2 DEF MinedOnce
<1>3. ASSUME NEW t \in mempool, NEW ok \in BOOLEAN, Mine(t, ok) PROVE MinedOnce'
  <2> DEFINE r == [tx |-> t, ok |-> ok, day |-> day]
  <2>1. /\ mined' = mined \union {r} /\ r.tx.nonce = chainNonce
        /\ chainNonce' = chainNonce + 1
    BY <1>3 DEF Mine
  <2> HIDE DEF r
  <2>2. IsFiniteSet(mined')
    BY <2>1, FS_AddElement DEF MinedOnce
  <2>3. \A s \in mined : s \in Receipt /\ s.tx.nonce \in Nat
    BY MaxNonceAssumption DEF TypeOK, Receipt, Tx, Nonces
  <2>4. \A s \in mined' : s.tx.nonce < chainNonce'
    BY <1>1, <2>1, <2>3 DEF MinedOnce
  <2>5. \A s, u \in mined' : s.tx.nonce = u.tx.nonce => s = u
    BY <1>1, <2>1, <2>3 DEF MinedOnce
  <2> QED
    BY <2>2, <2>4, <2>5 DEF MinedOnce
<1> QED
  BY <1>2, <1>3 DEF Next, vars, netVars, engineVars, Start, Crash, Trade, SubmitOk, ChannelFails,
     SubmitFails, ReceiptSeen, ReceiptUnknown, NodeAccepts, Evict, NextDay

\* Nothing is booked, and no receipt is newly observed.
LEMMA NothingBooked ==
    ASSUME PnlIsObservedOutcomes, UNCHANGED <<dailyPnl, mined, run>>,
           \A r \in mined : r.tx.run = run =>
               (ledger'.states[r.tx.nonce] = "Included" <=> ledger.states[r.tx.nonce] = "Included")
    PROVE  PnlIsObservedOutcomes'
<1>1. Observed' = Observed
  BY DEF Observed
<1> QED
  BY <1>1, PnlIs

LEMMA PnlInit == Init => PnlIsObservedOutcomes
<1> SUFFICES ASSUME Init PROVE PnlIsObservedOutcomes
  OBVIOUS
<1>1. Observed = {} /\ dailyPnl = NoPnl
  BY DEF Init, Observed
<1> QED
  BY <1>1, DaysAre, NothingObserved, PnlIs

\* A process that starts, and one that dies, has booked nothing.
LEMMA RestartBooksNothing ==
    ASSUME IInv, Start \/ Crash
    PROVE  PnlIsObservedOutcomes'
<1>1. dailyPnl' = NoPnl
  BY DEF Start, Crash
<1>2. Observed' = {}
  <2>1. ledger'.states = EmptyLedger.states
    BY AfterSyncFields, EmptyLedgerType DEF Start, Crash
  <2>2. \A n \in Nonces : EmptyLedger.states[n] # "Included"
    BY DEF EmptyLedger
  <2>3. \A r \in mined : r.tx.nonce \in Nonces
    BY DEF IInv, TypeOK, Receipt, Tx
  <2>4. mined' = mined
    BY DEF Start, Crash, netVars
  <2> QED
    BY <2>1, <2>2, <2>3, <2>4 DEF Observed
<1> QED
  BY <1>1, <1>2, DaysAre, NothingObserved, PnlIs

\* A receipt is booked with the outcome it states, and its transaction becomes the
\* one that is newly observed.
LEMMA ReceiptIsBooked ==
    ASSUME IInv, PnlInv, NEW ok \in BOOLEAN, ReceiptSeen(ok)
    PROVE  PnlIsObservedOutcomes'
<1>1. /\ pc = "wait" /\ ledger' = AfterIncluded(ledger, tx.nonce)
      /\ MarkFinalized(IF ok THEN tx.plan.net ELSE -tx.plan.gas)
      /\ run' = run /\ mined' = mined
  BY DEF ReceiptSeen, netVars
<1>2. PICK r \in mined : r.tx = tx /\ r.ok = ok
  BY DEF ReceiptSeen
<1>3. /\ tx.nonce \in Nonces /\ tx.run = run
      /\ ledger.states \in [Nonces -> NonceState] /\ ledger \in Ledger
      /\ ledger.states[tx.nonce] = "Submitted"
  BY <1>1, HeldTx DEF IInv, TypeOK, Ledger, LedgerConsistent
<1>4. ledger'.states = [ledger.states EXCEPT ![tx.nonce] = "Included"]
  BY <1>1, <1>3, MarkFields
<1>5. \A s \in mined : s \in Receipt /\ s.tx.nonce \in Nonces
  BY DEF IInv, TypeOK, Receipt, Tx
<1>6. r \notin Observed /\ Observed' = Observed \union {r}
  <2>1. \A s \in mined : s.tx.nonce = tx.nonce => s = r
    BY <1>2 DEF PnlInv, MinedOnce
  <2> QED
    BY <1>1, <1>2, <1>3, <1>4, <1>5, <2>1 DEF Observed
<1>7. MapThenSumSet(Outcome, Observed') = MapThenSumSet(Outcome, Observed) + Outcome(r)
  <2>1. Observed \in SUBSET Receipt /\ IsFiniteSet(Observed)
    <3>1. Observed \subseteq mined
      BY DEF Observed
    <3> QED
      BY <1>5, <3>1, FS_Subset DEF PnlInv, MinedOnce
  <2> QED
    BY <1>5, <1>6, <2>1, OutcomesWith
<1>8. SumOf(dailyPnl', Days) = SumOf(dailyPnl, Days) + Outcome(r)
  <2>1. openTxCount = 1
    BY <1>1 DEF IInv, OpenCountExact
  <2>2. dailyPnl' = [dailyPnl EXCEPT ![day] = @ + Outcome(r)]
    BY <1>1, <1>2, <2>1 DEF MarkFinalized, Outcome
  <2>3. dailyPnl \in [Days -> Int] /\ day \in Days /\ Outcome(r) \in Int
    BY <1>2, <1>5, OutcomeIs DEF IInv, TypeOK
  <2> QED
    BY <2>2, <2>3, DaysAre, SumOfChanged
<1> QED
  BY <1>7, <1>8, PnlIs DEF PnlInv

\* A block's new receipt has a nonce the ledger does not call Included.
LEMMA MiningBooksNothing ==
    ASSUME IInv, PnlInv, NEW t \in mempool, NEW ok \in BOOLEAN, Mine(t, ok)
    PROVE  PnlIsObservedOutcomes'
<1> DEFINE r == [tx |-> t, ok |-> ok, day |-> day]
<1>1. /\ t.nonce = chainNonce /\ mined' = mined \union {r}
      /\ UNCHANGED <<run, ledger, dailyPnl>>
  BY DEF Mine, engineVars
<1>2. t.nonce \in Nonces /\ chainNonce \in Nat /\ \A s \in mined : s.tx.nonce \in Nat
  BY MaxNonceAssumption DEF IInv, TypeOK, Receipt, Tx, Nonces
<1>3. ledger.states[t.nonce] # "Included"
  <2> SUFFICES ASSUME ledger.states[t.nonce] = "Included" PROVE FALSE
    OBVIOUS
  <2>1. PICK s \in mined : s.tx.nonce = t.nonce
    BY <1>2 DEF IInv, IncludedIsMined
  <2> QED
    BY <1>1, <1>2, <2>1 DEF PnlInv, MinedOnce
<1>4. r.tx = t
  OBVIOUS
<1> HIDE DEF r
<1>5. Observed' = Observed
  BY <1>1, <1>3, <1>4 DEF Observed
<1> QED
  BY <1>1, <1>5, PnlIs DEF PnlInv

\* The other steps change neither the account of the days nor what is observed.
LEMMA OthersBookNothing ==
    ASSUME IInv, PnlInv,
           \/ (\E p \in Plans : Trade(p)) \/ SubmitOk \/ ChannelFails \/ SubmitFails
           \/ ReceiptUnknown
           \/ (\E t \in broadcast : NodeAccepts(t)) \/ (\E t \in mempool : Evict(t)) \/ NextDay
           \/ UNCHANGED vars
    PROVE  PnlIsObservedOutcomes'
<1>1. /\ ledger \in Ledger /\ ledger.states \in [Nonces -> NonceState]
      /\ \A s \in mined : s.tx.nonce \in Nonces
  BY DEF IInv, TypeOK, Ledger, Receipt, Tx
<1>2. UNCHANGED <<dailyPnl, mined, run>>
  BY DEF Trade, SubmitOk, ChannelFails, SubmitFails, ReceiptUnknown, NodeAccepts, Evict, NextDay,
         MarkFailedSubmission, vars, engineVars, netVars
<1>3. \A n \in Nonces : ledger'.states[n] = "Included" <=> ledger.states[n] = "Included"
  <2>1. ASSUME NEW p \in Plans, Trade(p)
        PROVE  \A n \in Nonces : ledger'.states[n] = "Included" <=> ledger.states[n] = "Included"
    <3>1. /\ ledger.next \in Nonces
          /\ ledger'.states = [ledger.states EXCEPT ![ledger.next] = "Reserved"]
      BY <1>1, <2>1, AfterReserveFields DEF Trade
    <3>2. ledger.states[ledger.next] # "Included"
      <4>1. ledger.next \in Nat
        BY <3>1, MaxNonceAssumption DEF Nonces
      <4> QED
        BY <3>1, <4>1 DEF IInv, LedgerConsistent
    <3> QED
      BY <1>1, <3>1, <3>2
  <2>2. CASE SubmitOk \/ SubmitFails
    <3>1. /\ tx.nonce \in Nonces /\ ledger.states[tx.nonce] = "Reserved"
          /\ \/ ledger'.states = [ledger.states EXCEPT ![tx.nonce] = "Submitted"]
             \/ ledger'.states = [ledger.states EXCEPT ![tx.nonce] = "Dropped"]
      <4>1. pc = "submit" /\ (ledger' = AfterSubmitted(ledger, tx.nonce)
                              \/ ledger' = AfterDropped(ledger, tx.nonce))
        BY <2>2 DEF SubmitOk, SubmitFails
      <4>2. tx.nonce \in Nonces
        BY <4>1, HeldTx DEF IInv
      <4>3. ledger.states[tx.nonce] = "Reserved"
        BY <4>1, <4>2 DEF IInv, LedgerConsistent
      <4>4. /\ AfterSubmitted(ledger, tx.nonce).states = [ledger.states EXCEPT ![tx.nonce] = "Submitted"]
            /\ AfterDropped(ledger, tx.nonce).states = [ledger.states EXCEPT ![tx.nonce] = "Dropped"]
        BY <1>1, <4>2, MarkFields
      <4> QED
        BY <4>1, <4>2, <4>3, <4>4
    <3> QED
      BY <1>1, <3>1
  <2>3. CASE UNCHANGED ledger
    BY <2>3
  <2> QED
    BY <2>1, <2>2, <2>3 DEF ChannelFails, ReceiptUnknown, NodeAccepts, Evict, NextDay, vars, engineVars
<1> QED
  BY <1>1, <1>2, <1>3, NothingBooked DEF PnlInv

\* RiskManager's account of the days, and the chain's of the nonces: the inductive
\* invariant of mark_finalized and mark_included.
THEOREM PnlInvariance == Spec => []PnlInv
<1>1. Init => PnlInv
  BY MinedOnceInit, PnlInit DEF PnlInv
<1>2. IInv /\ PnlInv /\ [Next]_vars => PnlInv'
  <2> SUFFICES ASSUME IInv, PnlInv, [Next]_vars PROVE PnlInv'
    OBVIOUS
  <2>1. MinedOnce'
    BY MinedOnceStep DEF IInv, PnlInv
  <2>2. PnlIsObservedOutcomes'
    BY RestartBooksNothing, ReceiptIsBooked, MiningBooksNothing, OthersBookNothing DEF Next
  <2> QED
    BY <2>1, <2>2 DEF PnlInv
<1> QED
  BY <1>1, <1>2, Invariance, PTL DEF Spec

\* What RiskManager has booked over all days is what the transactions of this run
\* that NonceManager calls Included brought on chain, each counted once.
THEOREM PnlIsObserved == Spec => []PnlIsObservedOutcomes
<1>1. PnlInv => PnlIsObservedOutcomes
  BY DEF PnlInv
<1> QED
  BY <1>1, PnlInvariance, PTL

=============================================================================
