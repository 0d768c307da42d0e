--------------------------- MODULE TradeLifecycle ---------------------------
(***************************************************************************)
(* One operator account trading: the submission half of                    *)
(* process_routed_candidate (src/engine.rs) with the RiskManager           *)
(* (src/risk/limits.rs), the NonceManager (src/execution/nonce_manager.rs) *)
(* and the Submitter (src/execution/submitter.rs), against the nodes and   *)
(* the chain the transactions go to.                                       *)
(*                                                                         *)
(* The engine is one task.  It interleaves with its environment only where *)
(* it awaits: during the submission to each channel and while it polls for *)
(* the receipt.  Everything between two awaits is one action.              *)
(***************************************************************************)
EXTENDS NonceLedger, Integers, FiniteSetsExt

CONSTANTS
    Plans,             \* the executable plans the validator can hand over
    NumChannels,       \* submit channels configured (protected, public, fallback)
    MaxConcurrentTx,   \* risk.max_concurrent_tx
    DailyLossLimit,    \* risk.daily_loss_limit_usd_e8
    MinProfit,         \* risk.min_net_profit_usd_e8
    MaxPosition,       \* risk.max_position_usd_e8
    MaxFlashLoan,      \* risk.max_flash_loan_usd_e8
    MaxGas,            \* the largest gas cost of a plan
    MaxDay,            \* bound: days 0..MaxDay
    MaxRuns,           \* bound: the process is started at most MaxRuns times
    NoTx

CapitalSource == {"SelfFunded", "FlashLoan", "MixedFlashLoan"}

Plan == [input: Nat, flash: Nat, source: CapitalSource, net: Int, gas: Nat,
         healthy: BOOLEAN]

ASSUME TradeAssumption ==
    /\ Plans \subseteq Plan
    /\ \A p \in Plans : p.gas <= MaxGas
    /\ NumChannels \in Nat /\ MaxConcurrentTx \in Nat /\ DailyLossLimit \in Nat
    /\ MinProfit \in Nat /\ MaxPosition \in Nat /\ MaxFlashLoan \in Nat
    /\ MaxGas \in Nat /\ MaxDay \in Nat /\ MaxRuns \in Nat

Days == 0..MaxDay
Runs == 1..MaxRuns

\* A signed transaction.  The same run signs a nonce once, so nonce, run and
\* plan stand for its hash.
Tx == [nonce: Nonces, run: Runs, plan: Plans]

ASSUME NoTxAssumption == NoTx \notin Tx

VARIABLES
    pc,           \* where the engine task is: down, idle, submit or wait
    run,          \* how often the process has been started
    ledger,       \* NonceManager
    openTxCount,  \* RiskManager.open_tx_count
    dailyPnl,     \* RiskManager.daily_pnl_usd_e8 (a missing day reads as 0)
    tx,           \* the transaction being submitted or waited for
    channel,      \* index of the channel `submit` is about to try
    broadcast,    \* transactions some node has seen; nodes may resend them
    mempool,      \* transactions queued for inclusion
    chainNonce,   \* the account's nonce on chain
    mined,        \* executed transactions with their receipts
    day           \* the wall clock's day

engineVars == <<pc, run, ledger, openTxCount, dailyPnl, tx, channel>>
netVars == <<broadcast, mempool, chainNonce, mined>>
vars == <<engineVars, netVars, day>>

Receipt == [tx: Tx, ok: BOOLEAN, day: Days]

TypeOK ==
    /\ pc \in {"down", "idle", "submit", "wait"}
    /\ run \in 0..MaxRuns
    /\ ledger \in Ledger
    /\ openTxCount \in Nat
    /\ dailyPnl \in [Days -> Int]
    /\ tx \in Tx \union {NoTx}
    /\ channel \in 1..(NumChannels + 1)
    /\ broadcast \subseteq Tx
    /\ mempool \subseteq Tx
    /\ chainNonce \in 0..(MaxNonce + 1)
    /\ mined \subseteq Receipt
    /\ day \in Days

NoPnl == [d \in Days |-> 0]

Init ==
    /\ pc = "down"
    /\ run = 0
    /\ ledger = EmptyLedger
    /\ openTxCount = 0
    /\ dailyPnl = NoPnl
    /\ tx = NoTx
    /\ channel = 1
    /\ broadcast = {}
    /\ mempool = {}
    /\ chainNonce = 0
    /\ mined = {}
    /\ day = 0

-----------------------------------------------------------------------------
(* The process *)

\* What eth_getTransactionCount(.., "pending") may answer: the account's nonce
\* plus some of the queued transactions that follow it without a gap.  A node
\* that has not seen a privately submitted transaction does not count it.
PendingCount(k) ==
    /\ k >= chainNonce
    /\ \A n \in chainNonce..(k - 1) : \E t \in mempool : t.nonce = n

\* run_chain: fresh managers, then nonce_manager.sync.  A failed sync ends the
\* process, which leaves it down.
Start ==
    /\ pc = "down"
    /\ run < MaxRuns
    /\ \E k \in 0..(MaxNonce + 1) :
        /\ PendingCount(k)
        /\ ledger' = AfterSync(EmptyLedger, k)
    /\ pc' = "idle"
    /\ run' = run + 1
    /\ openTxCount' = 0
    /\ dailyPnl' = NoPnl
    /\ UNCHANGED <<tx, channel, netVars, day>>

\* The process dies, or run_chain returns an error.  A request that was being
\* sent may or may not have reached its node.
Crash ==
    /\ pc # "down"
    /\ pc' = "down"
    /\ ledger' = EmptyLedger
    /\ openTxCount' = 0
    /\ dailyPnl' = NoPnl
    /\ tx' = NoTx
    /\ channel' = 1
    /\ \/ UNCHANGED broadcast
       \/ /\ pc = "submit" /\ channel <= NumChannels
          /\ broadcast' = broadcast \union {tx}
    /\ UNCHANGED <<run, mempool, chainNonce, mined, day>>

-----------------------------------------------------------------------------
(* RiskManager *)

\* Slip: the comparison forgets that a loss is negative.
LossLimitWrongSign == dailyPnl[day] <= DailyLossLimit

WithinLossLimit == dailyPnl[day] >= 0 \/ -dailyPnl[day] <= DailyLossLimit

PreTradeCheck(p) ==
    /\ p.input <= MaxPosition
    /\ p.source \in {"FlashLoan", "MixedFlashLoan"} => p.flash <= MaxFlashLoan
    /\ p.net >= 0 /\ p.net >= MinProfit
    /\ openTxCount < MaxConcurrentTx
    /\ WithinLossLimit

\* mark_failed_submission, with its underflow guard
MarkFailedSubmission ==
    /\ openTxCount' = IF openTxCount = 0 THEN 0 ELSE openTxCount - 1
    /\ UNCHANGED dailyPnl

\* mark_finalized: on underflow the result is not booked.
MarkFinalized(profit) ==
    IF openTxCount = 0
    THEN UNCHANGED <<openTxCount, dailyPnl>>
    ELSE /\ openTxCount' = openTxCount - 1
         /\ dailyPnl' = [dailyPnl EXCEPT ![day] = @ + profit]

-----------------------------------------------------------------------------
(* process_routed_candidate, from the depeg guard on.  A candidate one of    *)
(* the checks rejects leaves every variable unchanged.                       *)

\* Depeg guard, pre_trade_check, reserve and mark_submitted run without an await.
Trade(p) ==
    /\ pc = "idle"
    /\ p.healthy
    /\ PreTradeCheck(p)
    /\ ledger.next \in Nonces                              \* bound
    /\ ledger' = AfterReserve(ledger)
    /\ openTxCount' = openTxCount + 1
    /\ tx' = [nonce |-> ledger.next, run |-> run, plan |-> p]
    /\ channel' = 1
    /\ pc' = "submit"
    /\ UNCHANGED <<run, dailyPnl, netVars, day>>

IsMined(t) == \E r \in mined : r.tx = t

\* A channel answers with the hash.  Its node has queued the transaction, or
\* it was executed meanwhile through a channel tried before.
SubmitOk ==
    /\ pc = "submit"
    /\ channel <= NumChannels
    /\ tx.nonce >= chainNonce \/ IsMined(tx)
    /\ mempool' = IF IsMined(tx) THEN mempool ELSE mempool \union {tx}
    /\ broadcast' = broadcast \union {tx}
    /\ ledger' = AfterSubmitted(ledger, tx.nonce)
    /\ pc' = "wait"
    /\ UNCHANGED <<run, openTxCount, dailyPnl, tx, channel, chainNonce, mined, day>>

\* Slip: one more channel is counted than configured.
ChannelFailsOffByOne ==
    /\ pc = "submit"
    /\ channel <= NumChannels + 1
    /\ channel' = channel + 1
    /\ UNCHANGED <<pc, run, ledger, openTxCount, dailyPnl, tx, netVars, day>>

\* A channel answers with an error, or not at all; the node may have received
\* the transaction nevertheless.  The loop goes on to the next channel.
ChannelFails ==
    /\ pc = "submit"
    /\ channel <= NumChannels
    /\ channel' = channel + 1
    /\ broadcast' \in {broadcast, broadcast \union {tx}}
    /\ UNCHANGED <<pc, run, ledger, openTxCount, dailyPnl, tx, mempool, chainNonce,
                   mined, day>>

\* Slip: the failed submission keeps its slot of the concurrency limit.
SubmitFailsKeepsSlot ==
    /\ pc = "submit"
    /\ ledger' = AfterDropped(ledger, tx.nonce)
    /\ tx' = NoTx
    /\ pc' = "idle"
    /\ UNCHANGED <<run, openTxCount, dailyPnl, channel, netVars, day>>

\* submit returns Err: no channel is left, or building the request for the
\* next one failed.
SubmitFails ==
    /\ pc = "submit"
    /\ ledger' = AfterDropped(ledger, tx.nonce)
    /\ MarkFailedSubmission
    /\ tx' = NoTx
    /\ pc' = "idle"
    /\ UNCHANGED <<run, channel, netVars, day>>

\* Slip: the receipt's status is not looked at when the result is booked.
ReceiptSeenStatusIgnored(ok) ==
    /\ pc = "wait"
    /\ \E r \in mined : r.tx = tx /\ r.ok = ok
    /\ ledger' = AfterIncluded(ledger, tx.nonce)
    /\ MarkFinalized(tx.plan.net)
    /\ tx' = NoTx
    /\ pc' = "idle"
    /\ UNCHANGED <<run, channel, netVars, day>>

\* wait_for_receipt answers Included or Reverted
ReceiptSeen(ok) ==
    /\ pc = "wait"
    /\ \E r \in mined : r.tx = tx /\ r.ok = ok
    /\ ledger' = AfterIncluded(ledger, tx.nonce)
    /\ MarkFinalized(IF ok THEN tx.plan.net ELSE -tx.plan.gas)
    /\ tx' = NoTx
    /\ pc' = "idle"
    /\ UNCHANGED <<run, channel, netVars, day>>

\* Slips in the timeout path: the slot is kept, or the nonce is settled
\* although nothing is known of its transaction.
ReceiptUnknownSettledAs(l, releases) ==
    /\ pc = "wait"
    /\ IF releases THEN MarkFailedSubmission ELSE UNCHANGED <<openTxCount, dailyPnl>>
    /\ ledger' = l
    /\ tx' = NoTx
    /\ pc' = "idle"
    /\ UNCHANGED <<run, channel, netVars, day>>

ReceiptUnknownKeepsSlot == ReceiptUnknownSettledAs(ledger, FALSE)
ReceiptUnknownDrops == ReceiptUnknownSettledAs(AfterDropped(ledger, tx.nonce), TRUE)
ReceiptUnknownBooksGas ==
    /\ pc = "wait"
    /\ MarkFinalized(-tx.plan.gas)
    /\ tx' = NoTx
    /\ pc' = "idle"
    /\ UNCHANGED <<run, ledger, channel, netVars, day>>
ReceiptUnknownIncludes == ReceiptUnknownSettledAs(AfterIncluded(ledger, tx.nonce), TRUE)

\* wait_for_receipt answers TimedOut, or an error of a receipt request ends
\* it.  The node that was asked may lag, so this can also happen to a
\* transaction that has been executed.
ReceiptUnknown ==
    /\ pc = "wait"
    /\ MarkFailedSubmission
    /\ tx' = NoTx
    /\ pc' = "idle"
    /\ UNCHANGED <<run, ledger, channel, netVars, day>>

-----------------------------------------------------------------------------
(* Nodes, chain and clock *)

\* A node queues a transaction it was sent, possibly late or again.
NodeAccepts(t) ==
    /\ t \in broadcast \ mempool
    /\ t.nonce >= chainNonce
    /\ mempool' = mempool \union {t}
    /\ UNCHANGED <<engineVars, broadcast, chainNonce, mined, day>>

\* The next transaction of the account is executed; rivals with its nonce die.
Mine(t, ok) ==
    /\ t \in mempool
    /\ t.nonce = chainNonce
    /\ chainNonce' = chainNonce + 1
    /\ mempool' = {u \in mempool : u.nonce # t.nonce}
    /\ mined' = mined \union {[tx |-> t, ok |-> ok, day |-> day]}
    /\ UNCHANGED <<engineVars, broadcast, day>>

Evict(t) ==
    /\ t \in mempool
    /\ mempool' = mempool \ {t}
    /\ UNCHANGED <<engineVars, broadcast, chainNonce, mined, day>>

\* The wall clock is assumed not to run backwards over a day boundary.
NextDay ==
    /\ day < MaxDay
    /\ day' = day + 1
    /\ UNCHANGED <<engineVars, netVars>>

-----------------------------------------------------------------------------

Submitting == SubmitOk \/ ChannelFails \/ SubmitFails
Waiting == ReceiptUnknown \/ \E ok \in BOOLEAN : ReceiptSeen(ok)

Next ==
    \/ Start
    \/ Crash
    \/ \E p \in Plans : Trade(p)
    \/ SubmitOk
    \/ ChannelFails
    \/ SubmitFails
    \/ \E ok \in BOOLEAN : ReceiptSeen(ok)
    \/ ReceiptUnknown
    \/ \E t \in broadcast : NodeAccepts(t)
    \/ \E t \in mempool, ok \in BOOLEAN : Mine(t, ok)
    \/ \E t \in mempool : Evict(t)
    \/ NextDay

Spec == Init /\ [][Next]_vars

\* Requests of the submitter end (the HTTP client has a timeout), and the
\* receipt loop ends at the latest when its timeout has elapsed.
FairSpec == Spec /\ WF_vars(Submitting) /\ WF_vars(Waiting)

-----------------------------------------------------------------------------
(* Properties *)

\* The nonces this run has handed out, and the state of each: only the
\* transaction being submitted is Reserved, the replacement table holds
\* exactly the Submitted ones, and no nonce was skipped between two
\* reservations.  NonceManager keeps states and pending_txs in two maps under
\* two locks; every path of process_routed_candidate must leave them agreeing.
LedgerConsistent ==
    /\ ledger.pending = {n \in Nonces : ledger.states[n] = "Submitted"}
    /\ \A n \in Nonces : ledger.states[n] # "Absent" => n < ledger.next
    /\ \A n \in Nonces : ledger.states[n] = "Reserved" <=> pc = "submit" /\ n = tx.nonce
    /\ pc = "wait" => ledger.states[tx.nonce] = "Submitted"
    /\ \A m, n \in Nonces :
          m < n /\ n < ledger.next /\ ledger.states[m] # "Absent"
             => ledger.states[n] # "Absent"

\* Every transaction this run has put on the wire is known to its ledger, and
\* the run never signs two transactions with one nonce.
SignedOnce ==
    /\ \A t \in broadcast :
          t.run = run /\ pc # "down" => ledger.states[t.nonce] # "Absent"
    /\ \A t, u \in broadcast : t.run = u.run /\ t.nonce = u.nonce => t = u

\* RiskManager.open_tx_count is one while a transaction is submitted or waited
\* for and zero otherwise: no path through process_routed_candidate leaks a
\* slot (which would stop trading for good) or returns one twice.
OpenCountExact == openTxCount = IF pc \in {"submit", "wait"} THEN 1 ELSE 0

\* A day's booked loss never exceeds the limit by more than the gas of one
\* reverted transaction, although the limit is checked before the submission
\* and the result is booked after the wait, possibly on a later day.
DailyLossBounded == \A d \in Days : dailyPnl[d] >= -(DailyLossLimit + MaxGas)

\* What the ledger calls Included has been executed on chain.
IncludedIsMined ==
    \A n \in Nonces :
        ledger.states[n] = "Included" => \E r \in mined : r.tx.nonce = n /\ r.tx.run = run

Outcome(r) == IF r.ok THEN r.tx.plan.net ELSE -r.tx.plan.gas

\* The booked profit of all days is the sum of the outcomes of the included
\* transactions, each counted once: mark_included and mark_finalized are two
\* calls on two components and no path does one without the other.
PnlIsObservedOutcomes ==
    LET observed == {r \in mined : r.tx.run = run /\ ledger.states[r.tx.nonce] = "Included"}
    IN  MapThenSumSet(LAMBDA d : dailyPnl[d], Days) = MapThenSumSet(Outcome, observed)

\* A nonce only moves forward: Absent, Reserved, Submitted, Included, or from
\* Reserved to Dropped; and the next nonce never goes back while the process
\* lives.  A nonce that is handed out again would replace a live transaction.
Successors == [Absent |-> {"Reserved"}, Reserved |-> {"Submitted", "Dropped"},
               Submitted |-> {"Included"}, Included |-> {}, Dropped |-> {}]

NonceAdvances ==
    pc # "down" /\ pc' # "down" =>
        /\ ledger'.next >= ledger.next
        /\ \A n \in Nonces :
              \/ ledger'.states[n] = ledger.states[n]
              \/ ledger'.states[n] \in Successors[ledger.states[n]]

NonceOnlyAdvances == [][NonceAdvances]_vars

\* At most MAX_CONCURRENT_TX transactions are unconfirmed at a time
\* (revised_dex_arb_design.md:1020).  ReceiptUnknown gives the slot back while
\* its transaction can still be executed, so the code does not keep this.
UnconfirmedWithinLimit ==
    Quantify(mempool, LAMBDA t : t.run = run /\ ledger.states[t.nonce] = "Submitted")
        <= MaxConcurrentTx

\* A slot of the concurrency limit is always given back.
SlotReturned == openTxCount > 0 ~> openTxCount = 0

-----------------------------------------------------------------------------
(* TradeLifecycle implements TradeBook *)

\* The verdict a nonce has in the abstract book.  A Submitted nonce is open
\* while its receipt is waited for and unknown once the engine gave up.
Verdict == [Absent |-> "none", Reserved |-> "open", Submitted |-> "open",
            Included |-> "booked", Dropped |-> "dropped"]

VerdictOf(n) ==
    IF ledger.states[n] = "Submitted" /\ ~(pc = "wait" /\ tx.nonce = n)
    THEN "unknown"
    ELSE Verdict[ledger.states[n]]

Book == INSTANCE TradeBook WITH
            Gains <- {p.net : p \in Plans} \union {-p.gas : p \in Plans},
            LossLimit <- DailyLossLimit,
            verdict <- [n \in Nonces |-> VerdictOf(n)],
            pnl <- dailyPnl

\* Every step of the submission path, with its counters, tables and retries
\* over channels, is a step of the abstract book or changes nothing in it.
ImplementsBook == Book!Spec

=============================================================================
