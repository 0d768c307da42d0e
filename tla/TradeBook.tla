----------------------------- MODULE TradeBook -----------------------------
(***************************************************************************)
(* What submitting trades promises, without channels, receipts, nodes or   *)
(* locks: one trade is open at a time, it is opened only while the day's   *)
(* booked loss is within the limit and under a nonce above all used ones,  *)
(* it ends with exactly one verdict, and profit is booked only when it     *)
(* ends as executed.  A restart forgets the book.                          *)
(***************************************************************************)
EXTENDS Integers

CONSTANTS Nonces, Days, Gains, LossLimit

VARIABLES verdict,   \* by nonce: none, open, booked, unknown or dropped
          pnl,       \* booked profit by day
          day

bookVars == <<verdict, pnl, day>>

NoVerdict == [n \in Nonces |-> "none"]

Init ==
    /\ verdict = NoVerdict
    /\ pnl = [d \in Days |-> 0]
    /\ day = 0

Open(n) ==
    /\ \A m \in Nonces : verdict[m] # "open" /\ (m >= n => verdict[m] = "none")
    /\ pnl[day] >= -LossLimit
    /\ verdict' = [verdict EXCEPT ![n] = "open"]
    /\ UNCHANGED <<pnl, day>>

Settle(n, gain) ==
    /\ verdict[n] = "open"
    /\ verdict' = [verdict EXCEPT ![n] = "booked"]
    /\ pnl' = [pnl EXCEPT ![day] = @ + gain]
    /\ UNCHANGED day

\* Nothing is known of the transaction, or no channel took it.
Close(n) ==
    /\ verdict[n] = "open"
    /\ verdict' \in {[verdict EXCEPT ![n] = v] : v \in {"unknown", "dropped"}}
    /\ UNCHANGED <<pnl, day>>

Restart ==
    /\ verdict' = NoVerdict
    /\ pnl' = [d \in Days |-> 0]
    /\ UNCHANGED day

NextDay ==
    /\ day' \in Days
    /\ day' = day + 1
    /\ UNCHANGED <<verdict, pnl>>

Next ==
    \/ \E n \in Nonces : Open(n) \/ Close(n) \/ \E gain \in Gains : Settle(n, gain)
    \/ Restart
    \/ NextDay

Spec == Init /\ [][Next]_bookVars

=============================================================================
