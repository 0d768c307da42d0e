---------------------------- MODULE NonceLedger ----------------------------
(***************************************************************************)
(* The data of src/execution/nonce_manager.rs: the next nonce, the state   *)
(* of every nonce handed out, and the table of transactions that could     *)
(* still be replaced.  Each operator is one method of NonceManager, as a   *)
(* function from the ledger before the call to the ledger after it.        *)
(*                                                                         *)
(* A PendingNonce entry carries the hash and the fees of the transaction   *)
(* signed for its nonce; the ledger keeps one entry per nonce, so the      *)
(* table is represented by the set of its keys.                            *)
(***************************************************************************)
EXTENDS Naturals

CONSTANT MaxNonce   \* the largest nonce of an instance (u64 in the code)

ASSUME MaxNonceAssumption == MaxNonce \in Nat

Nonces == 0..MaxNonce

\* "Absent" stands for a nonce without an entry in the `states` map.
NonceState == {"Absent", "Reserved", "Submitted", "Included", "Dropped"}

Ledger == [next: 0..(MaxNonce + 1),
           states: [Nonces -> NonceState],
           pending: SUBSET Nonces]

\* NonceManager::with_replacement
EmptyLedger == [next |-> 0, states |-> [n \in Nonces |-> "Absent"], pending |-> {}]

\* sync: only a higher count of the node moves the local counter.
AfterSync(l, onchain) ==
    [l EXCEPT !.next = IF onchain > @ THEN onchain ELSE @]

\* A slip the checks must notice: the counter is read but not advanced.
ReserveWithoutAdvance(l) == [l EXCEPT !.states[l.next] = "Reserved"]

AfterReserve(l) ==
    [next |-> l.next + 1,
     states |-> [l.states EXCEPT ![l.next] = "Reserved"],
     pending |-> l.pending]

AfterSubmitted(l, n) ==
    [l EXCEPT !.states[n] = "Submitted", !.pending = @ \union {n}]

\* A slip the checks must notice: the replacement table keeps its entry.
IncludedStillPending(l, n) == [l EXCEPT !.states[n] = "Included"]

AfterIncluded(l, n) ==
    [l EXCEPT !.states[n] = "Included", !.pending = @ \ {n}]

AfterDropped(l, n) ==
    [l EXCEPT !.states[n] = "Dropped", !.pending = @ \ {n}]

=============================================================================
