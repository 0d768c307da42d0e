------------------------------ MODULE FlashLoan ------------------------------
(* What a flash loan costs (execution/flash_loan.rs). *)
EXTENDS Integers

CONSTANTS Premium, Parts    \* its premium is Premium / Parts

ASSUME LoanAssumption == Premium \in Nat /\ Parts \in Nat \ {0}

LoanFee(x) == (x * Premium) \div Parts
=============================================================================
