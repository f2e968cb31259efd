----------------------------- MODULE MCDisputes -----------------------------
(* Models of Disputes: every way for money to come and go, and a dispute.   *)
EXTENDS Disputes, TLC

CONSTANTS o1, pay1, a1, a2, r1

MCOrders == {o1}
MCPayments == {pay1}
MCAdjustments == {a1, a2}
MCReturns == {r1}
MCAmounts == {1, 2}
MCCreditDays == {1}
AdjustmentSymmetry == Permutations(Adjustments)
=============================================================================
