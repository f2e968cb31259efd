--------------------------- MODULE MCFulfilment ----------------------------
(* Models of Fulfilment: which orders, products and lines there are.       *)
EXTENDS FulfilmentHandover, TLC

CONSTANTS o1, o2, p1, store1, c1, c2, r1, r2

MCOrders      == {o1, o2}
MCOneOrder    == {o1}
MCProducts    == {p1}
MCPartnerships == {store1}
MCPartnershipOf == [o \in Orders |-> store1]
MCRequestLines == {[p \in Products |-> n] : n \in 1..MaxQuantity}
MCOnePiece    == {[p \in Products |-> 1]}
MCCouriers    == {c1, c2}
MCOneCourier  == {c1}
MCTwoRuns     == {r1, r2}
MCOneRun      == {r1}
IdSymmetry    ==
    UNION {Permutations(Orders), Permutations(Couriers), Permutations(Runs)}

AnySubscription  == {"OPEN", "SOFT_BLOCK", "FULL_BLOCK"}
PaidSubscription == {"OPEN"}
AnyCompany == {"ACTIVE", "SUSPENDED"}
ActiveCompany == {"ACTIVE"}
=============================================================================
