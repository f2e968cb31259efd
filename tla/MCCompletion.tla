---------------------------- MODULE MCCompletion ----------------------------
(* Instances of Completion: three orders of two companies, or one of each. *)
EXTENDS Completion, TLC

CONSTANTS w1, w2

MCOrders    == {1, 2, 3}
MCCompanies == {1, 2}
MCCompanyOf == 1 :> 1 @@ 2 :> 1 @@ 3 :> 2

OneEach      == {1, 3}
OneEachOf    == 1 :> 1 @@ 3 :> 2

MCWorkers == {w1, w2}
OneWorker == {w1}
=============================================================================
