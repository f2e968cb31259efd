----------------------------- MODULE OrderIds ------------------------------
(* The rows of table orders that a model may create, shared by the modules *)
(* that keep something for each of them.                                   *)
CONSTANT Orders
=============================================================================
