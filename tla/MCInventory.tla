---------------------------- MODULE MCInventory ----------------------------
(* Model of Inventory: two orders compete for two products.                *)
EXTENDS Inventory, TLC

CONSTANTS o1, o2, p1, p2

MCOrders == {o1, o2}
MCProducts == {p1, p2}
OrderSymmetry == Permutations(MCOrders) \cup Permutations(MCProducts)
=============================================================================
