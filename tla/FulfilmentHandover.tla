------------------------- MODULE FulfilmentHandover ------------------------
(* The composed system of Fulfilment keeps the promises of Handover.       *)
EXTENDS Fulfilment

\* Where an order of the program is in the life that Handover tells of.
PlaceOf(s) ==
    CASE s = "NONE"                -> "nowhere"
      [] s \in Early               -> "asked"
      [] s \in ReservedStatuses    -> "held"
      [] s = "IN_TRANSIT"          -> "road"
      [] s \in HandedOver          -> "handed"
      [] s \in Dropped             -> "dropped"

FreeGoods == [p \in Products |-> Available(p)]
Indebted  == {o \in Orders : charges[o] > 0}

Contract == INSTANCE Handover
                WITH place <- [o \in Orders |-> PlaceOf(status[o])],
                     free  <- FreeGoods,
                     held  <- active,
                     owed  <- Indebted

(***************************************************************************)
(* Order, stock, delivery and finance together implement the contract:     *)
(* every transaction of any of them is one step of it, or none.  A release *)
(* that forgot a line, a charge before the hand-over or after it, or a     *)
(* failed attempt that freed the goods would be no step of it.             *)
(***************************************************************************)
KeepsTheContract == Contract!Spec
=============================================================================
