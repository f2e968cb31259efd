----------------------------- MODULE Handover ------------------------------
(***************************************************************************)
(* What the platform promises about goods, with everything left out of it  *)
(* but the goods: who may still have them, where they are and what is owed *)
(* for them.  A promise is made out of free goods only; it is kept, by a   *)
(* hand-over that makes the store a debtor in the same step, or dropped,   *)
(* and then every piece is free again.  Goods that left come back into the *)
(* promise, never into the free goods.                                     *)
(***************************************************************************)
EXTENDS Integers

CONSTANTS
    Orders,
    Products,
    Lines           \* what can be asked for: sets of functions on Products

VARIABLES
    place,          \* where an order is in its life
    free,           \* the goods nobody was promised
    held,           \* the goods promised to an order and not yet given
    owed            \* the orders the store owes something for

handoverVars == <<place, free, held, owed>>

Places == {"nowhere", "asked", "held", "road", "handed", "dropped"}
Nothing == [p \in Products |-> 0]

Init ==
    /\ place = [o \in Orders |-> "nowhere"]
    /\ free  = Nothing
    /\ held  = [o \in Orders |-> Nothing]
    /\ owed  = {}

Go(os, from, to) ==
    /\ \A o \in os : place[o] \in from
    /\ place' = [o \in Orders |-> IF o \in os THEN to ELSE place[o]]

GoodsStay == UNCHANGED <<free, held, owed>>

Ask(o) == Go({o}, {"nowhere"}, "asked") /\ GoodsStay

Promise(o, lines) ==
    /\ Go({o}, {"asked"}, "held")
    /\ \A p \in Products : lines[p] <= free[p]
    /\ free' = [p \in Products |-> free[p] - lines[p]]
    /\ held' = [held EXCEPT ![o] = lines]
    /\ UNCHANGED owed

\* The requests of several orders may be dropped together.
Forget(os) == Go(os, {"asked"}, "dropped") /\ GoodsStay

Drop(o) ==
    /\ Go({o}, {"held"}, "dropped")
    /\ free' = [p \in Products |-> free[p] + held[o][p]]
    /\ held' = [held EXCEPT ![o] = Nothing]
    /\ UNCHANGED owed

\* Several orders may leave on one truck.
Leave(os)   == Go(os, {"held"}, "road") /\ GoodsStay
TurnBack(o) == Go({o}, {"road"}, "held") /\ GoodsStay

HandOver(o) ==
    /\ Go({o}, {"road"}, "handed")
    /\ held' = [held EXCEPT ![o] = Nothing]
    /\ owed' \in {owed, owed \cup {o}}
    /\ UNCHANGED free

\* Goods come in, are counted, written off or put back on the shelf.
Restock ==
    /\ free' \in [Products -> Nat]
    /\ UNCHANGED <<place, held, owed>>

Next ==
    \/ \E o \in Orders :
          \/ Ask(o)
          \/ \E lines \in Lines : Promise(o, lines)
          \/ Drop(o)
          \/ TurnBack(o)
          \/ HandOver(o)
    \/ \E os \in SUBSET Orders : Forget(os) \/ Leave(os)
    \/ Restock

Spec == Init /\ [][Next]_handoverVars
=============================================================================
