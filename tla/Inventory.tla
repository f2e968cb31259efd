----------------------------- MODULE Inventory -----------------------------
(***************************************************************************)
(* The stock service (backend/app/modules/inventory/service.py), the only  *)
(* writer of the stock rows of one company and of the reservations that    *)
(* orders hold on them.  Every operation runs inside the transaction of    *)
(* its caller: it happens as a whole, for all its products, or not at all. *)
(*                                                                         *)
(* The operations are stated over the stock variables alone, so that a     *)
(* composition conjoins them with what the caller does.  Next lets any     *)
(* order call any of them in any order, which is what the service has to   *)
(* stand: callers retry, and close what is already closed.                 *)
(***************************************************************************)
EXTENDS Integers, FiniteSetsExt, OrderIds

CONSTANTS
    Products,       \* the products of the company
    MaxQuantity,    \* MAX_QUANTITY: no row holds more than this
    MaxShipped      \* bound of a model: what one order is shipped in all

ASSUME MaxQuantityAssumption == MaxQuantity \in Nat
ASSUME OrdersAssumption == IsFiniteSet(Orders)

VARIABLES
    quantity,       \* stocks.quantity: what is physically in the warehouse
    reserved,       \* stocks.reserved_quantity: the part promised to orders
    active,         \* active[o][p]: the ACTIVE reservation of o on p, 0 if none
    shipped,        \* shipped[o][p]: what SHIPPED reservations of o took away
    netInflow       \* the sum of quantity_delta over the movements without SHIP

stockVars == <<quantity, reserved, active, shipped, netInflow>>

Quantities == 0..MaxQuantity

\* The lines of one call, grouped by product: 0 where a product has no line.
Lines == [Products -> Quantities]
NoLines == [p \in Products |-> 0]

Available(p) == quantity[p] - reserved[p]

InventoryInit ==
    /\ quantity = NoLines
    /\ reserved = NoLines
    /\ active   = [o \in Orders |-> NoLines]
    /\ shipped  = [o \in Orders |-> NoLines]
    /\ netInflow = NoLines

\* Mutant of Move: the rows are not checked, only changed.
MoveUnchecked(delta, held) ==
    /\ quantity' = [p \in Products |-> quantity[p] + delta[p]]
    /\ reserved' = [p \in Products |-> reserved[p] + held[p]]

(***************************************************************************)
(* One transaction's movements: delta is added to the quantity and held to *)
(* the reserved quantity of each product.  A movement that would leave a   *)
(* row negative, promised beyond what is there or above the limit refuses  *)
(* the whole call.                                                         *)
(***************************************************************************)
Move(delta, held) ==
    /\ \A p \in Products : 
          /\ quantity[p] + delta[p] \in Quantities
          /\ reserved[p] + held[p] \in 0..(quantity[p] + delta[p])
    /\ quantity' = [p \in Products |-> quantity[p] + delta[p]]
    /\ reserved' = [p \in Products |-> reserved[p] + held[p]]

Minus(lines) == [p \in Products |-> -lines[p]]
OnlyFor(p, n) == [NoLines EXCEPT ![p] = n]

(***************************************************************************)
(* Goods move without an order: a receipt, a count that corrects the       *)
(* quantity to the actual one, a write-off, a return put back on the shelf.*)
(***************************************************************************)
MoveStock(delta) ==
    /\ Move(delta, NoLines)
    /\ netInflow' = [p \in Products |-> netInflow[p] + delta[p]]
    /\ UNCHANGED <<active, shipped>>

Receive(lines)    == lines # NoLines /\ MoveStock(lines)
Adjust(p, actual) == MoveStock(OnlyFor(p, actual - quantity[p]))
WriteOff(p, n)    == n > 0 /\ MoveStock(OnlyFor(p, -n))
ReturnIn(lines)   == lines # NoLines /\ MoveStock(lines)

\* Mutant of TakeReservation: a retried call stacks on what is held already.
StackReservation(o, lines) ==
    /\ \A p \in Products : lines[p] <= Available(p)
    /\ Move(NoLines, lines)
    /\ active' = [active EXCEPT ![o] = [p \in Products |-> @[p] + lines[p]]]
    /\ UNCHANGED <<shipped, netInflow>>

(***************************************************************************)
(* An order takes a reservation.  A retry with the lines the order already *)
(* holds changes nothing; one with other lines is refused, as is a call    *)
(* that asks for more than is available of any product.                    *)
(***************************************************************************)
TakeReservation(o, lines) ==
    /\ active[o] = NoLines
    /\ \A p \in Products : lines[p] <= Available(p)
    /\ Move(NoLines, lines)
    /\ active' = [active EXCEPT ![o] = lines]
    /\ UNCHANGED <<shipped, netInflow>>

KeepReservation(o, lines) ==
    /\ active[o] = lines
    /\ UNCHANGED stockVars

Reserve(o, lines) ==
    /\ lines # NoLines
    /\ \/ TakeReservation(o, lines)
       \/ KeepReservation(o, lines)

\* Mutant of Release: the reservations are closed, the rows keep the promise.
ReleaseForgetsRows(o) ==
    /\ active' = [active EXCEPT ![o] = NoLines]
    /\ UNCHANGED <<quantity, reserved, shipped, netInflow>>

\* Mutant of Ship: the promise is lifted, the goods stay in the books.
ShipKeepsQuantity(o) ==
    /\ Move(NoLines, Minus(active[o]))
    /\ active' = [active EXCEPT ![o] = NoLines]
    /\ shipped' = [shipped EXCEPT ![o] = [p \in Products |-> @[p] + active[o][p]]]
    /\ UNCHANGED netInflow

\* Release and Ship close every ACTIVE reservation of the order; with none
\* left they are no-ops, so closing twice moves nothing twice.
Release(o) ==
    /\ Move(NoLines, Minus(active[o]))
    /\ active' = [active EXCEPT ![o] = NoLines]
    /\ UNCHANGED <<shipped, netInflow>>

Ship(o) ==
    /\ Move(Minus(active[o]), Minus(active[o]))
    /\ active' = [active EXCEPT ![o] = NoLines]
    /\ shipped' = [shipped EXCEPT ![o] = [p \in Products |-> @[p] + active[o][p]]]
    /\ UNCHANGED netInflow

\* What the company's own people may do to the stock, and what a return may.
KeepStock ==
    \/ \E lines \in Lines : Receive(lines)
    \/ \E p \in Products, n \in Quantities : Adjust(p, n)
    \/ \E p \in Products, n \in Quantities : WriteOff(p, n)

MoveGoods == KeepStock \/ \E lines \in Lines : ReturnIn(lines)

UseReservation(o) ==
    \/ \E lines \in Lines : Reserve(o, lines)
    \/ Release(o)
    \/ Ship(o)

ShippedWithinBound == \A o \in Orders, p \in Products : shipped'[o][p] <= MaxShipped

InventoryNext ==
    \/ MoveGoods
    \/ \E o \in Orders : UseReservation(o) /\ ShippedWithinBound

InventorySpec == InventoryInit /\ [][InventoryNext]_stockVars
-----------------------------------------------------------------------------
StockTypeOK ==
    /\ quantity \in Lines
    /\ reserved \in Lines
    /\ active \in [Orders -> Lines]
    /\ shipped \in [Orders -> [Products -> Nat]]
    /\ netInflow \in [Products -> Int]

OfAllOrders(lines, p) == SumFunction([o \in Orders |-> lines[o][p]])

(***************************************************************************)
(* What the nightly reconcile job compares: the reserved quantity of a     *)
(* product is exactly the sum of the ACTIVE reservations on it, so no      *)
(* goods stay promised to nobody and no promise is made twice.             *)
(***************************************************************************)
ReservedIsSumOfActive ==
    \A p \in Products : reserved[p] = OfAllOrders(active, p)

(***************************************************************************)
(* A retried reservation never stacks on the first one and never changes   *)
(* it: the ACTIVE lines of an order appear whole and disappear whole.      *)
(***************************************************************************)
ReservationIsAllOrNothing ==
    [][\A o \in Orders : active'[o] # active[o] => NoLines \in {active[o], active'[o]}]_stockVars

(***************************************************************************)
(* The movement ledger and the reservations tell one story: what came in   *)
(* on balance is still on the shelf or was shipped out of a reservation.   *)
(* A release that lowered the quantity, or a shipment that did not, would  *)
(* show here, calls later and for whichever order was retried.             *)
(***************************************************************************)
GoodsAreAccountedFor ==
    \A p \in Products :
        netInflow[p] = quantity[p] + OfAllOrders(shipped, p)
=============================================================================
