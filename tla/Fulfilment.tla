---------------------------- MODULE Fulfilment -----------------------------
(***************************************************************************)
(* An order from the store's request to the closed deal: the order, stock, *)
(* delivery and charge of one wholesale company, composed.                 *)
(*                                                                         *)
(* Every request and every job run takes the lock of the company's row     *)
(* first (lock_org, then subscription, partnership, order or delivery,     *)
(* stock), and the handlers of the events it publishes run inside its      *)
(* transaction.  So one action below is one whole transaction, and what    *)
(* interleaves is transactions: of the store, the company's staff, its     *)
(* couriers, the completion job and the administrators of the platform.    *)
(***************************************************************************)
EXTENDS OrderRecords, Deliveries

CONSTANT
    SubscriptionStates, \* the subscription states a model goes through
    CompanyStates       \* the states of the company's own row

VARIABLES
    company,        \* organizations.status, set by an administrator
    partnership,    \* partnerships.status
    subscription,   \* what the company's subscription still allows
    charges         \* the number of ORDER charges posted for an order

vars == <<stockVars, orderVars, deliveryVars,
          company, partnership, subscription, charges>>

PartnershipStatuses == {"ACTIVE", "SUSPENDED", "TERMINATED"}

\* Mutant of AllowedActions: a full block stops deliveries under way as well.
BlockEverything ==
    [OPEN       |-> {"NEW_ORDER", "CATALOG_WRITE", "ORDER_FULFILLMENT", "ORDER_CLOSE"},
     SOFT_BLOCK |-> {"CATALOG_WRITE", "ORDER_FULFILLMENT", "ORDER_CLOSE"},
     FULL_BLOCK |-> {}]

(***************************************************************************)
(* allowed_actions, for the actions that guard this module's steps: OPEN   *)
(* stands for TRIAL, ACTIVE and GRACE, FULL_BLOCK also for CANCELLED.      *)
(***************************************************************************)
AllowedActions ==
    [OPEN       |-> {"NEW_ORDER", "CATALOG_WRITE", "ORDER_FULFILLMENT", "ORDER_CLOSE"},
     SOFT_BLOCK |-> {"CATALOG_WRITE", "ORDER_FULFILLMENT", "ORDER_CLOSE"},
     FULL_BLOCK |-> {"ORDER_CLOSE"}]

ASSUME SubscriptionAssumption == SubscriptionStates \subseteq DOMAIN AllowedActions

\* SUSPENDED stands for BLOCKED too: every transaction treats the two alike.
ASSUME CompanyAssumption ==
    "ACTIVE" \in CompanyStates /\ CompanyStates \subseteq {"ACTIVE", "SUSPENDED"}

\* lock_org: the row of a company that is not ACTIVE refuses the transaction,
\* and nobody changes the row of one that is while the transaction holds it.
LockCompany == company = "ACTIVE" /\ UNCHANGED company

Require(action) == action \in AllowedActions[subscription]

Init ==
    /\ InventoryInit
    /\ OrderInit
    /\ DeliveriesInit
    /\ company = "ACTIVE"
    /\ partnership = [p \in Partnerships |-> "ACTIVE"]
    /\ subscription \in SubscriptionStates
    /\ charges = [o \in Orders |-> 0]

\* What a step leaves alone, by module.
StockStays       == UNCHANGED stockVars
OrdersStay       == UNCHANGED orderVars
DeliveriesStay   == UNCHANGED deliveryVars
AgreementsStay   == UNCHANGED <<partnership, subscription>>
OnlyOrdersMove   == StockStays /\ DeliveriesStay /\ AgreementsStay /\ UNCHANGED charges
-----------------------------------------------------------------------------
(***************************************************************************)
(* Orders.                                                                 *)
(***************************************************************************)
Create(o, lines) ==
    /\ LockCompany
    /\ partnership[PartnershipOf[o]] = "ACTIVE"
    /\ Require("NEW_ORDER")
    /\ NewOrder(o, lines)
    /\ OnlyOrdersMove

View(o) == LockCompany /\ MarkViewed(o) /\ OnlyOrdersMove

\* The credit check may refuse a confirmation too (unless it is overridden):
\* it looks at what the store owes, which the finance module keeps.
Confirm(o, lines, costs) ==
    /\ LockCompany
    /\ partnership[PartnershipOf[o]] \in {"ACTIVE", "SUSPENDED"}
    /\ Require("ORDER_FULFILLMENT")
    /\ SetConfirmation(o, lines, costs)
    /\ Reserve(o, lines)
    /\ DeliveriesStay /\ AgreementsStay /\ UNCHANGED charges

Reject(o) == LockCompany /\ RejectOrder(o) /\ OnlyOrdersMove

CancelBeforeConfirmation(o) == LockCompany /\ CancelEarly(o) /\ OnlyOrdersMove

CancelAfterConfirmation(o) ==
    /\ LockCompany
    /\ CancelHeld(o)
    /\ CancelForOrder(o)
    /\ Release(o)
    /\ AgreementsStay /\ UNCHANGED charges

StartAssembling(o) ==
    /\ LockCompany
    /\ Require("ORDER_FULFILLMENT")
    /\ Assemble(o)
    /\ OnlyOrdersMove

\* Both ways to READY_FOR_DELIVERY publish ORDER_READY, whose handler plans.
BecomeReady(o) ==
    /\ LockCompany
    /\ Require("ORDER_FULFILLMENT")
    /\ MarkReady(o)
    /\ PlanForOrder(o)
    /\ StockStays /\ AgreementsStay /\ UNCHANGED charges

Reattempt(o) ==
    /\ LockCompany
    /\ Require("ORDER_FULFILLMENT")
    /\ ReattemptOrder(o)
    /\ PlanForOrder(o)
    /\ StockStays /\ AgreementsStay /\ UNCHANGED charges

OpenDispute(o)   == LockCompany /\ DisputeOrder(o) /\ OnlyOrdersMove
SettleDispute(o) == LockCompany /\ CloseDispute(o) /\ OnlyOrdersMove

\* The job's step for one order; Completion has the job as a whole.
Complete(o)      == LockCompany /\ CompleteDue(o) /\ OnlyOrdersMove
WindowEnds(o)    == DisputeWindowEnds(o) /\ OnlyOrdersMove /\ UNCHANGED company
-----------------------------------------------------------------------------
(***************************************************************************)
(* Deliveries.  The steps that plan, assign and cancel concern the row     *)
(* alone; those that move the goods drive the order in the same            *)
(* transaction (DEL-015).                                                  *)
(***************************************************************************)
OnlyDeliveriesMove == StockStays /\ OrdersStay /\ AgreementsStay /\ UNCHANGED charges

AssignCourier(d, c) == LockCompany /\ Assign(d, c) /\ OnlyDeliveriesMove
UnassignCourier(d)  == LockCompany /\ Unassign(d) /\ OnlyDeliveriesMove
CancelAttempt(d)    == LockCompany /\ CancelDelivery(d) /\ OnlyDeliveriesMove
ArriveAtStore(d)    == LockCompany /\ Arrive(d) /\ OnlyDeliveriesMove

\* Mutant of PostCharge: an order that costs nothing is charged as well.
PostAnyCharge(o) ==
    charges' = [charges EXCEPT ![o] = IF @ = 0 THEN 1 ELSE @]

\* create_order_charge: one charge per order, none for an order that is free.
PostCharge(o) ==
    charges' = [charges EXCEPT ![o] = IF @ = 0 /\ payable[o] THEN 1 ELSE @]

\* Mutant of Dispatch: the store owes as soon as the goods leave.
DispatchAndCharge(d) ==
    /\ LockCompany
    /\ Require("ORDER_FULFILLMENT")
    /\ DispatchOrders({d[1]})
    /\ DispatchRows({d})
    /\ UNCHANGED run
    /\ PostCharge(d[1])
    /\ StockStays /\ AgreementsStay

Dispatch(d) ==
    /\ LockCompany
    /\ Require("ORDER_FULFILLMENT")
    /\ DispatchOrders({d[1]})
    /\ DispatchRows({d})
    /\ UNCHANGED run
    /\ StockStays /\ AgreementsStay /\ UNCHANGED charges

\* By code or by manual override alike.
Deliver(d) ==
    /\ LockCompany
    /\ Require("ORDER_CLOSE")
    /\ DeliverRow(d)
    /\ DeliverOrder(d[1])
    /\ Ship(d[1])
    /\ PostCharge(d[1])
    /\ AgreementsStay

\* Mutant of Fail: the goods of a failed attempt are free again at once.
FailAndRelease(d) ==
    /\ LockCompany
    /\ FailRow(d)
    /\ FailOrder(d[1])
    /\ Release(d[1])
    /\ AgreementsStay /\ UNCHANGED charges

Fail(d) ==
    /\ LockCompany
    /\ FailRow(d)
    /\ FailOrder(d[1])
    /\ StockStays /\ AgreementsStay /\ UNCHANGED charges

PlanRun(r, c, ds)   == LockCompany /\ CreateRun(r, c, ds) /\ OnlyDeliveriesMove
ChangeRun(r, ds)    == LockCompany /\ UpdateRun(r, ds) /\ OnlyDeliveriesMove
CloseRun(r)         == LockCompany /\ FinishRun(r) /\ OnlyDeliveriesMove
DropRun(r)          == LockCompany /\ CancelRun(r) /\ OnlyDeliveriesMove

\* All the waiting stops go in one transaction, or none of them.
StartRun(r) ==
    /\ LockCompany
    /\ Waiting(r) # {} => Require("ORDER_FULFILLMENT")
    /\ StartRunRows(r)
    /\ DispatchOrders({d[1] : d \in Waiting(r)})
    /\ StockStays /\ AgreementsStay /\ UNCHANGED charges
-----------------------------------------------------------------------------
(***************************************************************************)
(* Agreements, and the goods that come and go without an order.            *)
(***************************************************************************)
MovePartnership(p, from, to) ==
    /\ LockCompany
    /\ partnership[p] \in from
    /\ partnership' = [partnership EXCEPT ![p] = to]
    /\ StockStays /\ DeliveriesStay /\ UNCHANGED <<subscription, charges>>

Suspend(p)    == MovePartnership(p, {"ACTIVE"}, "SUSPENDED") /\ OrdersStay
Reactivate(p) ==
    /\ MovePartnership(p, {"SUSPENDED"}, "ACTIVE")
    /\ Require("CATALOG_WRITE")
    /\ OrdersStay

\* Mutant of Unconfirmed: a request the company has looked at is forgotten.
UnseenRequests(p) == {o \in Orders : PartnershipOf[o] = p /\ status[o] = "NEW"}

Unconfirmed(p) == {o \in Orders : PartnershipOf[o] = p /\ status[o] \in Early}

Terminate(p) ==
    /\ MovePartnership(p, {"ACTIVE", "SUSPENDED"}, "TERMINATED")
    /\ TerminateOrders(Unconfirmed(p))

SubscriptionMoves ==
    /\ subscription' \in SubscriptionStates \ {subscription}
    /\ StockStays /\ OrdersStay /\ DeliveriesStay /\ UNCHANGED <<company, partnership, charges>>

\* An administrator suspends or blocks the company, and lifts it.
CompanyMoves ==
    /\ company' \in CompanyStates \ {company}
    /\ StockStays /\ OrdersStay /\ DeliveriesStay /\ AgreementsStay /\ UNCHANGED charges

\* A completed return puts back on the shelf at most what was delivered (that
\* several returns of one order add up to no more is not followed here).  It
\* asks for RETURNS_DISPUTES, which no state of a subscription withholds.
ReturnToStock(o, lines) ==
    /\ status[o] \in HandedOver
    /\ \A p \in Products : lines[p] <= confirmed[o][p]
    /\ ReturnIn(lines)

WarehouseMoves ==
    /\ LockCompany
    /\ \/ Require("CATALOG_WRITE") /\ KeepStock
       \/ \E o \in Orders, lines \in Lines : ReturnToStock(o, lines)
    /\ OrdersStay /\ DeliveriesStay /\ AgreementsStay /\ UNCHANGED charges
-----------------------------------------------------------------------------
OrderStep(o) ==
    \/ \E lines \in RequestLines : Create(o, lines)
    \/ View(o)
    \/ \E lines \in Lines, costs \in BOOLEAN : Confirm(o, lines, costs)
    \/ Reject(o)
    \/ CancelBeforeConfirmation(o)
    \/ CancelAfterConfirmation(o)
    \/ StartAssembling(o)
    \/ BecomeReady(o)
    \/ Reattempt(o)
    \/ OpenDispute(o)
    \/ SettleDispute(o)
    \/ Complete(o)
    \/ WindowEnds(o)

DeliveryStep(d) ==
    \/ \E c \in Couriers : AssignCourier(d, c)
    \/ UnassignCourier(d)
    \/ CancelAttempt(d)
    \/ Dispatch(d)
    \/ ArriveAtStore(d)
    \/ Deliver(d)
    \/ Fail(d)

RunStep(r) ==
    \/ \E c \in Couriers, ds \in SUBSET DeliveryIds : PlanRun(r, c, ds)
    \/ \E ds \in SUBSET DeliveryIds : ChangeRun(r, ds)
    \/ StartRun(r)
    \/ CloseRun(r)
    \/ DropRun(r)

AgreementStep(p) == Suspend(p) \/ Reactivate(p) \/ Terminate(p)

Next ==
    \/ \E o \in Orders : OrderStep(o)
    \/ \E d \in DeliveryIds : DeliveryStep(d)
    \/ \E r \in Runs : RunStep(r)
    \/ \E p \in Partnerships : AgreementStep(p)
    \/ SubscriptionMoves
    \/ CompanyMoves
    \/ WarehouseMoves

Spec == Init /\ [][Next]_vars
-----------------------------------------------------------------------------
(***************************************************************************)
(* Properties.                                                             *)
(***************************************************************************)
TypeOK ==
    /\ StockTypeOK
    /\ OrderTypeOK
    /\ DeliveriesTypeOK
    /\ company \in CompanyStates
    /\ partnership \in [Partnerships -> PartnershipStatuses]
    /\ subscription \in SubscriptionStates
    /\ charges \in [Orders -> Nat]

Holding == ReservedStatuses \cup {"IN_TRANSIT"}

(***************************************************************************)
(* The reservation follows the order: from confirmation until the goods    *)
(* are handed over or the order is dropped, exactly the confirmed lines    *)
(* are reserved for it, through any number of failed attempts; afterwards  *)
(* nothing is, and the goods were shipped if and only if it was delivered. *)
(***************************************************************************)
ReservationFollowsOrder ==
    \A o \in Orders :
        /\ active[o]  = IF status[o] \in Holding THEN confirmed[o] ELSE NoLines
        /\ shipped[o] = IF status[o] \in HandedOver THEN confirmed[o] ELSE NoLines

(***************************************************************************)
(* The delivery follows the order, and the order the delivery: an order is *)
(* in transit exactly while one of its deliveries is on the road, handed   *)
(* over exactly when one of them was delivered, and a delivery waits in    *)
(* the warehouse only for an order that is ready.                          *)
(***************************************************************************)
SomeDelivery(o, statuses) == \E n \in Attempts : delivery[<<o, n>>].status \in statuses

DeliveryFollowsOrder ==
    \A o \in Orders :
        /\ status[o] = "IN_TRANSIT"  <=> SomeDelivery(o, OnRoad)
        /\ status[o] \in HandedOver  <=> SomeDelivery(o, {"DELIVERED"})
        /\ SomeDelivery(o, Pool)      => status[o] = "READY_FOR_DELIVERY"

(***************************************************************************)
(* DEL-015, over the life of an order: it is charged once if it was handed *)
(* over and costs something, and otherwise never, whatever attempts failed *)
(* and whatever was disputed afterwards.                                   *)
(***************************************************************************)
ChargedOnceWhenHandedOver ==
    \A o \in Orders :
        charges[o] = IF status[o] \in HandedOver /\ payable[o] THEN 1 ELSE 0

(***************************************************************************)
(* PRT-009: a terminated partnership leaves no order waiting for an answer,*)
(* neither one it had nor one created while it was being terminated.       *)
(***************************************************************************)
TerminatedHasNoRequests ==
    \A o \in Orders : partnership[PartnershipOf[o]] = "TERMINATED" => status[o] \notin Early

(***************************************************************************)
(* Goods on the road can be handed over, unless the company itself is      *)
(* suspended: no correction of the stock, no block of the subscription, no *)
(* end of the partnership and no edit of a run in the meantime makes the   *)
(* closing transaction refuse.                                             *)
(***************************************************************************)
OnRoadCanBeDelivered ==
    \A d \in DeliveryIds :
        company = "ACTIVE" /\ delivery[d].status \in OnRoad => ENABLED Deliver(d)

(***************************************************************************)
(* What is closed stays closed: no step takes an order back from hand-over *)
(* or from being dropped, and every step that changes the status changes   *)
(* the version that the users' requests are checked against.               *)
(***************************************************************************)
NoWayBack ==
    [][\A o \in Orders :
          /\ status[o] \in HandedOver => status'[o] \in HandedOver
          /\ status[o] \in Dropped \cup {"COMPLETED"} => status'[o] = status[o]
          /\ status'[o] # status[o] => version'[o] > version[o]]_vars
=============================================================================
