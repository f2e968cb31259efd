--------------------------- MODULE OrderRecords ----------------------------
(***************************************************************************)
(* The order rows and the state machine of backend/app/modules/orders/     *)
(* service.py: the statuses, what every transition starts from and leads   *)
(* to, and the fields a transition writes.  OrderService is the only       *)
(* writer of an order; what it makes the stock, the delivery and the       *)
(* finance modules do in the same transaction is conjoined by Fulfilment.  *)
(***************************************************************************)
EXTENDS Inventory

CONSTANTS
    Partnerships,       \* company-store agreements, at most one per order
    PartnershipOf,      \* PartnershipOf[o]: the partnership o is placed under
    RequestLines        \* the line sets a store may ask for

ASSUME PartnershipAssumption == PartnershipOf \in [Orders -> Partnerships]
ASSUME RequestAssumption == RequestLines \subseteq Lines \ {NoLines}

VARIABLES
    status,         \* orders.status, "NONE" before the order is created
    version,        \* orders.version, counted by every transition
    requested,      \* order_items.requested_quantity, in base units
    confirmed,      \* order_items.confirmed_quantity, in base units
    payable,        \* orders.total > 0: the discount may cancel the price
    windowOver,     \* delivered_at + dispute_window_hours has passed
    openDispute     \* the orders with an open ORDER dispute

orderVars == <<status, version, requested, confirmed, payable, windowOver, openDispute>>

Early      == {"NEW", "VIEWED"}
ReservedStatuses ==
    {"CONFIRMED", "PARTIALLY_CONFIRMED", "ASSEMBLING", "READY_FOR_DELIVERY", "DELIVERY_FAILED"}
HandedOver == {"DELIVERED", "DISPUTED", "COMPLETED"}
Dropped    == {"REJECTED", "CANCELLED"}
Statuses ==
    {"NONE"} \cup Early \cup ReservedStatuses \cup {"IN_TRANSIT"} \cup HandedOver \cup Dropped

OrderInit ==
    /\ status      = [o \in Orders |-> "NONE"]
    /\ version     = [o \in Orders |-> 0]
    /\ requested   = [o \in Orders |-> NoLines]
    /\ confirmed   = [o \in Orders |-> NoLines]
    /\ payable     = [o \in Orders |-> FALSE]
    /\ windowOver  = [o \in Orders |-> FALSE]
    /\ openDispute = {}

(***************************************************************************)
(* A transition of a set of orders, each from a status in from: the check  *)
(* against TRANSITIONS and the write of the target and of the next         *)
(* version.  A user's request also carries the version the user saw; a     *)
(* stale one is refused before anything changes, so the steps below are    *)
(* those of requests that carry the current version.                       *)
(***************************************************************************)
TransitionAll(os, from, to) ==
    /\ \A o \in os : status[o] \in from
    /\ status'  = [o \in Orders |-> IF o \in os THEN to ELSE status[o]]
    /\ version' = [o \in Orders |-> IF o \in os THEN version[o] + 1 ELSE version[o]]

Transition(o, from, to) == TransitionAll({o}, from, to)

OnlyStatusMoves == UNCHANGED <<requested, confirmed, payable, windowOver, openDispute>>

\* create: the lines are priced and frozen, nothing is reserved (ORD-006).
NewOrder(o, lines) ==
    /\ Transition(o, {"NONE"}, "NEW")
    /\ requested' = [requested EXCEPT ![o] = lines]
    /\ UNCHANGED <<confirmed, payable, windowOver, openDispute>>

MarkViewed(o) == Transition(o, {"NEW"}, "VIEWED") /\ OnlyStatusMoves

\* confirm: each line between nothing and what was asked, not all nothing.
\* The total is what the lines cost less a discount that may be all of it.
SetConfirmation(o, lines, costs) ==
    /\ lines # NoLines
    /\ \A p \in Products : lines[p] <= requested[o][p]
    /\ Transition(o, Early, IF lines = requested[o] THEN "CONFIRMED" ELSE "PARTIALLY_CONFIRMED")
    /\ confirmed' = [confirmed EXCEPT ![o] = lines]
    /\ payable'   = [payable EXCEPT ![o] = costs]
    /\ UNCHANGED <<requested, windowOver, openDispute>>

RejectOrder(o)  == Transition(o, Early, "REJECTED") /\ OnlyStatusMoves
CancelEarly(o)  == Transition(o, Early, "CANCELLED") /\ OnlyStatusMoves
\* Mutant of CancelHeld: what was delivered can be cancelled too.
CancelDelivered(o) ==
    Transition(o, ReservedStatuses \cup {"DELIVERED"}, "CANCELLED") /\ OnlyStatusMoves

CancelHeld(o)   == Transition(o, ReservedStatuses, "CANCELLED") /\ OnlyStatusMoves
Assemble(o)     == Transition(o, {"CONFIRMED", "PARTIALLY_CONFIRMED"}, "ASSEMBLING") /\ OnlyStatusMoves
MarkReady(o)    == Transition(o, {"ASSEMBLING"}, "READY_FOR_DELIVERY") /\ OnlyStatusMoves
ReattemptOrder(o) == Transition(o, {"DELIVERY_FAILED"}, "READY_FOR_DELIVERY") /\ OnlyStatusMoves

\* What only the delivery module may ask for (SystemActor DELIVERY).
DispatchOrders(os) == TransitionAll(os, {"READY_FOR_DELIVERY"}, "IN_TRANSIT") /\ OnlyStatusMoves
DeliverOrder(o)    == Transition(o, {"IN_TRANSIT"}, "DELIVERED") /\ OnlyStatusMoves
FailOrder(o)       == Transition(o, {"IN_TRANSIT"}, "DELIVERY_FAILED") /\ OnlyStatusMoves

\* What only the dispute module may ask for (SystemActor DISPUTE).  The last
\* dispute closes in the same transaction, before complete looks for one.
DisputeOrder(o) ==
    /\ o \notin openDispute
    /\ ~windowOver[o]
    /\ Transition(o, {"DELIVERED"}, "DISPUTED")
    /\ openDispute' = openDispute \cup {o}
    /\ UNCHANGED <<requested, confirmed, payable, windowOver>>

CloseDispute(o) ==
    /\ o \in openDispute
    /\ openDispute' = openDispute \ {o}
    /\ Transition(o, {"DISPUTED"}, "COMPLETED")
    /\ UNCHANGED <<requested, confirmed, payable, windowOver>>

\* The completion job (SystemActor COMPLETION), one order at a time.
CompleteDue(o) ==
    /\ windowOver[o]
    /\ o \notin openDispute
    /\ Transition(o, {"DELIVERED"}, "COMPLETED")
    /\ OnlyStatusMoves

\* The partnership module's termination (SystemActor PARTNERSHIP).
TerminateOrders(os) == TransitionAll(os, Early, "CANCELLED") /\ OnlyStatusMoves

\* Time passes: the dispute window of a delivered order runs out.
DisputeWindowEnds(o) ==
    /\ status[o] \in HandedOver
    /\ ~windowOver[o]
    /\ windowOver' = [windowOver EXCEPT ![o] = TRUE]
    /\ UNCHANGED <<status, version, requested, confirmed, payable, openDispute>>
-----------------------------------------------------------------------------
OrderTypeOK ==
    /\ status \in [Orders -> Statuses]
    /\ version \in [Orders -> Nat]
    /\ requested \in [Orders -> Lines]
    /\ confirmed \in [Orders -> Lines]
    /\ payable \in [Orders -> BOOLEAN]
    /\ windowOver \in [Orders -> BOOLEAN]
    /\ openDispute \subseteq Orders
=============================================================================
