----------------------------- MODULE Deliveries ----------------------------
(***************************************************************************)
(* The deliveries of orders and the couriers' runs, as backend/app/modules *)
(* /delivery/service.py writes them.  A delivery is one attempt to bring   *)
(* one order: the row <<o, n>> is the n-th attempt of order o.  A run is a *)
(* courier's list of stops for a day; its membership is the run field of   *)
(* the rows.  The order of the stops within a run is left out.             *)
(*                                                                         *)
(* An owner or manager may do everything a courier may (DEL-004), so whose *)
(* request it is never decides whether a step exists and is left out too.  *)
(***************************************************************************)
EXTENDS Integers, OrderIds

CONSTANTS
    Couriers,       \* members who may carry a delivery
    Runs,           \* the runs a model may create
    MaxAttempts,    \* bound of a model: attempts per order
    None            \* no courier, no run

ASSUME AttemptsAssumption == MaxAttempts \in Nat \ {0}
ASSUME NoneAssumption == None \notin Couriers \cup Runs

VARIABLES
    delivery,       \* delivery[<<o, n>>]: status, courier, run of the row
    run             \* run[r]: status and courier

deliveryVars == <<delivery, run>>

Attempts  == 1..MaxAttempts
DeliveryIds == Orders \X Attempts

Pool     == {"PLANNED", "ASSIGNED"}          \* still in the warehouse
OnRoad   == {"IN_TRANSIT", "ARRIVED"}        \* CODE_STATUSES
Open     == Pool \cup OnRoad
Final    == {"DELIVERED", "FAILED", "CANCELLED"}

Rows == [status : {"NONE"} \cup Open \cup Final,
         courier : Couriers \cup {None},
         run : Runs \cup {None}]
RunRows == [status : {"NONE", "DRAFT", "STARTED", "FINISHED", "CANCELLED"},
            courier : Couriers \cup {None}]

NoRow == [status |-> "NONE", courier |-> None, run |-> None]

DeliveriesInit ==
    /\ delivery = [d \in DeliveryIds |-> NoRow]
    /\ run = [r \in Runs |-> [status |-> "NONE", courier |-> None]]

IsOpen(d) == delivery[d].status \in Open
HasOpen(o) == \E n \in Attempts : IsOpen(<<o, n>>)
Stops(r) == {d \in DeliveryIds : delivery[d].run = r}

\* Every row of ds moves from a status in from to the status to.
MoveRows(ds, from, to) ==
    /\ \A d \in ds : delivery[d].status \in from
    /\ delivery' = [d \in DeliveryIds |->
                       IF d \in ds THEN [delivery[d] EXCEPT !.status = to] ELSE delivery[d]]

(***************************************************************************)
(* ORDER_READY: unless the order has an open delivery, the next attempt    *)
(* (one more than the highest so far) is planned.                          *)
(***************************************************************************)
NextAttempt(o, n) ==
    \A m \in Attempts : (delivery[<<o, m>>].status = "NONE") <=> (m >= n)

PlanForOrder(o) ==
    IF HasOpen(o)
    THEN UNCHANGED deliveryVars
    ELSE \E n \in Attempts :
            /\ NextAttempt(o, n)
            /\ delivery' = [delivery EXCEPT ![<<o, n>>].status = "PLANNED"]
            /\ UNCHANGED run

\* Mutant of CancelForOrder: only a delivery without a courier is dropped.
CancelUnassigned(o) ==
    /\ \A n \in Attempts : delivery[<<o, n>>].status \notin OnRoad
    /\ delivery' = [d \in DeliveryIds |->
                       IF d[1] = o /\ delivery[d].status = "PLANNED"
                       THEN [delivery[d] EXCEPT !.status = "CANCELLED"]
                       ELSE delivery[d]]
    /\ UNCHANGED run

\* The order is being cancelled: its open delivery is dropped with it, and
\* one that is already on the road refuses the cancellation.
CancelForOrder(o) ==
    /\ \A n \in Attempts : delivery[<<o, n>>].status \notin OnRoad
    /\ delivery' = [d \in DeliveryIds |->
                       IF d[1] = o /\ IsOpen(d)
                       THEN [delivery[d] EXCEPT !.status = "CANCELLED", !.run = None]
                       ELSE delivery[d]]
    /\ UNCHANGED run

\* Mutant of Assign: a failed delivery is given to a courier again.
AssignAgain(d, c) ==
    /\ delivery[d].status \in {"PLANNED", "FAILED"}
    /\ delivery' = [delivery EXCEPT ![d].status = "ASSIGNED", ![d].courier = c]
    /\ UNCHANGED run

Assign(d, c) ==
    /\ delivery[d].status = "PLANNED"
    /\ delivery' = [delivery EXCEPT ![d].status = "ASSIGNED", ![d].courier = c]
    /\ UNCHANGED run

Unassign(d) ==
    /\ delivery[d].status = "ASSIGNED"
    /\ delivery[d].run # None => run[delivery[d].run].status = "DRAFT"
    /\ delivery' = [delivery EXCEPT ![d] = [NoRow EXCEPT !.status = "PLANNED"]]
    /\ UNCHANGED run

\* A manager cancels the delivery alone; the order is left as it is.
CancelDelivery(d) ==
    /\ delivery[d].status \in Pool
    /\ delivery' = [delivery EXCEPT ![d].status = "CANCELLED", ![d].run = None]
    /\ UNCHANGED run

DispatchRows(ds) == MoveRows(ds, {"ASSIGNED"}, "IN_TRANSIT")
Arrive(d)        == MoveRows({d}, {"IN_TRANSIT"}, "ARRIVED") /\ UNCHANGED run
DeliverRow(d)    == MoveRows({d}, OnRoad, "DELIVERED") /\ UNCHANGED run
FailRow(d)       == MoveRows({d}, OnRoad, "FAILED") /\ UNCHANGED run

(***************************************************************************)
(* Runs.  SetStops rewrites the list of a run: what is dropped leaves the  *)
(* run, and goes back to the pool if it was waiting for this courier; what *)
(* is listed must be in the pool, in no other run and not promised to      *)
(* another courier.                                                        *)
(***************************************************************************)
BackToPool(row) ==
    IF row.status = "ASSIGNED" THEN [NoRow EXCEPT !.status = "PLANNED"]
                               ELSE [row EXCEPT !.run = None]

SetStops(r, c, ds) ==
    /\ \A d \in ds :
          /\ delivery[d].status \in Pool
          /\ delivery[d].run \in {None, r}
          /\ delivery[d].status = "ASSIGNED" => delivery[d].courier = c
    /\ delivery' = [d \in DeliveryIds |->
                       IF d \in ds THEN [status |-> "ASSIGNED", courier |-> c, run |-> r]
                       ELSE IF delivery[d].run = r THEN BackToPool(delivery[d])
                       ELSE delivery[d]]

CreateRun(r, c, ds) ==
    /\ run[r].status = "NONE"
    /\ ds # {}
    /\ SetStops(r, c, ds)
    /\ run' = [run EXCEPT ![r] = [status |-> "DRAFT", courier |-> c]]

UpdateRun(r, ds) ==
    /\ run[r].status = "DRAFT"
    /\ ds # {}
    /\ SetStops(r, run[r].courier, ds)
    /\ UNCHANGED run

\* The stops a start sends out: those that no one has dispatched already.
Waiting(r) == {d \in Stops(r) : delivery[d].status = "ASSIGNED"}

StartRunRows(r) ==
    /\ run[r].status = "DRAFT"
    /\ Stops(r) # {}
    /\ DispatchRows(Waiting(r))
    /\ run' = [run EXCEPT ![r].status = "STARTED"]

\* Mutant of FinishRun: it asks whether a stop still waits, not whether one
\* is still on the road.
FinishRunEarly(r) ==
    /\ run[r].status = "STARTED"
    /\ \A d \in Stops(r) : delivery[d].status \notin Pool
    /\ run' = [run EXCEPT ![r].status = "FINISHED"]
    /\ UNCHANGED delivery

FinishRun(r) ==
    /\ run[r].status = "STARTED"
    /\ \A d \in Stops(r) : ~IsOpen(d)
    /\ run' = [run EXCEPT ![r].status = "FINISHED"]
    /\ UNCHANGED delivery

CancelRun(r) ==
    /\ run[r].status = "DRAFT"
    /\ delivery' = [d \in DeliveryIds |->
                       IF delivery[d].run = r THEN BackToPool(delivery[d]) ELSE delivery[d]]
    /\ run' = [run EXCEPT ![r].status = "CANCELLED"]
-----------------------------------------------------------------------------
DeliveriesTypeOK ==
    /\ delivery \in [DeliveryIds -> Rows]
    /\ run \in [Runs -> RunRows]

(***************************************************************************)
(* One delivery of an order is in flight at a time (uq_deliveries_order_   *)
(* open), however often it is re-planned, re-assigned or re-attempted.     *)
(***************************************************************************)
OneOpenDelivery ==
    \A o \in Orders, m, n \in Attempts :
        IsOpen(<<o, m>>) /\ IsOpen(<<o, n>>) => m = n

(***************************************************************************)
(* A run never starts half-way: after DRAFT none of its stops still waits  *)
(* in the warehouse, and while it is open its waiting stops are promised   *)
(* to the courier who drives it.                                           *)
(***************************************************************************)
RunsGoTogether ==
    \A d \in DeliveryIds : delivery[d].run # None =>
        LET r == delivery[d].run IN
        /\ run[r].status \in {"DRAFT", "STARTED", "FINISHED"}
        /\ delivery[d].status \notin {"NONE", "PLANNED"}
        /\ delivery[d].status = "ASSIGNED" => run[r].status = "DRAFT"
        /\ run[r].status = "FINISHED" => ~IsOpen(d)
        /\ delivery[d].courier = run[r].courier
=============================================================================
