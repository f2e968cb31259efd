-------------------------- MODULE DeliveryScreens --------------------------
(***************************************************************************)
(* The dispatcher's screens: the board, a run and a delivery.  They are    *)
(* read again every half minute.                                           *)
(***************************************************************************)
EXTENDS Roles

openStatuses == {"PLANNED", "ASSIGNED", "IN_TRANSIT", "ARRIVED"}
withCourier  == {"IN_TRANSIT", "ARRIVED"}

BoardAsks(u) ==
    If(Has(u, "delivery.view_all"),
       {"deliveries", "runs"} \cup If(Has(u, "delivery.plan") /\ Has(u, "members.view"), {"members"}))

RunPageAsks(u) ==
    If(Has(u, "delivery.view_all"), {"run"}) \cup If(Has(u, "delivery.plan"), {"deliveries"})

DeliveryPageAsks(u, d) ==
    If(Has(u, "delivery.view_all"),
       {"delivery"} \cup If(/\ Has(u, "delivery.plan") /\ d.status = "PLANNED"
                            /\ Has(u, "members.view"), {"members"}))

\* The page of an order shows the store where its goods are.
StoreDeliveryAsks(u, o) ==
    If(/\ IsStore(u) /\ Has(u, "delivery.view_store")
       /\ o.status \in {"READY_FOR_DELIVERY", "IN_TRANSIT", "DELIVERED", "DELIVERY_FAILED",
                        "COMPLETED", "DISPUTED"},
       {"store delivery"})

DeliveryMayRead(u, q) ==
    CASE q \in {"deliveries", "runs", "run", "delivery"} -> IsCompany(u) /\ Has(u, "delivery.view_all")
      [] q = "members" -> Has(u, "members.view")
      [] q = "store delivery" -> IsStore(u) /\ Has(u, "delivery.view_store")

(***************************************************************************)
(* The board makes a run of the chosen stops, in the chosen order.         *)
(***************************************************************************)
BoardOffers(u, r) ==
    If(Has(u, "delivery.view_all") /\ Has(u, "delivery.plan") /\ r.status = "NONE", {"create"})

\* The stops of the form, in order: two stops, moved and removed.
OrderedStops == {"ab", "ba", "a"}

BoardTakes(u, r) == If(IsCompany(u) /\ Has(u, "delivery.plan") /\ r.status = "NONE", To(r, "DRAFT"))

(***************************************************************************)
(* A run.  "EMPTY" is a draft that lost its stops, "LEFT" one of which the *)
(* stop "b" has been dispatched by itself, "SETTLED" a started run without *)
(* an open stop.                                                           *)
(***************************************************************************)
drafts == {"DRAFT", "EMPTY", "LEFT"}

RunOffers(u, r) ==
    If(Has(u, "delivery.view_all") /\ Has(u, "delivery.plan"),
       CASE r.status \in drafts   -> {"start", "cancel", "edit"}
         [] r.status = "SETTLED" -> {"finish"}
         [] OTHER                -> {})

RunInputs(act) == IF act = "edit" THEN OrderedStops ELSE {"-"}
RunEditor == Panel(FALSE, "refetch")
RunSends(act) == IF act = "edit" THEN RunEditor ELSE Blind(TRUE, "refetch")

\* A list that keeps a stop which is on its way already is refused.
RunTakes(u, r, act, in) ==
    If(IsCompany(u) /\ Has(u, "delivery.plan"),
       CASE act = "start"  -> If(r.status \in {"DRAFT", "LEFT"} /\ Allowed(u, "ORDER_FULFILLMENT"),
                                 To(r, "STARTED"))
         [] act = "cancel" -> If(r.status \in drafts, To(r, "CANCELLED"))
         [] act = "edit"   -> If(r.status \in drafts /\ (r.status = "LEFT" => in = "a"), To(r, "DRAFT"))
         [] act = "finish" -> If(r.status = "SETTLED", To(r, "FINISHED")))

\* A stop that leaves a draft, is dispatched from it, or is settled on the road, is no version of its run.
RunEvents(r) ==
    CASE r.status = "DRAFT"   -> {[r EXCEPT !.status = "EMPTY"], [r EXCEPT !.status = "LEFT"]}
      [] r.status = "STARTED" -> {[r EXCEPT !.status = "SETTLED"]}
      [] OTHER                -> {}

(***************************************************************************)
(* A delivery.                                                             *)
(***************************************************************************)
DeliveryOffers(u, d) ==
    If(Has(u, "delivery.view_all"),
       {a \in {"assign", "unassign", "dispatch", "cancel", "regenerate-code", "manual-confirm"} :
           \/ a = "assign" /\ Has(u, "delivery.plan") /\ Has(u, "members.view") /\ d.status = "PLANNED"
           \/ a = "unassign" /\ Has(u, "delivery.plan") /\ d.status = "ASSIGNED"
           \/ a = "dispatch" /\ Has(u, "delivery.act_any") /\ d.status = "ASSIGNED"
           \/ a = "cancel" /\ Has(u, "delivery.plan") /\ d.status \in {"PLANNED", "ASSIGNED"}
           \/ a = "regenerate-code" /\ Has(u, "delivery.regenerate_code") /\ d.status \in withCourier
           \/ a = "manual-confirm" /\ Has(u, "delivery.manual_confirm") /\ d.status \in withCourier})

DeliverySends(act) ==
    IF act \in {"assign", "unassign", "cancel"} THEN Live(FALSE, "refetch") ELSE Blind(TRUE, "refetch")

DeliveryTakes(u, d, act) ==
    CASE act = "assign"   -> If(Has(u, "delivery.plan") /\ d.status = "PLANNED", To(d, "ASSIGNED"))
      [] act = "unassign" -> If(Has(u, "delivery.plan") /\ d.status = "ASSIGNED", To(d, "PLANNED"))
      [] act = "cancel"   -> If(Has(u, "delivery.plan") /\ d.status \in {"PLANNED", "ASSIGNED"},
                                To(d, "CANCELLED"))
      [] act = "dispatch" -> If(/\ Has(u, "delivery.act_own") /\ Has(u, "delivery.act_any")
                                /\ d.status = "ASSIGNED" /\ Allowed(u, "ORDER_FULFILLMENT"),
                                To(d, "IN_TRANSIT"))
      [] act = "regenerate-code" -> If(Has(u, "delivery.regenerate_code") /\ d.status \in withCourier,
                                       To(d, d.status))
      [] act = "manual-confirm"  -> If(Has(u, "delivery.manual_confirm") /\ d.status \in withCourier,
                                       To(d, "DELIVERED"))

\* What the courier reports, and the run the delivery is put on or taken from.
DeliveryEvents(d) ==
    CASE d.status = "PLANNED"    -> To(d, "ASSIGNED")
      [] d.status = "ASSIGNED"   -> To(d, "PLANNED") \cup To(d, "IN_TRANSIT")
      [] d.status = "IN_TRANSIT" -> To(d, "ARRIVED") \cup To(d, "FAILED")
      [] d.status = "ARRIVED"    -> To(d, "DELIVERED") \cup To(d, "FAILED")
      [] OTHER                   -> {}
=============================================================================
