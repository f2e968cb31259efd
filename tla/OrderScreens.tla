--------------------------- MODULE OrderScreens ----------------------------
(***************************************************************************)
(* The screens of orders and of the cart: what they show, what they offer, *)
(* what they send, and what the server makes of it.                        *)
(***************************************************************************)
EXTENDS Roles

statuses == {"NEW", "VIEWED", "CONFIRMED", "PARTIALLY_CONFIRMED", "ASSEMBLING", "READY_FOR_DELIVERY",
             "IN_TRANSIT", "DELIVERED", "DELIVERY_FAILED", "DISPUTED", "COMPLETED", "REJECTED",
             "CANCELLED"}
early    == {"NEW", "VIEWED"}
reserved == {"CONFIRMED", "PARTIALLY_CONFIRMED", "ASSEMBLING", "READY_FOR_DELIVERY", "DELIVERY_FAILED"}
onTheWay == {"IN_TRANSIT", "DELIVERED", "DISPUTED", "COMPLETED"}

(***************************************************************************)
(* What the pages ask for beside their record.                             *)
(***************************************************************************)
OrdersPageAsks(u) ==
    {q \in {"orders", "partnerships", "pending orders"} :
        \/ q = "orders" /\ Has(u, "orders.view")
        \/ q = "partnerships" /\ Has(u, "partners.view")
        \/ q = "pending orders" /\ IsCompany(u) /\ Has(u, "orders.confirm")}

BuyingAllows(u, page) ==
    Has(u, CASE page = "on behalf" -> "orders.create"
             [] page = "cart"      -> "cart.manage"
             [] OTHER              -> "store_catalog.view")

CatalogPanelAsks(page) == IF page = "on behalf" THEN {"order catalog"} ELSE {"store catalog", "cart"}
CartPanelAsks == {"cart"}

BuyingPageAsks(u, page) ==
    If(BuyingAllows(u, page),
       {"partnerships"} \cup IF page = "cart" THEN CartPanelAsks ELSE CatalogPanelAsks(page))

OrderMayRead(u, q) ==
    CASE q \in {"orders", "pending orders", "order"} -> Has(u, "orders.view")
      [] q = "order catalog" -> IsCompany(u) /\ Has(u, "orders.create")
      [] q = "store catalog" -> IsStore(u) /\ Has(u, "store_catalog.view")
      [] q = "cart"          -> IsStore(u) /\ Has(u, "cart.manage")
      [] q = "confirmation preview" -> IsCompany(u) /\ Has(u, "orders.confirm")

\* A warehouse worker does not see an order before it is confirmed.
OrderVisible(u, o) ==
    Has(u, "orders.view") /\ (u.role = "WAREHOUSE" => o.status \in reserved \cup onTheWay)

(***************************************************************************)
(* The page of one order.                                                  *)
(***************************************************************************)
OrderPageAsks(u, o) ==
    {q \in {"order", "confirmation preview"} :
        \/ q = "order" /\ Has(u, "orders.view")
        \/ q = "confirmation preview" /\ IsCompany(u) /\ Has(u, "orders.confirm") /\ o.status \in early}

cancelAllowed(u, o) ==
    /\ Has(u, "orders.cancel")
    /\ IF IsCompany(u) THEN o.status \in early \cup reserved
       ELSE o.status \in early /\ (u.role = "OWNER" \/ o.by = u)

\* Mutant of fulfillment: the buttons do not ask what the subscription allows.
anyFulfillment(u) == IsCompany(u)

fulfillment(u) == SeesAllowed(u, "ORDER_FULFILLMENT")

\* Opening a new order marks it as viewed: nobody presses a button.
MarksViewed(u, o) == IsCompany(u) /\ o.status = "NEW"

OrderOffers(u, o) ==
    {a \in {"confirm", "reject", "cancel", "start-assembling", "mark-ready", "reattempt", "mark-viewed"} :
        \/ a = "mark-viewed" /\ MarksViewed(u, o)
        \/ a = "confirm" /\ IsCompany(u) /\ Has(u, "orders.confirm") /\ o.status \in early /\ fulfillment(u)
        \/ a = "reject" /\ IsCompany(u) /\ Has(u, "orders.reject") /\ o.status \in early
        \/ a = "cancel" /\ cancelAllowed(u, o)
        \/ a = "start-assembling" /\ IsCompany(u) /\ Has(u, "orders.assemble") /\ fulfillment(u)
           /\ o.status \in {"CONFIRMED", "PARTIALLY_CONFIRMED"}
        \/ a = "mark-ready" /\ IsCompany(u) /\ Has(u, "orders.assemble") /\ fulfillment(u)
           /\ o.status = "ASSEMBLING"
        \/ a = "reattempt" /\ IsCompany(u) /\ Has(u, "orders.reattempt") /\ fulfillment(u)
           /\ o.status = "DELIVERY_FAILED"}

\* The lines of a confirmation: no more than asked, some more than nothing; a discount and an order
\* over a limit are for those who may grant them.
ConfirmationInputs(u) ==
    {"whole", "part"} \cup If(Has(u, "orders.discount"), {"discounted"})
                      \cup If(Has(u, "orders.override"), {"over a limit"})

OrderInputs(u, act) == IF act = "confirm" THEN ConfirmationInputs(u) ELSE {"-"}

ActionDialog == Live(TRUE, "refetch")
ConfirmationPanel == Panel(TRUE, "refetch")

OrderSends(act) ==
    CASE act = "confirm"     -> ConfirmationPanel
      [] act = "mark-viewed" -> Blind(FALSE, "adopt")
      [] OTHER               -> ActionDialog

(***************************************************************************)
(* The server.                                                             *)
(***************************************************************************)
OrderConfirms(u, o, in) ==
    If(/\ Has(u, "orders.confirm") /\ IsCompany(u)
       /\ o.status \in early
       /\ Allowed(u, "ORDER_FULFILLMENT")
       /\ in = "discounted" => Has(u, "orders.discount")
       /\ in = "over a limit" => Has(u, "orders.override"),
       To(o, IF in = "part" THEN "PARTIALLY_CONFIRMED" ELSE "CONFIRMED"))

OrderActs(u, o, act) ==
    If(CASE act = "reject" -> Has(u, "orders.reject") /\ IsCompany(u) /\ o.status \in early
         [] act = "cancel" -> /\ Has(u, "orders.cancel")
                              /\ o.status \in early \cup reserved
                              /\ IsStore(u) => o.status \in early /\ (u.role = "SELLER" => o.by = u)
         [] act = "start-assembling" -> /\ Has(u, "orders.assemble") /\ Allowed(u, "ORDER_FULFILLMENT")
                                        /\ o.status \in {"CONFIRMED", "PARTIALLY_CONFIRMED"}
         [] act = "mark-ready" -> /\ Has(u, "orders.assemble") /\ Allowed(u, "ORDER_FULFILLMENT")
                                  /\ o.status = "ASSEMBLING"
         [] act = "reattempt" -> /\ Has(u, "orders.reattempt") /\ Allowed(u, "ORDER_FULFILLMENT")
                                 /\ o.status = "DELIVERY_FAILED",
       To(o, CASE act = "reject" -> "REJECTED"
               [] act = "cancel" -> "CANCELLED"
               [] act = "start-assembling" -> "ASSEMBLING"
               [] OTHER -> "READY_FOR_DELIVERY"))

OrderMarkedViewed(u, o) ==
    If(IsCompany(u) /\ Has(u, "orders.view"), IF o.status = "NEW" THEN To(o, "VIEWED") ELSE {o})

OrderTakes(u, o, act, in) ==
    If(OrderVisible(u, o),
       CASE act = "confirm"     -> OrderConfirms(u, o, in)
         [] act = "mark-viewed" -> OrderMarkedViewed(u, o)
         [] OTHER               -> OrderActs(u, o, act))

(***************************************************************************)
(* The cart of one person: an addition sends the quantity the page shows   *)
(* plus one, a correction sends the quantity itself, and an order is made  *)
(* of whatever the cart holds when it arrives.                             *)
(***************************************************************************)
Quantities == <<"0", "1", "2", "3">>
QuantityIndex(q) == CHOOSE i \in DOMAIN Quantities : Quantities[i] = q

CartOffers(u, c) ==
    {a \in {"add", "set", "clear", "checkout"} :
        IF a = "add" THEN Has(u, "store_catalog.view") /\ c.status # "3"
        ELSE Has(u, "cart.manage") /\ c.status # "0"}

CartInputs(c, act) ==
    CASE act = "add" -> If(c.status # "3", {Quantities[QuantityIndex(c.status) + 1]})
      [] act = "set" -> {"0", "1"}
      [] OTHER       -> {"-"}

CartSends(act) == IF act = "checkout" THEN Blind(TRUE, "leave") ELSE Blind(FALSE, "refetch")

CartTakes(u, c, act, in) ==
    If(IsStore(u) /\ Has(u, "cart.manage"),
       CASE act \in {"add", "set"} -> To(c, in)
         [] act = "clear"          -> To(c, "0")
         [] act = "checkout"       -> If(c.status # "0" /\ Allowed(u, "NEW_ORDER"), To(c, "0")))

(***************************************************************************)
(* An order written by the company for a store: made once for one review.  *)
(* The link to the page asks what the subscription allows, the page itself *)
(* does not.                                                               *)
(***************************************************************************)
OnBehalfOffers(u) == If(IsCompany(u) /\ Has(u, "orders.create"), {"create"})
OnBehalfSends == Blind(TRUE, "leave")
OnBehalfTakes(u, r) ==
    If(IsCompany(u) /\ Has(u, "orders.create") /\ Allowed(u, "NEW_ORDER"), To(r, r.status))
=============================================================================
