-------------------------- MODULE WarehouseScreens --------------------------
(***************************************************************************)
(* The screens of the warehouse: the stock of a product, its corrections   *)
(* and the receipt of goods.                                               *)
(***************************************************************************)
EXTENDS Roles

\* What a page lets be written, and what the server lets be: the permission and the subscription.
writable(u, permission)   == Has(u, permission) /\ SeesAllowed(u, "CATALOG_WRITE")
mayWrite(u, permission)   == IsCompany(u) /\ Has(u, permission) /\ Allowed(u, "CATALOG_WRITE")

StockPageAsks(u)     == If(Has(u, "stock.view"), {"stocks", "categories"})
MovementsAsks(u, ofOneProduct) ==
    If(Has(u, "stock.view"), {"movements"} \cup If(~ofOneProduct, {"products"}))
StockDetailAsks(u)   == If(Has(u, "stock.view"), {"stock"}) \cup MovementsAsks(u, TRUE)
ReceiptPageAsks(u)   == If(Has(u, "stock.receive"), {"products"})
StockActionAsks(mode) == If(mode = "write-off", {"products"})

StockMayRead(u, q) == IsCompany(u) /\ Has(u, "stock.view")

(***************************************************************************)
(* One stock.  It is "FREE" or "HELD" by reservations: a count below what  *)
(* is reserved is refused.  A threshold is changed on the version shown; a *)
(* count and a loss are facts and travel without one.                      *)
(***************************************************************************)
StockOffers(u, r) ==
    If(Has(u, "stock.view"),
       {a \in {"threshold", "adjust", "write-off"} :
           \/ a = "threshold" /\ writable(u, "stock.settings")
           \/ a = "adjust" /\ writable(u, "stock.adjust")
           \/ a = "write-off" /\ writable(u, "stock.write_off")})

\* A loss may be of more than there is, and of a product that is not active any more: the page lists it.
futileLosses == {"more than there is", "of an inactive product"}

StockInputs(act) ==
    CASE act = "threshold" -> {"-"}
      [] act = "adjust"    -> {"within the free", "into the reserved"}
      [] OTHER             -> {"within the free", "into the reserved"} \cup futileLosses

ThresholdSends   == Live(FALSE, "refetch")
StockAction      == Blind(TRUE, "refetch")
StockSends(act)  == IF act = "threshold" THEN ThresholdSends ELSE StockAction

ThresholdSet(u, r) == If(mayWrite(u, "stock.settings"), To(r, r.status))

StockMoved(u, r, act, in) ==
    If(/\ mayWrite(u, IF act = "adjust" THEN "stock.adjust" ELSE "stock.write_off")
       /\ r.status = "HELD" => in # "into the reserved"
       /\ in \notin futileLosses,
       To(r, r.status))

StockTakes(u, r, act, in) ==
    IF act = "threshold" THEN ThresholdSet(u, r) ELSE StockMoved(u, r, act, in)

\* Orders reserve and release.
StockEvents(r) == To(r, IF r.status = "FREE" THEN "HELD" ELSE "FREE")

(***************************************************************************)
(* A receipt of goods, sent once, after a confirmation.                    *)
(***************************************************************************)
ReceiptOffers(u, r) == If(Has(u, "stock.receive") /\ writable(u, "stock.receive"), {"receive"})

ReceiptSends == Blind(TRUE, "leave")

ReceiptTakes(u, r) == If(mayWrite(u, "stock.receive"), To(r, r.status))
=============================================================================
