--------------------------- MODULE CatalogScreens ---------------------------
(***************************************************************************)
(* The screens of the catalogue: products and their units, categories,     *)
(* price lists, prices, and imports.                                       *)
(***************************************************************************)
EXTENDS WarehouseScreens

ProductsPageAsks(u)   == If(Has(u, "catalog.view"), {"products", "categories"})
CategoriesPageAsks(u) == If(Has(u, "catalog.view"), {"categories"})
PriceListsPageAsks(u) == If(Has(u, "pricing.view"), {"price lists"})
MatrixAsks(u)         == If(Has(u, "pricing.view"), {"prices"})
ProductFormAsks       == {"categories"}
ProductPricesAsk(u)   == If(Has(u, "pricing.view"), {"price lists"})
ProductPageAsks(u)    == If(Has(u, "catalog.view"), {"products"} \cup ProductFormAsks \cup ProductPricesAsk(u))
ImportPagesAsk(u) == If(Has(u, "import.run"), {"imports"})

CatalogMayRead(u, q) ==
    IsCompany(u) /\ Has(u, CASE q \in {"products", "categories"} -> "catalog.view"
                             [] q = "prices"                     -> "pricing.view"
                             [] q = "imports"                    -> "import.run")

Toggled(status) == IF status = "INACTIVE" THEN "ACTIVE" ELSE "INACTIVE"

(***************************************************************************)
(* A product: the form is mounted anew for every version, and creating is  *)
(* keyed.  The plan limits the active ones.  A product that is priced or   *)
(* has other units keeps its base unit, which the form lets change.  Units *)
(* are added and deactivated, never changed, and the base unit stays.      *)
(***************************************************************************)
ProductOffers(u, r) ==
    If(Has(u, "catalog.view") /\ writable(u, "catalog.manage"),
       {IF r.status = "NONE" THEN "create" ELSE "edit"})
ProductInputs(act) == {"ACTIVE", "INACTIVE"} \cup If(act = "edit", {"another base unit"})
ProductForm(act)   == IF act = "edit" THEN Panel(FALSE, "refetch") ELSE Blind(TRUE, "leave")
ProductTakes(u, r, act, in) ==
    If(/\ mayWrite(u, "catalog.manage") /\ (act = "create" <=> r.status = "NONE")
       /\ in = "ACTIVE" /\ r.status # "ACTIVE" => RoomForOne(u)
       /\ in # "another base unit",
       To(r, in))

UnitOffers(u, r) ==
    If(Has(u, "catalog.view") /\ writable(u, "catalog.manage"),
       CASE r.status = "NONE" -> {"add"} [] r.status = "ACTIVE" -> {"deactivate"} [] OTHER -> {})
UnitPanel == Blind(FALSE, "refetch")
UnitTakes(u, r, act) ==
    If(mayWrite(u, "catalog.manage"),
       CASE act = "add"        -> If(r.status = "NONE", To(r, "ACTIVE"))
         [] act = "deactivate" -> If(r.status \notin {"NONE", "BASE"}, To(r, "INACTIVE")))

(***************************************************************************)
(* A category.  An active one is empty, "HOLDS" products, is a "PARENT" of *)
(* active ones, or is "IDLE": its children are all inactive.  An inactive  *)
(* one has no children or is "CLOSED" over some.  The line switches the    *)
(* version shown; the form is of the row it was opened on, and lets choose *)
(* any active root as its parent, or leave the parent it has.              *)
(***************************************************************************)
activeCategories == {"ACTIVE", "HOLDS", "PARENT", "IDLE"}
withChildren     == {"PARENT", "IDLE", "CLOSED"}
notEmpty         == {"HOLDS", "PARENT"}

CategoryOffers(u, r) ==
    If(Has(u, "catalog.view") /\ writable(u, "catalog.manage"),
       IF r.status = "NONE" THEN {"add"} ELSE {"edit", "toggle", "move"})
CategoryInputs(r, act) ==
    CASE act = "add"  -> {"no parent", "a parent"}
      [] act = "edit" -> {"no parent", "a parent"}
                         \cup If(r.status \notin withChildren, {"its inactive parent"})
      [] OTHER        -> {"-"}
CategoryForm == Row(FALSE, "refetch")
CategoryLine == Live(FALSE, "refetch")
CategorySends(act) ==
    CASE act = "add"  -> Blind(FALSE, "refetch")
      [] act = "edit" -> CategoryForm
      [] OTHER        -> CategoryLine

\* Two levels at most, and the upper one active.
validate_parent(r, in) == in # "its inactive parent" /\ (in = "a parent" => r.status \notin withChildren)

CategoryToggled(r) ==
    CASE r.status = "IDLE"   -> To(r, "CLOSED")
      [] r.status = "CLOSED" -> To(r, "IDLE") \cup To(r, "PARENT")
      [] OTHER               -> To(r, Toggled(r.status))

CategoryTakes(u, r, act, in) ==
    If(mayWrite(u, "catalog.manage"),
       CASE act = "add"    -> If(r.status = "NONE", To(r, "ACTIVE"))
         [] act = "edit"   -> If(r.status # "NONE" /\ validate_parent(r, in), To(r, r.status))
         [] act = "toggle" -> If(r.status \notin notEmpty \cup {"NONE"}, CategoryToggled(r))
         [] act = "move"   -> If(r.status # "NONE", To(r, r.status)))

\* Products and children come and go without a version of the category.
CategoryEvents(r) ==
    CASE r.status \in activeCategories -> {[r EXCEPT !.status = s] : s \in activeCategories \ {r.status}}
      [] r.status = "CLOSED"           -> {[r EXCEPT !.status = "INACTIVE"]}
      [] OTHER                         -> {}

(***************************************************************************)
(* A price list, and the price of one unit in it: a price with a future    *)
(* one behind it takes no other until that is cancelled, and one of a list *)
(* that is not active, "CLOSED", takes none.  The page shows the prices of *)
(* every list, and no unit that is "RETIRED".                              *)
(***************************************************************************)
ListOffers(u, r) ==
    If(Has(u, "pricing.view") /\ writable(u, "pricing.manage"),
       CASE r.status = "NONE"    -> {"add"}
         [] r.status = "DEFAULT" -> {"rename"}
         [] OTHER                -> {"rename", "toggle"})
ListEdit(act) == IF act = "add" THEN Blind(FALSE, "refetch") ELSE Panel(FALSE, "refetch")
ListTakes(u, r, act) ==
    If(/\ mayWrite(u, "pricing.manage")
       /\ act = "add" <=> r.status = "NONE"
       /\ act = "toggle" => r.status # "DEFAULT",
       To(r, CASE act = "add" -> "ACTIVE" [] act = "toggle" -> Toggled(r.status) [] OTHER -> r.status))

withFuture == {"FUTURE", "CLOSED+FUTURE"}

PriceOffers(u, r) ==
    If(Has(u, "pricing.view") /\ writable(u, "pricing.manage") /\ r.status # "RETIRED",
       {"price"} \cup If(r.status \in withFuture, {"cancel"}))
PriceInputs(act) == IF act = "price" THEN {"now", "later", "too early"} ELSE {"-"}
MatrixEditor == Blind(TRUE, "refetch")
CancelPrice  == Blind(FALSE, "refetch")
PriceTakes(u, r, act, in) ==
    If(mayWrite(u, "pricing.manage"),
       CASE act = "price"  -> If(r.status \notin withFuture \cup {"CLOSED", "RETIRED"} /\ in # "too early",
                                 To(r, IF in = "later" THEN "FUTURE" ELSE "CURRENT"))
         [] act = "cancel" -> If(r.status \in withFuture,
                                 To(r, IF r.status = "FUTURE" THEN "CURRENT" ELSE "CLOSED")))

\* The list is switched, the unit deactivated, or the future price begins.
PriceEvents(r) ==
    CASE r.status = "CURRENT"       -> To(r, "CLOSED") \cup To(r, "RETIRED")
      [] r.status = "FUTURE"        -> To(r, "CLOSED+FUTURE") \cup To(r, "RETIRED") \cup To(r, "CURRENT")
      [] r.status = "CLOSED"        -> To(r, "CURRENT") \cup To(r, "RETIRED")
      [] r.status = "CLOSED+FUTURE" -> To(r, "FUTURE") \cup To(r, "RETIRED") \cup To(r, "CLOSED")
      [] OTHER                      -> {}

(***************************************************************************)
(* An import, read again every two seconds.  "FAULTY" is a validated one   *)
(* with errors in its rows.                                                *)
(***************************************************************************)
ImportOffers(u, r) ==
    If(writable(u, "import.run"),
       CASE r.status = "NONE"      -> {"upload"}
         [] r.status = "VALIDATED" -> {"confirm", "cancel"}
         [] r.status \in {"UPLOADED", "FAULTY"} -> {"cancel"}
         [] OTHER                  -> {})
Wizard(act) ==
    CASE act = "upload"  -> Blind(FALSE, "leave")
      [] act = "confirm" -> Blind(TRUE, "refetch")
      [] OTHER           -> Blind(FALSE, "refetch")
ImportTakes(u, r, act) ==
    If(mayWrite(u, "import.run"),
       CASE act = "upload"  -> If(r.status = "NONE", To(r, "UPLOADED"))
         [] act = "confirm" -> If(r.status = "VALIDATED", To(r, "CONFIRMED"))
         [] act = "cancel"  -> If(r.status \in {"UPLOADED", "VALIDATED", "FAULTY"}, To(r, "CANCELLED")))
ImportEvents(r) ==
    CASE r.status = "UPLOADED"  -> To(r, "VALIDATED") \cup To(r, "FAULTY") \cup To(r, "FAILED")
      [] r.status = "CONFIRMED" -> To(r, "COMPLETED") \cup To(r, "FAILED")
      [] OTHER                  -> {}
=============================================================================
