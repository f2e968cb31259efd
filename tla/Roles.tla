------------------------------- MODULE Roles -------------------------------
(***************************************************************************)
(* Who may do what: the permissions of a role in an organization of a      *)
(* type, what the subscription and the plan of the company still allow,    *)
(* and how a screen sends an act.  The screens offer work by these tables  *)
(* and the server accepts work by them.                                    *)
(***************************************************************************)
EXTENDS Integers, FiniteSets, Sequences

StockAdmin    == {"stock.view", "stock.receive", "stock.adjust", "stock.write_off", "stock.settings"}
CatalogAdmin  == {"catalog.view", "catalog.manage", "pricing.view", "pricing.manage", "import.run"}
MemberAdmin   == {"members.view", "members.invite", "members.change_role", "members.suspend", "members.revoke"}
OrgOwner      == {"org.view", "org.edit_contacts", "org.edit_legal", "org.edit_branding",
                  "verification.submit", "verification.view"}
PartnersView  == {"partners.view", "terms.view"}
PartnersAdmin == PartnersView \cup {"partners.manage", "terms.manage"}
OrderCompany  == {"orders.view", "orders.create", "orders.confirm", "orders.reject"}
OrderAdmin    == OrderCompany \cup {"orders.discount", "orders.override", "orders.assemble",
                                    "orders.cancel", "orders.reattempt"}
OrderStore    == {"orders.view", "orders.create", "orders.cancel", "store_catalog.view", "cart.manage"}
DeliveryAdmin == {"delivery.view_all", "delivery.plan", "delivery.act_own", "delivery.act_any",
                  "delivery.manual_confirm", "delivery.regenerate_code"}
FinanceView   == {"finance.view", "payments.record"}
FinanceAdmin  == FinanceView \cup {"payments.confirm", "payments.reject", "adjustments.create"}
ReturnsAdmin  == {"returns.view", "returns.approve", "returns.receive", "returns.complete"}
DisputeReview == {"disputes.view", "disputes.message", "disputes.review"}
ReportsAdmin  == {"reports.sales", "reports.funnel", "reports.finance", "reports.returns",
                  "reports.delivery", "reports.inventory"}
Management    == CatalogAdmin \cup StockAdmin \cup PartnersAdmin \cup OrderAdmin \cup DeliveryAdmin
                 \cup FinanceAdmin \cup ReturnsAdmin \cup DisputeReview \cup {"disputes.resolve"}
                 \cup ReportsAdmin

Seats == {"COMPANY"} \X {"OWNER", "MANAGER", "OPERATOR", "WAREHOUSE", "COURIER"}
         \cup {"STORE"} \X {"OWNER", "SELLER"}
         \cup {"PLATFORM"} \X {"SUPERADMIN", "COLLEAGUE"}

PERMISSIONS ==
    [seat \in Seats |->
        CASE seat = <<"COMPANY", "OWNER">> ->
                Management \cup MemberAdmin \cup OrgOwner
                \cup {"adjustments.approve", "partners.terminate", "terms.manage_credit",
                      "subscription.view", "subscription.manage"}
          [] seat = <<"COMPANY", "MANAGER">> ->
                Management \cup {"members.view", "org.view", "org.edit_contacts", "verification.view",
                                 "subscription.view"}
          [] seat = <<"COMPANY", "OPERATOR">> ->
                PartnersView \cup OrderCompany \cup FinanceView \cup DisputeReview
                \cup {"org.view", "catalog.view", "pricing.view", "stock.view", "delivery.view_all",
                      "returns.view", "reports.funnel"}
          [] seat = <<"COMPANY", "WAREHOUSE">> ->
                {"org.view", "catalog.view", "stock.view", "stock.receive", "stock.settings",
                 "orders.view", "orders.assemble", "delivery.view_all", "returns.view",
                 "returns.receive", "reports.inventory"}
          [] seat = <<"COMPANY", "COURIER">> -> {"org.view", "delivery.act_own", "payments.record"}
          [] seat = <<"STORE", "OWNER">> ->
                MemberAdmin \cup OrgOwner \cup PartnersView \cup OrderStore \cup FinanceView
                \cup {"returns.view", "returns.request", "returns.cancel_own", "disputes.view",
                      "disputes.open", "disputes.withdraw", "disputes.message", "reports.purchases",
                      "reports.debt", "partners.manage", "partners.terminate", "delivery.view_store"}
          [] seat = <<"STORE", "SELLER">> ->
                PartnersView \cup OrderStore
                \cup {"org.view", "delivery.view_store", "returns.view", "disputes.view"}
          [] OTHER -> {}]

(***************************************************************************)
(* A person is a seat in an organization, with what holds for the company  *)
(* of the contract: its subscription, which its members see and its stores *)
(* do not; whether its plan has room for one more of a thing, is full, or  *)
(* is exceeded, as after a change to a smaller plan; and whether it and    *)
(* the organizations it deals with are verified.                           *)
(***************************************************************************)
Subscriptions == {"ACTIVE", "SOFT_BLOCK", "FULL_BLOCK"}
Plans == {"room", "full", "over"}

People == {[side |-> seat[1], role |-> seat[2], sub |-> s, plan |-> p, verified |-> v] :
              seat \in Seats, s \in Subscriptions, p \in Plans, v \in BOOLEAN}

Has(u, permission) == permission \in PERMISSIONS[<<u.side, u.role>>]
IsCompany(u) == u.side = "COMPANY"
IsStore(u)   == u.side = "STORE"
IsPlatform(u) == u.side = "PLATFORM"

SubActions == {"NEW_ORDER", "ORDER_FULFILLMENT", "CATALOG_WRITE", "PARTNERSHIP_NEW",
               "MEMBER_INVITE", "RETURNS_DISPUTES"}

allowed_actions(sub) ==
    CASE sub = "ACTIVE"     -> SubActions
      [] sub = "SOFT_BLOCK" -> {"RETURNS_DISPUTES", "ORDER_FULFILLMENT", "CATALOG_WRITE"}
      [] OTHER              -> {"RETURNS_DISPUTES"}

Allowed(u, action) == action \in allowed_actions(u.sub)

\* Whether the plan takes one more, and whether it takes what there is.
RoomForOne(u) == u.plan = "room"
NotOver(u)    == u.plan # "over"

\* The subscription a page asks for: /subscription/access answers the company only.
SeesAllowed(u, action) == IsCompany(u) /\ Allowed(u, action)

(***************************************************************************)
(* How a screen sends an act.  "version" says which version of the record  *)
(* travels with it: the one a panel was mounted for (a new version makes a *)
(* new panel), the one the page holds when the button is pressed, the one  *)
(* of the row the dialog was opened on, or none.  "keyed" says whether an  *)
(* idempotency key travels with it; "stamped" that the payload carries the *)
(* time of the submission; "quiet" that the button waits for a reading on  *)
(* its way.  "after" says what a success does to the page: read again,     *)
(* adopt the answer, both, or leave for another page.                      *)
(***************************************************************************)
Sending(version, keyed, after) ==
    [version |-> version, keyed |-> keyed, after |-> after, stamped |-> FALSE, quiet |-> FALSE]

Panel(keyed, after)  == Sending("panel", keyed, after)
Live(keyed, after)   == Sending("live", keyed, after)
Row(keyed, after)    == Sending("row", keyed, after)
Blind(keyed, after)  == Sending("none", keyed, after)

\* What the server makes of a record: a set of records, empty when it refuses.
To(r, status) == {[r EXCEPT !.status = status, !.version = @ + 1]}
If(condition, records) == IF condition THEN records ELSE {}
=============================================================================
