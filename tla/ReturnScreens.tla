--------------------------- MODULE ReturnScreens ---------------------------
(***************************************************************************)
(* The screens of returns and disputes.  An order is returned or disputed  *)
(* by its store; the company answers, line by line or as a whole.          *)
(***************************************************************************)
EXTENDS Roles

openReturnStatuses  == {"REQUESTED", "APPROVED", "RECEIVED"}
openDisputeStatuses == {"OPEN", "UNDER_REVIEW"}

ReturnsPageAsks(u)  == If(Has(u, "returns.view"), {"returns"})
DisputesPageAsks(u) == If(Has(u, "disputes.view"), {"disputes"})

ReturnMayRead(u, q) ==
    CASE q \in {"returns", "return", "returnable", "completion preview"} -> Has(u, "returns.view")
      [] q \in {"disputes", "dispute"} -> Has(u, "disputes.view")

(***************************************************************************)
(* From the order: the windows of a return and of a dispute are moments;   *)
(* "by" of such a record is not used, its status is that of the order      *)
(* while the window is open, and tells whether a return of it is open.     *)
(***************************************************************************)
RETURNABLE_STATUSES == {"DELIVERED", "DISPUTED", "COMPLETED"}
returningStatuses   == {"DELIVERED+RETURN", "DISPUTED+RETURN", "COMPLETED+RETURN"}

has_open(o) == o.status \in returningStatuses

OrderStatus(o) ==
    CASE o.status = "DELIVERED+RETURN" -> "DELIVERED"
      [] o.status = "DISPUTED+RETURN"  -> "DISPUTED"
      [] o.status = "COMPLETED+RETURN" -> "COMPLETED"
      [] OTHER                         -> o.status

WithReturn(status) ==
    CASE status = "DELIVERED" -> "DELIVERED+RETURN"
      [] status = "DISPUTED"  -> "DISPUTED+RETURN"
      [] OTHER                -> "COMPLETED+RETURN"

\* The page asks what is left to return, not whether a return is open.
OrderReturnOffers(u, o) ==
    {a \in {"return", "dispute"} :
        /\ IsStore(u)
        /\ \/ a = "return" /\ Has(u, "returns.request") /\ OrderStatus(o) \in RETURNABLE_STATUSES
           \/ a = "dispute" /\ Has(u, "disputes.open") /\ OrderStatus(o) = "DELIVERED"}

\* The dialog of a return asks what of the order is left to return.
OrderReturnAsks(u, o) == If("return" \in OrderReturnOffers(u, o), {"returnable"})

ReturnDialog  == Blind(TRUE, "leave")
DisputeDialog == Blind(TRUE, "leave")

\* A return is asked for some lines; a fraction, nothing at all or more than is left is not let through.
ReturnRequested(u, o) ==
    If(/\ IsStore(u) /\ Has(u, "returns.request") /\ OrderStatus(o) \in RETURNABLE_STATUSES
       /\ ~has_open(o),
       To(o, WithReturn(o.status)))

DisputeOpened(u, o) ==
    If(IsStore(u) /\ Has(u, "disputes.open") /\ OrderStatus(o) = "DELIVERED",
       To(o, IF has_open(o) THEN WithReturn("DISPUTED") ELSE "DISPUTED"))

OrderReturnTakes(u, o, act) == IF act = "return" THEN ReturnRequested(u, o) ELSE DisputeOpened(u, o)

\* The order is completed, or its return is settled.
OrderReturnEvents(o) ==
    If(OrderStatus(o) \in {"DELIVERED", "DISPUTED"},
       To(o, IF has_open(o) THEN WithReturn("COMPLETED") ELSE "COMPLETED"))
    \cup If(has_open(o), To(o, OrderStatus(o)))

(***************************************************************************)
(* The page of one return.                                                 *)
(***************************************************************************)
ReturnPageAsks(u, r) ==
    {q \in {"return", "order", "completion preview"} :
        \/ q = "return" /\ Has(u, "returns.view")
        \/ q = "order" /\ Has(u, "returns.view") /\ Has(u, "orders.view")
        \/ q = "completion preview" /\ IsCompany(u) /\ Has(u, "returns.complete") /\ r.status = "RECEIVED"}

canCancel(u, r) ==
    /\ r.status = "REQUESTED"
    /\ IF IsCompany(u) THEN Has(u, "returns.approve") ELSE Has(u, "returns.cancel_own") /\ u.role = "OWNER"

ReturnOffers(u, r) ==
    {a \in {"approve", "receive", "complete", "reject", "cancel"} :
        \/ a = "approve"  /\ IsCompany(u) /\ Has(u, "returns.approve")  /\ r.status = "REQUESTED"
        \/ a = "receive"  /\ IsCompany(u) /\ Has(u, "returns.receive")  /\ r.status = "APPROVED"
        \/ a = "complete" /\ IsCompany(u) /\ Has(u, "returns.complete") /\ r.status = "RECEIVED"
        \/ a = "reject"   /\ IsCompany(u) /\ Has(u, "returns.approve")  /\ r.status = "REQUESTED"
        \/ a = "cancel"   /\ canCancel(u, r)}

\* A line takes from nothing to its ceiling: what the step before left of it.
StepPanelInputs       == {"the ceiling", "less", "nothing"}
CompletionPanelInputs == {"the ceiling", "less", "nothing"}

ReturnInputs(act) ==
    CASE act \in {"approve", "receive"} -> StepPanelInputs
      [] act = "complete" -> CompletionPanelInputs
      [] OTHER -> {"-"}

StepPanel       == Panel(TRUE, "both")
CompletionPanel == Panel(TRUE, "both")
ReasonDialog    == Live(TRUE, "both")

ReturnSends(act) ==
    CASE act \in {"approve", "receive"} -> StepPanel
      [] act = "complete" -> CompletionPanel
      [] OTHER -> ReasonDialog

RETURN_TRANSITIONS ==
    [approve  |-> [from |-> {"REQUESTED"}, to |-> "APPROVED"],
     reject   |-> [from |-> {"REQUESTED"}, to |-> "REJECTED"],
     cancel   |-> [from |-> {"REQUESTED", "APPROVED"}, to |-> "CANCELLED"],
     receive  |-> [from |-> {"APPROVED"}, to |-> "RECEIVED"],
     complete |-> [from |-> {"RECEIVED"}, to |-> "COMPLETED"]]

\* Approving nothing is a rejection and has to be recorded as one.
ReturnTakes(u, r, act, in) ==
    If(/\ CASE act = "cancel" -> IF IsStore(u) THEN Has(u, "returns.cancel_own") /\ r.status = "REQUESTED"
                                 ELSE Has(u, "returns.approve")
            [] act \in {"approve", "reject"} -> IsCompany(u) /\ Has(u, "returns.approve")
            [] act = "receive"  -> IsCompany(u) /\ Has(u, "returns.receive")
            [] act = "complete" -> IsCompany(u) /\ Has(u, "returns.complete")
       /\ r.status \in RETURN_TRANSITIONS[act].from
       /\ ~(act = "approve" /\ in = "nothing"),
       To(r, RETURN_TRANSITIONS[act].to))

(***************************************************************************)
(* The page of one dispute, over an order or over a payment.               *)
(***************************************************************************)
DeliveryContextAsks(u) == If(Has(u, "delivery.view_all"), {"deliveries"})

DisputePageAsks(u, target) ==
    {q \in {"dispute", "order", "payment"} :
        \/ q = "dispute" /\ Has(u, "disputes.view")
        \/ q = "order" /\ target = "ORDER" /\ Has(u, "orders.view")
        \/ q = "payment" /\ target = "PAYMENT" /\ Has(u, "finance.view")}
    \cup If(target = "ORDER" /\ IsCompany(u), DeliveryContextAsks(u))

DisputeOffers(u, d) ==
    {a \in {"start-review", "resolve", "reject", "withdraw", "message"} :
        /\ d.status \in openDisputeStatuses
        /\ \/ a = "start-review" /\ IsCompany(u) /\ Has(u, "disputes.review") /\ d.status = "OPEN"
           \/ a \in {"resolve", "reject"} /\ IsCompany(u) /\ Has(u, "disputes.resolve")
           \/ a = "withdraw" /\ IsStore(u) /\ Has(u, "disputes.withdraw") /\ u.role = "OWNER"
           \/ a = "message" /\ Has(u, "disputes.message")}

\* The amount of a credit is held against the order's total; a payment has none to hold it against.  The
\* lines of a conversion are held against what was confirmed, not against what earlier returns left of it,
\* and a return of the order may be open.
futileConversions == {"MORE THAN IS LEFT", "BESIDE AN OPEN RETURN"}

ResolveInputs(target) ==
    {"NO_ACTION", "ADJUSTMENT_CREDIT"}
    \cup If(target = "ORDER", {"CONVERTED_TO_RETURN"} \cup futileConversions)

DisputeInputs(target, act) == IF act = "resolve" THEN ResolveInputs(target) ELSE {"-"}

StartReview    == Blind(FALSE, "both")
ResolveDialog  == Live(TRUE, "both")
RejectDialog   == Live(TRUE, "both")
WithdrawDialog == Live(TRUE, "both")
Chat           == Blind(TRUE, "refetch")

DisputeSends(act) ==
    CASE act = "start-review" -> StartReview
      [] act = "resolve"      -> ResolveDialog
      [] act = "reject"       -> RejectDialog
      [] act = "withdraw"     -> WithdrawDialog
      [] act = "message"      -> Chat

\* A credit of an owner resolves at once; a credit of a manager waits, under review, for the owner.
DisputeResolved(u, d, target, in) ==
    If(/\ IsCompany(u) /\ Has(u, "disputes.resolve")
       /\ d.status \in openDisputeStatuses
       /\ in # "NO_ACTION" => target = "ORDER"
       /\ in \notin futileConversions,
       To(d, IF in = "ADJUSTMENT_CREDIT" /\ ~Has(u, "adjustments.approve") THEN "UNDER_REVIEW" ELSE "RESOLVED"))

DisputeTakes(u, d, target, act, in) ==
    CASE act = "resolve" -> DisputeResolved(u, d, target, in)
      [] act = "start-review" -> If(IsCompany(u) /\ Has(u, "disputes.review") /\ d.status = "OPEN",
                                    To(d, "UNDER_REVIEW"))
      [] act = "reject" -> If(IsCompany(u) /\ Has(u, "disputes.resolve") /\ d.status \in openDisputeStatuses,
                              To(d, "REJECTED"))
      [] act = "withdraw" -> If(IsStore(u) /\ Has(u, "disputes.withdraw") /\ d.status \in openDisputeStatuses,
                                To(d, "WITHDRAWN"))
      [] act = "message" -> If(Has(u, "disputes.message") /\ d.status \in openDisputeStatuses, {d})
=============================================================================
