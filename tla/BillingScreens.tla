--------------------------- MODULE BillingScreens ---------------------------
(***************************************************************************)
(* The screens of subscriptions: those of the company, and those of the    *)
(* platform.  They are read again every minute.                            *)
(***************************************************************************)
EXTENDS Roles

SubscriptionPageAsks(u) == If(Has(u, "subscription.view"), {"subscription", "payments of it", "plans"})

\* Every member of a company may ask what its subscription allows: the banner and the buttons do.
BannerAsks(u) == If(IsCompany(u), {"access"})

BillingMayRead(u, q) ==
    CASE q \in {"subscription", "payments of it"} -> IsCompany(u) /\ Has(u, "subscription.view")
      [] q = "access" -> IsCompany(u)
      [] q = "plans"  -> TRUE

(***************************************************************************)
(* The company: ending with the period, and asking for another plan.       *)
(***************************************************************************)
SubscriptionOffers(u, r) ==
    If(Has(u, "subscription.view") /\ Has(u, "subscription.manage"), {"toggle", "request plan"})
SubscriptionInputs(r, act) ==
    IF act = "toggle" THEN {"RENEWS", "ENDS"} \ {r.status} ELSE {"-"}
SubscriptionSends(act) ==
    IF act = "toggle" THEN Blind(FALSE, "both") ELSE Blind(TRUE, "refetch")
SubscriptionTakes(u, r, act, in) ==
    If(IsCompany(u) /\ Has(u, "subscription.manage"),
       IF act = "toggle" THEN To(r, in) ELSE {r})

(***************************************************************************)
(* The platform: a payment is previewed and then confirmed; a trial is     *)
(* extended while it is one.                                               *)
(***************************************************************************)
BillingOffers(u, r) ==
    If(IsPlatform(u), {"pay", "change plan"} \cup If(r.status = "TRIAL", {"extend trial"}))
ManualPayment == Blind(TRUE, "refetch")
BillingSends(act) == IF act = "pay" THEN ManualPayment ELSE Blind(FALSE, "refetch")
PaymentTaken(r) == To(r, "ACTIVE")
BillingTakes(u, r, act) ==
    If(IsPlatform(u),
       CASE act = "pay"          -> PaymentTaken(r)
         [] act = "change plan"  -> To(r, r.status)
         [] act = "extend trial" -> If(r.status = "TRIAL", To(r, "TRIAL")))

PlanOffers(u, r) == If(IsPlatform(u), {"save"})
PlanForm == Row(FALSE, "refetch")
PlanTakes(u, r, in) == If(IsPlatform(u), To(r, in))

RequestOffers(u, r) == If(IsPlatform(u) /\ r.status = "PENDING", {"handle"})
RequestAction == Blind(FALSE, "refetch")
RequestTakes(u, r, in) == If(IsPlatform(u) /\ r.status = "PENDING", To(r, in))
=============================================================================
