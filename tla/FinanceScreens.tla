-------------------------- MODULE FinanceScreens ---------------------------
(***************************************************************************)
(* The screens of money: balances and statements are read, payments are    *)
(* recorded and decided, adjustments proposed and decided.  A decision is  *)
(* taken on a row of a list and sends the version that row had when the    *)
(* dialog was opened.                                                      *)
(***************************************************************************)
EXTENDS Roles

allowed(u) == Has(u, "finance.view")

FinancePageAsks(u) == If(allowed(u), {"summary", "balances"})

\* The tabs of a partner; adjustments are the company's.
ChargesAsk     == {"charges", "charge"}
PaymentsAsk    == {"payments", "payment"}
StatementAsks  == {"statement"}
AdjustmentsAsk == {"adjustments"}

PartnerFinancePageAsks(u) ==
    If(allowed(u), {"balance", "partnership"} \cup ChargesAsk \cup PaymentsAsk \cup StatementAsks
                   \cup If(IsCompany(u), AdjustmentsAsk))

\* A row names its partner, and asks for it.
PartnerLinkAsks(u) == {"partnership"}

PaymentsPageAsks(u) == If(allowed(u), PaymentsAsk \cup PartnerLinkAsks(u))

\* Mutant of AdjustmentsPageAsks: the page does not ask whose side it is on.
adjustmentsForBoth(u) == If(allowed(u), AdjustmentsAsk)

AdjustmentsPageAsks(u) ==
    If(allowed(u) /\ IsCompany(u), AdjustmentsAsk \cup {"balances", "balance"} \cup PartnerLinkAsks(u))

FinanceMayRead(u, q) ==
    IF q = "adjustments" THEN IsCompany(u) /\ Has(u, "finance.view")
    ELSE Has(u, "finance.view")

(***************************************************************************)
(* Recording a payment: one form, two ways to submit it.                   *)
(***************************************************************************)
PaymentFormOffers(u) == If(allowed(u) /\ Has(u, "payments.record"), {"record"})

PaymentFormInputs(u) == {"for later"} \cup If(Has(u, "payments.confirm"), {"confirmed"})

\* The preview of the allocation has to be there, and not on its way, before the form can be sent.
PaymentFormSends == [Blind(TRUE, "refetch") EXCEPT !.quiet = TRUE]

PaymentRecorded(u, r, in) ==
    If(Has(u, "payments.record") /\ (in = "confirmed" => IsCompany(u) /\ Has(u, "payments.confirm")),
       To(r, r.status))

(***************************************************************************)
(* Deciding on a payment that waits.                                       *)
(***************************************************************************)
PaymentOffers(u, p) ==
    {a \in {"confirm", "reject", "cancel"} :
        /\ allowed(u) /\ p.status = "PENDING"
        /\ \/ a = "confirm" /\ Has(u, "payments.confirm")
           \/ a = "reject" /\ Has(u, "payments.reject")
           \/ a = "cancel" /\ p.by = u}

PaymentSends == Row(TRUE, "refetch")

PaymentTakes(u, p, act) ==
    If(/\ p.status = "PENDING"
       /\ CASE act = "confirm" -> IsCompany(u) /\ Has(u, "payments.confirm")
            [] act = "reject"  -> IsCompany(u) /\ Has(u, "payments.reject")
            [] act = "cancel"  -> p.by = u,
       To(p, CASE act = "confirm" -> "CONFIRMED" [] act = "reject" -> "REJECTED" [] OTHER -> "CANCELLED"))

(***************************************************************************)
(* Proposing an adjustment, and deciding on a proposal: that of an owner   *)
(* is approved as it is made.  A refund beyond the unapplied credit is     *)
(* not approved.                                                           *)
(***************************************************************************)
AdjustmentFormOffers(u) == If(allowed(u) /\ IsCompany(u) /\ Has(u, "adjustments.create"), {"adjust"})
AdjustmentFormSends == Blind(TRUE, "refetch")
AdjustmentInputs(act) == IF act = "reject" THEN {"-"} ELSE {"in order", "beyond the credit"}
AdjustmentCreated(u, r, in) ==
    If(/\ IsCompany(u) /\ Has(u, "adjustments.create")
       /\ u.role = "OWNER" => in # "beyond the credit",
       To(r, r.status))

AdjustmentOffers(u, r) ==
    If(allowed(u) /\ IsCompany(u) /\ r.status = "PENDING_APPROVAL" /\ Has(u, "adjustments.approve"),
       {"approve", "reject"})

AdjustmentSends == Row(TRUE, "refetch")

AdjustmentTakes(u, r, act, in) ==
    If(/\ IsCompany(u) /\ Has(u, "adjustments.approve") /\ r.status = "PENDING_APPROVAL"
       /\ act = "approve" => in # "beyond the credit",
       To(r, IF act = "approve" THEN "APPROVED" ELSE "REJECTED"))
=============================================================================
