---------------------------- MODULE AdminScreens ----------------------------
(***************************************************************************)
(* The screens of verification and of the platform: requests, users,       *)
(* organizations, failed events and reconciliation issues.                 *)
(***************************************************************************)
EXTENDS Roles

(***************************************************************************)
(* Verification: an organization submits its documents, one of the         *)
(* platform takes the request and decides it.  The answer of every act is  *)
(* the new state, and the page adopts it.                                  *)
(***************************************************************************)
VerificationPageAsks(u) == {"verification"}
VerificationMayRead(u, q) == Has(u, "verification.view")

VerificationOffers(u, v) ==
    If(v.status \in {"NOT_SUBMITTED", "REJECTED"} /\ Has(u, "verification.submit"), {"submit"})
SubmitVerification == Blind(TRUE, "adopt")
VerificationTakes(u, v) ==
    If(Has(u, "verification.submit") /\ v.status \in {"NOT_SUBMITTED", "REJECTED"}, To(v, "PENDING"))
VerificationEvents(v) == If(v.status = "PENDING", To(v, "APPROVED") \cup To(v, "REJECTED"))

ReviewOffers(u, v) ==
    If(IsPlatform(u),
       CASE v.status = "SUBMITTED"    -> {"start-review"}
         [] v.status = "UNDER_REVIEW" -> {"reject"} \cup If(v.by = u, {"approve"})
         [] OTHER                     -> {})
ReviewAction == Blind(FALSE, "adopt")
ReviewTakes(u, v, act) ==
    If(IsPlatform(u),
       CASE act = "start-review" -> If(v.status = "SUBMITTED",
                                       {[x EXCEPT !.by = u] : x \in To(v, "UNDER_REVIEW")})
         [] act = "approve"      -> If(v.status = "UNDER_REVIEW" /\ v.by = u, To(v, "APPROVED"))
         [] act = "reject"       -> If(v.status = "UNDER_REVIEW", To(v, "REJECTED")))

(***************************************************************************)
(* Users and organizations.  A "SUPERADMIN" is an active user whom nobody  *)
(* blocks.                                                                 *)
(***************************************************************************)
UserOffers(u, r) ==
    If(IsPlatform(u), {"logout-all", IF r.status = "BLOCKED" THEN "unblock" ELSE "block"})
UserDetail == Blind(FALSE, "adopt")
UserTakes(u, r, act) ==
    If(IsPlatform(u),
       CASE act = "block"   -> If(r.status \notin {"BLOCKED", "SUPERADMIN"}, To(r, "BLOCKED"))
         [] act = "unblock" -> If(r.status \notin {"ACTIVE", "SUPERADMIN"}, To(r, "ACTIVE"))
         [] OTHER           -> {r})

ORG_ACTIONS == {"suspend", "block", "activate"}
ALLOWED_ORG_TRANSITIONS ==
    {<<"ACTIVE", "SUSPENDED">>, <<"SUSPENDED", "ACTIVE">>, <<"ACTIVE", "BLOCKED">>,
     <<"SUSPENDED", "BLOCKED">>, <<"BLOCKED", "ACTIVE">>}

OrganizationOffers(u, r) == If(IsPlatform(u), ORG_ACTIONS \cup {"transfer-ownership", "legal"})
OrganizationSends(act) == IF act = "legal" THEN Live(FALSE, "adopt") ELSE Blind(FALSE, "adopt")
OrganizationStatusSet(r, status) ==
    If(<<r.status, status>> \in ALLOWED_ORG_TRANSITIONS, To(r, status))
OrganizationTakes(u, r, act) ==
    If(IsPlatform(u),
       CASE act = "suspend"  -> OrganizationStatusSet(r, "SUSPENDED")
         [] act = "block"    -> OrganizationStatusSet(r, "BLOCKED")
         [] act = "activate" -> OrganizationStatusSet(r, "ACTIVE")
         [] act = "legal"    -> To(r, r.status)
         [] OTHER            -> {r})

(***************************************************************************)
(* Operations: a failed event is tried again, an issue is closed.          *)
(***************************************************************************)
OutboxOffers(u, r) == If(IsPlatform(u) /\ r.status = "FAILED", {"retry"})
OutboxTakes(u, r)  == If(IsPlatform(u) /\ r.status = "FAILED", To(r, "PENDING"))
OutboxEvents(r)    == If(r.status = "PENDING", To(r, "PROCESSED") \cup To(r, "FAILED"))

IssueOffers(u, r) == If(IsPlatform(u) /\ r.status = "OPEN", {"resolve"})
IssueTakes(u, r)  == If(IsPlatform(u) /\ r.status = "OPEN", To(r, "RESOLVED"))
OperationsSend    == Blind(FALSE, "refetch")

(***************************************************************************)
(* Support: anybody writes, the platform answers.                          *)
(***************************************************************************)
TicketStatuses == {"OPEN", "IN_PROGRESS", "RESOLVED"}
TicketFormOffers == {"write"}
TicketForm   == Blind(FALSE, "refetch")
TicketOffers(u) == If(IsPlatform(u), {"save"})
TicketEditor == Blind(FALSE, "refetch")
TicketTakes(u, r, status) == If(IsPlatform(u), To(r, status))
=============================================================================
