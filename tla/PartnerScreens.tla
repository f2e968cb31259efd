-------------------------- MODULE PartnerScreens ---------------------------
(***************************************************************************)
(* The screens of partnerships and of their terms.  One side starts a      *)
(* partnership and the other answers; the company suspends it, either side *)
(* ends it.  The terms of a partnership are versions, never changed, only  *)
(* appended.  A request of a store that waits without terms is "PENDING",  *)
(* one to which the company has appended some "TERMED".                    *)
(***************************************************************************)
EXTENDS Roles

pending == {"PENDING", "TERMED"}
living  == {"PENDING", "ACTIVE", "SUSPENDED"}

canNew(u)    == Has(u, "partners.manage") /\ (IsCompany(u) => SeesAllowed(u, "PARTNERSHIP_NEW"))
canWrite(u)  == Has(u, "terms.manage") /\ SeesAllowed(u, "CATALOG_WRITE")

PartnersPageAsks(u) == If(Has(u, "partners.view"), {"partnerships"})

PartnerDetailAsks(u) == If(Has(u, "partners.view"), {"partnership", "terms"})

\* The form of terms lets choose among the price lists.
TermsFormAsks(u) == {"price lists"}

PartnerMayRead(u, q) ==
    CASE q \in {"partnerships", "partnership"} -> Has(u, "partners.view")
      [] q = "terms" -> Has(u, "terms.view")
      [] q = "price lists" -> Has(u, "pricing.view")

(***************************************************************************)
(* A new partnership: the company invites, with terms; the store requests. *)
(* The record is "NONE" until the partnership exists; one that lives rules *)
(* out another.                                                            *)
(***************************************************************************)
NewPartnerOffers(u) ==
    If(Has(u, "partners.view") /\ canNew(u), {IF IsCompany(u) THEN "invite" ELSE "request"})

InviteForm  == [Blind(TRUE, "refetch") EXCEPT !.stamped = TRUE]
RequestForm == Blind(TRUE, "refetch")

\* The date of effect of new terms, typed or left to the moment of the submission, may lie in the past or
\* before that of the last terms.
PartnerInputs(act) ==
    IF act \in {"invite", "append", "accept with terms"} THEN {"in order", "too early"} ELSE {"-"}

TermsAppended(u, in) == IsCompany(u) /\ Has(u, "terms.manage") /\ in # "too early"

NewPartnerTakes(u, r, act, in) ==
    If(/\ Has(u, "partners.manage")
       /\ u.side = IF act = "invite" THEN "COMPANY" ELSE "STORE"
       /\ Allowed(u, "PARTNERSHIP_NEW")
       /\ r.status \notin living
       /\ act = "invite" => TermsAppended(u, in),
       {[x EXCEPT !.by = u] : x \in To(r, "PENDING")})

(***************************************************************************)
(* The page of one partnership.                                            *)
(***************************************************************************)
canAct(u, p, a) ==
    IF a = "terminate" THEN Has(u, "partners.terminate") /\ p.status \in {"ACTIVE", "SUSPENDED"}
    ELSE /\ Has(u, "partners.manage")
         /\ CASE a \in {"accept", "decline"} -> p.status \in pending /\ p.by.side # u.side
              [] a = "cancel"     -> p.status \in pending /\ p.by.side = u.side
              [] a = "suspend"    -> IsCompany(u) /\ p.status = "ACTIVE"
              [] a = "reactivate" -> IsCompany(u) /\ p.status = "SUSPENDED"

PartnerActions == {"accept", "decline", "cancel", "suspend", "reactivate", "terminate"}

\* An invitation has terms; the request of a store is accepted with the form of terms, unless it has some.
needsTerms(p) == p.status = "PENDING" /\ p.by.side = "STORE"
Pressed(p, a) == IF a = "accept" /\ needsTerms(p) THEN "accept with terms" ELSE a

PartnerOffers(u, p) ==
    If(Has(u, "partners.view"),
       {Pressed(p, a) : a \in {b \in PartnerActions : canAct(u, p, b)}}
       \cup If(IsCompany(u) /\ Has(u, "partners.manage"), {"code"}))

TermsForm == [Blind(TRUE, "refetch") EXCEPT !.stamped = TRUE]

PartnerSends(act) ==
    CASE act = "accept"            -> Blind(TRUE, "refetch")
      [] act = "accept with terms" -> TermsForm
      [] act = "code"              -> Live(FALSE, "refetch")
      [] OTHER                     -> Blind(FALSE, "refetch")

accepting == {"accept", "accept with terms"}

\* Both organizations are verified, and the plan of the company has room for the store.
Activated(u, act) ==
    /\ u.verified
    /\ IF act = "reactivate" THEN Allowed(u, "CATALOG_WRITE") /\ NotOver(u)
       ELSE Allowed(u, "PARTNERSHIP_NEW") /\ RoomForOne(u)

PartnerTransition(u, p, act, in) ==
    If(/\ Has(u, IF act = "terminate" THEN "partners.terminate" ELSE "partners.manage")
       /\ p.status \in CASE act \in accepting \cup {"decline", "cancel"} -> pending
                         [] act = "suspend"    -> {"ACTIVE"}
                         [] act = "reactivate" -> {"SUSPENDED"}
                         [] act = "terminate"  -> {"ACTIVE", "SUSPENDED"}
       /\ act \in accepting \cup {"decline"} => u.side # p.by.side
       /\ act = "cancel" => u.side = p.by.side
       /\ act \in {"suspend", "reactivate"} => IsCompany(u)
       /\ act \in accepting \cup {"reactivate"} => Activated(u, act)
       /\ act \in accepting => (act = "accept with terms" <=> needsTerms(p))
       /\ act = "accept with terms" => TermsAppended(u, in),
       To(p, CASE act = "decline" -> "DECLINED"
               [] act = "cancel" -> "CANCELLED"
               [] act = "suspend" -> "SUSPENDED"
               [] act = "terminate" -> "TERMINATED"
               [] OTHER -> "ACTIVE"))

CodePatched(u, p) ==
    If(IsCompany(u) /\ Has(u, "partners.manage") /\ Allowed(u, "CATALOG_WRITE"), To(p, p.status))

PartnerTakes(u, p, act, in) ==
    IF act = "code" THEN CodePatched(u, p) ELSE PartnerTransition(u, p, act, in)

(***************************************************************************)
(* New terms for a partnership: the record's version counts the terms.  An *)
(* untouched date of effect is the moment of the submission, and the       *)
(* server wants it later than that of the terms before.                    *)
(***************************************************************************)
TermsOffers(u, r) == If(Has(u, "partners.view") /\ canWrite(u) /\ r.status \in living, {"append"})

TermsTakes(u, r, in) ==
    If(TermsAppended(u, in) /\ r.status \in living /\ Allowed(u, "CATALOG_WRITE"), To(r, r.status))
=============================================================================
