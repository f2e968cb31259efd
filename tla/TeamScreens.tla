---------------------------- MODULE TeamScreens ----------------------------
(***************************************************************************)
(* The screens of an organization about itself: its members and            *)
(* invitations, the inbox of the invited, leaving, and the profile.        *)
(***************************************************************************)
EXTENDS Roles

TeamPageAsks(u) == If(IsCompany(u), {"access"}) \cup If(Has(u, "members.view"), {"members"})
TeamInvitationsAsk(u) == If(Has(u, "members.view"), {"invitations"})
ResponsibleAsks(u) == If(Has(u, "members.view"), {"members"})
ProfilePageAsks(u) ==
    If(~IsPlatform(u), {"profile"} \cup If(Has(u, "verification.view"), {"verification"}) \cup ResponsibleAsks(u))

TeamMayRead(u, q) == IF q = "profile" THEN Has(u, "org.view") ELSE Has(u, "members.view")

\* A store's team is free; a company's grows while its subscription allows it and its plan has room.
subscriptionAllowed(u) == IsCompany(u) => Allowed(u, "MEMBER_INVITE")
seatFree(u) == subscriptionAllowed(u) /\ (IsCompany(u) => RoomForOne(u))

(***************************************************************************)
(* A member, whom the record names.                                        *)
(***************************************************************************)
MemberOffers(u, m) ==
    If(u.role = "OWNER" /\ m.by.side = u.side /\ m.by.role # "OWNER" /\ m.status # "REVOKED",
       {"revoke"}
       \cup (IF m.status = "ACTIVE" THEN {"role", "suspend"}
             ELSE If(subscriptionAllowed(u), {"role", "reactivate"})))

\* Only a role is changed with a version.
TeamAction(act) == IF act = "role" THEN Live(FALSE, "refetch") ELSE Blind(FALSE, "refetch")

locked_member(u, m) == m.by.side = u.side /\ m.by.role # "OWNER"
change_role(m) == If(m.status # "REVOKED", To(m, m.status))
transition_member(u, m, act) ==
    CASE act = "suspend"    -> If(m.status = "ACTIVE", To(m, "SUSPENDED"))
      [] act = "reactivate" -> If(m.status = "SUSPENDED" /\ seatFree(u), To(m, "ACTIVE"))
      [] act = "revoke"     -> If(m.status \in {"ACTIVE", "SUSPENDED"}, To(m, "REVOKED"))
MemberTakes(u, m, act) ==
    If(u.role = "OWNER" /\ locked_member(u, m),
       IF act = "role" THEN change_role(m) ELSE transition_member(u, m, act))

(***************************************************************************)
(* The invitation of an address: sent and revoked by the owner, answered   *)
(* by the one it is for, or lapsed.                                        *)
(***************************************************************************)
InvitationOffers(u, i) ==
    If(Has(u, "members.invite"),
       If(subscriptionAllowed(u), {"invite"}) \cup If(i.status = "PENDING", {"revoke"}))
InvitationSends(act) == Blind(act = "invite", "refetch")
invite(u, i) == If(subscriptionAllowed(u) /\ i.status \notin {"PENDING", "JOINED"}, To(i, "PENDING"))
revoke_invitation(i) == If(i.status = "PENDING", To(i, "REVOKED"))
InvitationTakes(u, i, act) ==
    If(u.role = "OWNER" /\ Has(u, "members.invite"), IF act = "invite" THEN invite(u, i) ELSE revoke_invitation(i))
InvitationEvents(i) == If(i.status = "PENDING", UNION {To(i, s) : s \in {"JOINED", "DECLINED", "EXPIRED"}})

\* The inbox shows what waits for an answer, to whoever is to take that seat.
InboxOffers(u, i) == If(~IsPlatform(u) /\ u.role # "OWNER" /\ i.status = "PENDING", {"accept", "decline"})
InboxSends(act) == Blind(act = "accept", "refetch")
respond(u, i, act) ==
    If(i.status = "PENDING" /\ u.role # "OWNER",
       IF act = "decline" THEN To(i, "DECLINED") ELSE If(seatFree(u), To(i, "JOINED")))

\* A seat is left by the one who has it.
LeaveOffers(u, m) == If(~IsPlatform(u) /\ u.role # "OWNER" /\ m.status = "ACTIVE", {"leave"})
LeaveSends == Blind(FALSE, "refetch")
LeaveTakes(u, m) == If(u.role # "OWNER" /\ m.status = "ACTIVE", To(m, "REVOKED"))
SeatEvents(m) == If(m.status = "ACTIVE", To(m, "SUSPENDED"))

(***************************************************************************)
(* The profile: its legal fields are open until the verification locks     *)
(* them.  A new version fills the form anew.  An image has no version.     *)
(***************************************************************************)
editable(u, p) ==
    If(Has(u, "org.edit_legal"), {"name"} \cup If(p.status = "OPEN", {"legal"}))
    \cup If(Has(u, "org.edit_contacts"), {"contacts"})
ProfileOffers(u, p) == If(editable(u, p) # {}, {"save"}) \cup If(Has(u, "org.edit_branding"), {"image"})
ProfileInputs(u, p, act) == IF act = "save" THEN editable(u, p) ELSE {"new", "none"}
UpdateProfile == Panel(FALSE, "adopt")
ImageChange == Blind(FALSE, "adopt")
ProfileSends(act) == IF act = "save" THEN UpdateProfile ELSE ImageChange
update_profile(u, p, field) ==
    If(IF field = "contacts" THEN Has(u, "org.edit_contacts")
       ELSE Has(u, "org.edit_legal") /\ (field = "legal" => p.status = "OPEN"),
       To(p, p.status))
change_logo(u, p) == If(Has(u, "org.edit_branding"), {p})
ProfileTakes(u, p, act, in) ==
    If(~IsPlatform(u), IF act = "save" THEN update_profile(u, p, in) ELSE change_logo(u, p))
ProfileEvents(p) == To(p, IF p.status = "OPEN" THEN "LOCKED" ELSE "OPEN")
=============================================================================
