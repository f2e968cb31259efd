------------------------------ MODULE Sessions ------------------------------
(***************************************************************************)
(* One person's browser and the sessions the server keeps: pages open in   *)
(* several tabs, the cookies they share, the calls whose access token has  *)
(* lapsed, the refresh that renews it, and signing out.                    *)
(*                                                                         *)
(* A session is a family of refresh tokens: each is good for one rotation, *)
(* and one that is presented after that ends its family.  Issue number i   *)
(* made refresh token i and access token i.                                *)
(***************************************************************************)
EXTENDS Integers, Sequences, FiniteSets

CONSTANTS Tabs,          \* pages of the browser
          Slots, TabOf,  \* calls under way at once, and the page of each
          MaxLoads,      \* pages loaded
          MaxTroubles    \* tokens lapsed, answers lost, revocations, sign-ins and sign-outs, together

ASSUME SessionAssumption ==
    /\ {MaxLoads, MaxTroubles} \subseteq Nat
    /\ TabOf \in [Slots -> Tabs]

VARIABLES tokens,      \* what was issued: its family, whether the refresh token is live, the access token's version
          tv,          \* the token version of the user
          ended,       \* families that were signed out or revoked
          escaped,     \* families with a rotation under way when they were ended
          alarms,      \* refresh tokens that were presented dead
          presented,   \* who presented which refresh token
          jar,         \* the cookies of the browser
          access,      \* the access token a page holds in memory, 0 for none
          restoring,   \* pages that wait for the session of the last load
          refreshing,  \* a page has a refresh that its calls share
          refreshes,   \* refresh requests under way
          calls,       \* the calls of a page
          leaving,     \* the sign-out of a page
          out,         \* the person has signed out, and no refresh was under way
          orphaned,    \* refresh tokens whose answer nobody heard
          spent        \* what of the bounds is used up

server  == <<tokens, tv, ended, escaped, alarms, presented>>
pages   == <<access, restoring, refreshing, calls>>
vars    == <<server, jar, pages, refreshes, leaving, out, orphaned, spent>>

Issue(fam, version) == [fam |-> fam, live |-> TRUE, tv |-> version, lapsed |-> FALSE]
NoCall == [at |-> "idle", with |-> 0]
Stay   == [at |-> "stays", token |-> 0]

\* The person signed in some time ago, and the browser is opened.
Init ==
    /\ tokens = <<Issue(1, 0)>> /\ tv = 0
    /\ ended = {} /\ escaped = {} /\ alarms = {} /\ presented = {}
    /\ jar = [refresh |-> 1, csrf |-> TRUE]
    /\ access = [t \in Tabs |-> 0]
    /\ restoring = [t \in Tabs |-> FALSE]
    /\ refreshing = [t \in Tabs |-> FALSE]
    /\ refreshes = {}
    /\ calls = [c \in Slots |-> NoCall]
    /\ leaving = [t \in Tabs |-> Stay]
    /\ out = FALSE /\ orphaned = {}
    /\ spent = [loads |-> 0, troubles |-> 0]

Trouble == spent.troubles < MaxTroubles /\ spent' = [spent EXCEPT !.troubles = @ + 1]

(***************************************************************************)
(* The refresh of a page.  Calls that are told that their token is no good *)
(* share one: it is sent with the cookie as it is then.                    *)
(***************************************************************************)
Sent(t) == {r \in refreshes : r.tab = t}
Of(t)   == {r \in Sent(t) : r.heard}
Awaited == {r \in refreshes : r.heard}

Refresh(t) == [tab |-> t, nth |-> Cardinality(Sent(t)), heard |-> TRUE, token |-> jar.refresh,
               stage |-> "sent", new |-> 0, tv |-> 0]

SendRefresh(t) ==
    /\ refreshes' = refreshes \cup {Refresh(t)}
    /\ refreshing' = [refreshing EXCEPT ![t] = TRUE]
    /\ presented' = presented \cup {<<t, jar.refresh>>}

\* Mutant of refreshAccessToken: every call that needs a refresh sends its own.
refreshUnshared(t) == SendRefresh(t)

refreshAccessToken(t) ==
    IF refreshing[t] THEN UNCHANGED <<refreshes, refreshing, presented>> ELSE SendRefresh(t)

\* What a page leaves behind is heard by nobody.
Unfinished == {"sent", "holds"}
Abandon(rs) == {[r EXCEPT !.heard = FALSE] : r \in {x \in rs : x.stage \in Unfinished}}

\* A page is loaded, anew or for the first time: memory is lost and the cookies are not.
Load(t) ==
    /\ spent.loads < MaxLoads
    /\ Of(t) # {} => spent.troubles < MaxTroubles
    /\ access' = [access EXCEPT ![t] = 0]
    /\ calls' = [c \in Slots |-> IF TabOf[c] = t THEN NoCall ELSE calls[c]]
    /\ leaving' = [leaving EXCEPT ![t] = Stay]
    /\ restoring' = [restoring EXCEPT ![t] = jar.csrf]
    /\ orphaned' = orphaned \cup {r.token : r \in Of(t)}
    /\ LET left == (refreshes \ Of(t)) \cup Abandon(Of(t))
       IN IF jar.csrf
          THEN /\ refreshes' = left \cup {Refresh(t)}
               /\ refreshing' = [refreshing EXCEPT ![t] = TRUE]
               /\ presented' = presented \cup {<<t, jar.refresh>>}
          ELSE /\ refreshes' = left
               /\ refreshing' = [refreshing EXCEPT ![t] = FALSE]
               /\ UNCHANGED presented
    /\ spent' = [spent EXCEPT !.loads = @ + 1,
                              !.troubles = IF Of(t) # {} THEN @ + 1 ELSE @]
    /\ UNCHANGED <<tokens, tv, ended, escaped, alarms, jar, out>>

\* Signing in starts a family of its own.
SignIn(t) ==
    /\ access[t] = 0 /\ ~restoring[t] /\ leaving[t] = Stay /\ spent.loads > 0 /\ Trouble
    /\ tokens' = Append(tokens, Issue(Len(tokens) + 1, tv))
    /\ jar' = [refresh |-> Len(tokens) + 1, csrf |-> TRUE]
    /\ access' = [access EXCEPT ![t] = Len(tokens) + 1]
    /\ out' = FALSE
    /\ UNCHANGED <<tv, ended, escaped, alarms, presented, restoring, refreshing, calls, refreshes, leaving,
                   orphaned>>

(***************************************************************************)
(* Calls.                                                                  *)
(***************************************************************************)
Valid(i) == tokens[i].tv = tv /\ ~tokens[i].lapsed

Put(c, at, with) == calls' = [calls EXCEPT ![c] = [at |-> at, with |-> with]]

Call(c) ==
    /\ access[TabOf[c]] # 0 /\ calls[c].at = "idle"
    /\ Put(c, "sent", access[TabOf[c]])
    /\ UNCHANGED <<server, jar, access, restoring, refreshing, refreshes, leaving, out, orphaned, spent>>

Serve(c) ==
    /\ calls[c].at \in {"sent", "again"} /\ Valid(calls[c].with)
    /\ Put(c, "idle", 0)
    /\ UNCHANGED <<server, jar, access, restoring, refreshing, refreshes, leaving, out, orphaned, spent>>

\* The server does not know who is calling.
Deny(c) ==
    /\ calls[c].at \in {"sent", "again"} /\ ~Valid(calls[c].with)
    /\ Put(c, IF calls[c].at = "sent" THEN "denied" ELSE "denied again", calls[c].with)
    /\ UNCHANGED <<server, jar, access, restoring, refreshing, refreshes, leaving, out, orphaned, spent>>

\* A page that still has a token waits for a refresh: the one under way, or a new one.
Join(c) ==
    /\ calls[c].at = "denied" /\ access[TabOf[c]] # 0
    /\ refreshing[TabOf[c]] \/ jar.csrf
    /\ Put(c, "waits", calls[c].with)
    /\ refreshAccessToken(TabOf[c])
    /\ UNCHANGED <<tokens, tv, ended, escaped, alarms, jar, access, restoring, leaving, out, orphaned, spent>>

\* Without a token, a cookie or a second try left, the session of the page is over.
onUnauthorized(c) ==
    /\ \/ calls[c].at = "denied again"
       \/ calls[c].at = "denied" /\ (access[TabOf[c]] = 0 \/ (~refreshing[TabOf[c]] /\ ~jar.csrf))
    /\ Put(c, "idle", 0)
    /\ access' = [access EXCEPT ![TabOf[c]] = 0]
    /\ UNCHANGED <<server, jar, restoring, refreshing, refreshes, leaving, out, orphaned, spent>>

(***************************************************************************)
(* The server's side of a refresh.  The row of the token is locked by the  *)
(* rotation that takes it; others wait for it and find the token dead.     *)
(* What is revoked is what is live and visible when the statement begins:  *)
(* a replacement that commits meanwhile is not.                            *)
(***************************************************************************)
Step(r, new) == (refreshes \ {r}) \cup (IF r.heard \/ new.stage \in Unfinished THEN {new} ELSE {})

Held == {r.token : r \in {x \in refreshes : x.stage = "holds"}}
OfFamily(fams) == {i \in DOMAIN tokens : tokens[i].fam \in fams}

Revoke(fams) ==
    /\ tokens' = [i \in DOMAIN tokens |->
                    IF i \in OfFamily(fams) \ Held THEN [tokens[i] EXCEPT !.live = FALSE] ELSE tokens[i]]
    /\ escaped' = escaped \cup {tokens[i].fam : i \in Held \cap OfFamily(fams)}

\* Mutant of Consume: the token is looked at before its row is locked.
ConsumeUnlocked(r) ==
    /\ r.stage = "sent"
    /\ tokens[r.token].live
    /\ refreshes' = Step(r, [r EXCEPT !.stage = "holds", !.tv = tv])
    /\ UNCHANGED <<server, jar, pages, leaving, out, orphaned, spent>>

Consume(r) ==
    /\ r.stage = "sent" /\ r.token \notin Held
    /\ tokens[r.token].live
    /\ refreshes' = Step(r, [r EXCEPT !.stage = "holds", !.tv = tv])
    /\ UNCHANGED <<server, jar, pages, leaving, out, orphaned, spent>>

Reused(r) ==
    /\ r.stage = "sent" /\ r.token \notin Held /\ ~tokens[r.token].live
    /\ Revoke({tokens[r.token].fam})
    /\ alarms' = alarms \cup {r.token}
    /\ refreshes' = Step(r, [r EXCEPT !.stage = "refused"])
    /\ UNCHANGED <<tv, ended, presented, jar, pages, leaving, out, orphaned, spent>>

Rotate(r) ==
    /\ r.stage = "holds"
    /\ tokens' = Append([tokens EXCEPT ![r.token].live = FALSE], Issue(tokens[r.token].fam, r.tv))
    /\ refreshes' = Step(r, [r EXCEPT !.stage = "renewed", !.new = Len(tokens) + 1])
    /\ UNCHANGED <<tv, ended, escaped, alarms, presented, jar, pages, leaving, out, orphaned, spent>>

(***************************************************************************)
(* The answer of a refresh, or none: the calls that waited are sent again, *)
(* or end the session of the page.  The cookies come with the answer.      *)
(***************************************************************************)
Waiting(t) == {c \in Slots : TabOf[c] = t /\ calls[c].at = "waits"}
Wake(t, call) == calls' = [c \in Slots |-> IF c \in Waiting(t) THEN call ELSE calls[c]]

Settled(r) ==
    /\ refreshes' = refreshes \ {r}
    /\ refreshing' = [refreshing EXCEPT ![r.tab] = FALSE]
    /\ restoring' = [restoring EXCEPT ![r.tab] = FALSE]

\* Mutant of Renewed: the cookies of the answer are not kept.
RenewedWithoutCookies(r) ==
    /\ r.heard /\ r.stage = "renewed"
    /\ Settled(r)
    /\ access' = [access EXCEPT ![r.tab] = r.new]
    /\ Wake(r.tab, [at |-> "again", with |-> r.new])
    /\ UNCHANGED <<server, jar, leaving, out, orphaned, spent>>

Renewed(r) ==
    /\ r.heard /\ r.stage = "renewed"
    /\ Settled(r)
    /\ jar' = [refresh |-> r.new, csrf |-> TRUE]
    /\ access' = [access EXCEPT ![r.tab] = r.new]
    /\ Wake(r.tab, [at |-> "again", with |-> r.new])
    /\ UNCHANGED <<server, leaving, out, orphaned, spent>>

Unrenewed(r) ==
    /\ Settled(r)
    /\ Wake(r.tab, NoCall)
    /\ access' = [access EXCEPT ![r.tab] = IF Waiting(r.tab) # {} THEN 0 ELSE @]

\* Mutant of Refused: the calls that wait are not told.
RefusedSilently(r) ==
    /\ r.heard /\ r.stage = "refused"
    /\ Settled(r)
    /\ UNCHANGED <<server, jar, access, calls, leaving, out, orphaned, spent>>

Refused(r) ==
    /\ r.heard /\ r.stage = "refused"
    /\ Unrenewed(r)
    /\ UNCHANGED <<server, jar, leaving, out, orphaned, spent>>

\* The request or its answer is lost, or the page has waited long enough; the server may go on.
Lose(r) ==
    /\ r.heard /\ Trouble
    /\ refreshing' = [refreshing EXCEPT ![r.tab] = FALSE]
    /\ restoring' = [restoring EXCEPT ![r.tab] = FALSE]
    /\ Wake(r.tab, NoCall)
    /\ access' = [access EXCEPT ![r.tab] = IF Waiting(r.tab) # {} THEN 0 ELSE @]
    /\ \/ refreshes' = (refreshes \ {r}) \cup Abandon({r})
       \/ r.stage = "sent" /\ refreshes' = refreshes \ {r}
    /\ orphaned' = orphaned \cup {r.token}
    /\ UNCHANGED <<server, jar, leaving, out>>

(***************************************************************************)
(* Signing out: the server revokes the family of the cookie and takes the  *)
(* cookies back; the page forgets its token and expires the readable       *)
(* cookie, whether or not the server has answered.                         *)
(***************************************************************************)
Leave(t) ==
    /\ access[t] # 0 /\ leaving[t] = Stay /\ Trouble
    /\ IF jar.csrf
       THEN /\ leaving' = [leaving EXCEPT ![t] = [at |-> "sent", token |-> jar.refresh]]
            /\ UNCHANGED <<access, out>>
       ELSE access' = [access EXCEPT ![t] = 0] /\ out' = (Awaited = {}) /\ UNCHANGED leaving
    /\ UNCHANGED <<server, jar, restoring, refreshing, calls, refreshes, orphaned>>

ServeLeaving(t) ==
    /\ leaving[t].at = "sent"
    /\ LET fam == tokens[leaving[t].token].fam
       IN Revoke({fam}) /\ ended' = ended \cup {fam}
    /\ leaving' = [leaving EXCEPT ![t].at = "served"]
    /\ UNCHANGED <<tv, alarms, presented, jar, pages, refreshes, out, orphaned, spent>>

\* Mutant of Left: the readable cookie is left to the server.
LeftToTheServer(t) ==
    /\ leaving[t] # Stay
    /\ leaving' = [leaving EXCEPT ![t] = Stay]
    /\ access' = [access EXCEPT ![t] = 0]
    /\ \/ leaving[t].at = "served" /\ jar' = [refresh |-> 0, csrf |-> FALSE] /\ UNCHANGED spent
       \/ Trouble /\ UNCHANGED jar
    /\ out' = (Awaited = {})
    /\ UNCHANGED <<server, restoring, refreshing, calls, refreshes, orphaned>>

Left(t) ==
    /\ leaving[t] # Stay
    /\ leaving' = [leaving EXCEPT ![t] = Stay]
    /\ access' = [access EXCEPT ![t] = 0]
    /\ \/ leaving[t].at = "served" /\ jar' = [refresh |-> 0, csrf |-> FALSE] /\ UNCHANGED spent
       \/ Trouble /\ jar' = [jar EXCEPT !.csrf = FALSE]
    /\ out' = (Awaited = {})
    /\ UNCHANGED <<server, restoring, refreshing, calls, refreshes, orphaned>>

(***************************************************************************)
(* Elsewhere: an access token lapses; the password is changed, or all      *)
(* devices are signed out.                                                 *)
(***************************************************************************)
Lapse(i) ==
    /\ ~tokens[i].lapsed /\ Trouble
    /\ tokens' = [tokens EXCEPT ![i].lapsed = TRUE]
    /\ UNCHANGED <<tv, ended, escaped, alarms, presented, jar, pages, refreshes, leaving, out, orphaned>>

\* Mutant of RevokeAll: the refresh tokens are left to the token version.
RevokeVersionOnly ==
    /\ Trouble
    /\ tv' = tv + 1
    /\ ended' = ended \cup {tokens[i].fam : i \in DOMAIN tokens}
    /\ UNCHANGED <<tokens, escaped, alarms, presented, jar, pages, refreshes, leaving, out, orphaned>>

RevokeAll ==
    /\ Trouble
    /\ tv' = tv + 1
    /\ LET fams == {tokens[i].fam : i \in DOMAIN tokens}
       IN Revoke(fams) /\ ended' = ended \cup fams
    /\ UNCHANGED <<alarms, presented, jar, pages, refreshes, leaving, out, orphaned>>

Next ==
    \/ \E t \in Tabs : Load(t)
    \/ \E t \in Tabs : SignIn(t)
    \/ \E t \in Tabs : Leave(t)
    \/ \E t \in Tabs : ServeLeaving(t)
    \/ \E t \in Tabs : Left(t)
    \/ \E c \in Slots : Call(c)
    \/ \E c \in Slots : Serve(c)
    \/ \E c \in Slots : Deny(c)
    \/ \E c \in Slots : Join(c)
    \/ \E c \in Slots : onUnauthorized(c)
    \/ \E r \in refreshes : Consume(r)
    \/ \E r \in refreshes : Reused(r)
    \/ \E r \in refreshes : Rotate(r)
    \/ \E r \in refreshes : Renewed(r)
    \/ \E r \in refreshes : Refused(r)
    \/ \E r \in refreshes : Lose(r)
    \/ \E i \in DOMAIN tokens : Lapse(i)
    \/ RevokeAll

Spec == Init /\ [][Next]_vars

RefreshStep(r) == Consume(r) \/ Reused(r) \/ Rotate(r) \/ Renewed(r) \/ Refused(r)

\* The server answers the refreshes that reach it, and a page hears the answers that are not lost.
FairSpec == Spec /\ WF_vars(\E r \in refreshes : RefreshStep(r))

(***************************************************************************)
(* Properties.                                                             *)
(***************************************************************************)

\* A session is held by one refresh token at a time, whoever refreshes it and however often: of the
\* requests that present one token, one rotates it.
OneLiveTokenPerSession ==
    \A i, j \in DOMAIN tokens : tokens[i].fam = tokens[j].fam /\ tokens[i].live /\ tokens[j].live => i = j

\* A session that was signed out or revoked is over: none of its refresh tokens is good for anything,
\* unless one was being rotated at that very moment (the statement that revokes does not see the
\* replacement).
EndedSessionsStayEnded ==
    \A i \in DOMAIN tokens : tokens[i].fam \in ended /\ tokens[i].live => tokens[i].fam \in escaped

\* The reuse of a refresh token, which ends the session as if it had been stolen, is noticed only for a
\* reason: two tabs refreshed at the same time, an answer was lost, or the session had been ended.  One
\* page alone, whatever calls it makes at once, does not sound it.
AlarmsHaveAReason ==
    \A k \in alarms :
        \/ Cardinality({t \in Tabs : <<t, k>> \in presented}) > 1
        \/ k \in orphaned
        \/ tokens[k].fam \in ended
        \/ \E other \in alarms \ {k} : tokens[other].fam = tokens[k].fam

\* As long as the browser has the cookies of a session it can renew it, or has a reason not to: the
\* renewal is on its way, its answer was lost, or the session is over.
CookiesAreGood ==
    jar.csrf =>
        \/ tokens[jar.refresh].live
        \/ \E r \in refreshes : r.token = jar.refresh
        \/ jar.refresh \in orphaned
        \/ tokens[jar.refresh].fam \in ended
        \/ \E k \in alarms : tokens[k].fam = tokens[jar.refresh].fam

\* Somebody who has signed out stays signed out on this device, also when the server could not be told:
\* no page restores or renews a session until the next sign-in.  (Unless a refresh was under way when
\* the sign-out ended: its answer brings the cookies and the access token back.)
SignedOutStaysSignedOut ==
    out => ~jar.csrf /\ Awaited = {} /\ \A t \in Tabs : ~restoring[t]

\* A page's calls that wait for a refresh do not wait for ever, whoever else refreshes, signs out or
\* revokes meanwhile: they are sent again, or told that the session is over.
WaitingEnds == \A t \in Tabs : Waiting(t) # {} ~> Waiting(t) = {}

Chained == INSTANCE Rotation
               WITH issued <- [i \in DOMAIN tokens |-> tokens[i].fam],
                    live   <- {i \in DOMAIN tokens : tokens[i].live},
                    taken  <- Held,
                    reused <- alarms,
                    over   <- ended

(***************************************************************************)
(* However many tabs present one token at once, and whatever is lost,      *)
(* loaded anew or revoked meanwhile, a session stays a chain with one end: *)
(* a rotation replaces the very token whose row it holds, and neither a    *)
(* second rotation nor a revocation comes between its two steps.           *)
(***************************************************************************)
SessionsAreChains == Chained!Spec
=============================================================================
