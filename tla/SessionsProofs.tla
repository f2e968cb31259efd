--------------------------- MODULE SessionsProofs ---------------------------
(***************************************************************************)
(* Sessions, for any numbers of tabs and calls, of loads and of troubles:  *)
(* a session is held by one refresh token, a session that is ended has     *)
(* none, who has signed out stays signed out, reuse is noticed only for a  *)
(* reason, and the cookies stay good.                                      *)
(*                                                                         *)
(* The argument for the tokens: a rotation holds the only live token of    *)
(* its session, because a row has one holder and a revocation passes by    *)
(* the rows that are held; so the token it issues is the only one again.   *)
(***************************************************************************)
EXTENDS Sessions, FiniteSetTheorems, TLAPS

Tokens == [fam : Nat \ {0}, live : BOOLEAN, tv : Nat, lapsed : BOOLEAN]

\* What is issued, and what names it.
IssuedOK ==
    /\ tokens \in Seq(Tokens)
    /\ \A i \in DOMAIN tokens : tokens[i].fam <= Len(tokens)
    /\ tv \in Nat
    /\ ended \subseteq 1..Len(tokens)
    /\ jar \in [refresh : 0..Len(tokens), csrf : BOOLEAN]
    /\ jar.csrf => jar.refresh # 0

Stages == {"sent", "holds", "renewed", "refused"}
RequestOK(r) ==
    /\ r \in [tab : Tabs, nth : Nat, heard : BOOLEAN, token : 1..Len(tokens), new : 0..Len(tokens), tv : Nat,
              stage : Stages]
    /\ r.stage = "renewed" => r.new # 0

RequestsOK ==
    /\ IsFiniteSet(refreshes)
    /\ \A r \in refreshes : RequestOK(r)

LeavingOK ==
    /\ leaving \in [Tabs -> [at : {"stays", "sent", "served"}, token : 0..Len(tokens)]]
    /\ \A t \in Tabs : leaving[t].at = "sent" => leaving[t].token # 0

\* A row has one holder, and is live while it is held.
RowsAreLocked ==
    /\ \A r \in refreshes : r.stage = "holds" => tokens[r.token].live
    /\ \A r, s \in refreshes : r.stage = "holds" /\ s.stage = "holds" /\ r.token = s.token => r = s

TokensInv ==
    /\ IssuedOK /\ RequestsOK /\ LeavingOK
    /\ RowsAreLocked /\ OneLiveTokenPerSession /\ EndedSessionsStayEnded

(***************************************************************************)
(* The tokens under the operations on them.                                *)
(***************************************************************************)
LEMMA IssueIsAToken ==
    ASSUME NEW fam \in Nat \ {0}, NEW version \in Nat
    PROVE  Issue(fam, version) \in Tokens
BY DEF Issue, Tokens

\* An issue belongs to a session that has begun.
LEMMA TokensAreIssued ==
    ASSUME IssuedOK
    PROVE  /\ Len(tokens) \in Nat /\ DOMAIN tokens = 1..Len(tokens)
           /\ \A i \in 1..Len(tokens) : tokens[i] \in Tokens /\ tokens[i].fam \in 1..Len(tokens)
<1>1. Len(tokens) \in Nat /\ DOMAIN tokens = 1..Len(tokens) /\ \A i \in 1..Len(tokens) : tokens[i] \in Tokens
    BY DEF IssuedOK
<1>2. ASSUME NEW i \in 1..Len(tokens)
      PROVE  tokens[i].fam \in 1..Len(tokens)
    <2>1. tokens[i].fam <= Len(tokens)
        BY <1>1 DEF IssuedOK
    <2>2. tokens[i].fam \in Nat \ {0}
        BY <1>1 DEF Tokens
    <2> QED BY <1>1, <2>1, <2>2
<1> QED BY <1>1, <1>2

\* A revocation ends what is live of its sessions, but for what is held.
LEMMA RevokeEnds ==
    ASSUME IssuedOK, NEW fams, Revoke(fams)
    PROVE  /\ tokens' \in Seq(Tokens) /\ Len(tokens') = Len(tokens) /\ DOMAIN tokens' = DOMAIN tokens
           /\ \A i \in 1..Len(tokens) :
                 /\ tokens'[i].fam = tokens[i].fam
                 /\ tokens'[i].live => tokens[i].live
                 /\ i \in Held => tokens'[i] = tokens[i]
                 /\ tokens'[i].live /\ tokens[i].fam \in fams => i \in Held /\ tokens[i].fam \in escaped'
           /\ escaped \subseteq escaped'
<1>1. DOMAIN tokens = 1..Len(tokens) /\ Len(tokens) \in Nat /\ \A i \in 1..Len(tokens) : tokens[i] \in Tokens
    BY DEF IssuedOK
<1>2. tokens' = [i \in 1..Len(tokens) |->
                   IF i \in OfFamily(fams) \ Held THEN [tokens[i] EXCEPT !.live = FALSE] ELSE tokens[i]]
    BY <1>1 DEF Revoke
<1>3. \A i \in 1..Len(tokens) : tokens'[i] \in Tokens
    BY <1>1, <1>2 DEF Tokens
<1>4. tokens' \in Seq(Tokens) /\ Len(tokens') = Len(tokens) /\ DOMAIN tokens' = DOMAIN tokens
    BY <1>1, <1>2, <1>3
<1>5. \A i \in 1..Len(tokens) : tokens[i].fam \in fams <=> i \in OfFamily(fams)
    BY <1>1 DEF OfFamily
<1>6. escaped' = escaped \cup {tokens[i].fam : i \in Held \cap OfFamily(fams)}
    BY DEF Revoke
<1>7. ASSUME NEW i \in 1..Len(tokens)
      PROVE  /\ tokens'[i].fam = tokens[i].fam
             /\ tokens'[i].live => tokens[i].live
             /\ i \in Held => tokens'[i] = tokens[i]
             /\ tokens'[i].live /\ tokens[i].fam \in fams => i \in Held
    BY <1>1, <1>2, <1>5, <1>7 DEF Tokens
<1> QED BY <1>4, <1>5, <1>6, <1>7

\* A session that had one live token keeps it or loses it.
LEMMA TokensDie ==
    ASSUME OneLiveTokenPerSession, DOMAIN tokens' = DOMAIN tokens,
           \A i \in DOMAIN tokens : tokens'[i].fam = tokens[i].fam /\ (tokens'[i].live => tokens[i].live)
    PROVE  OneLiveTokenPerSession'
BY DEF OneLiveTokenPerSession

(***************************************************************************)
(* The requests.                                                           *)
(***************************************************************************)
LEMMA AbandonedOK ==
    ASSUME NEW rs \in SUBSET refreshes, RequestsOK
    PROVE  /\ IsFiniteSet(Abandon(rs))
           /\ \A r \in Abandon(rs) : RequestOK(r) /\ ~r.heard
           /\ \A r \in Abandon(rs) :
                  \E q \in rs : r.token = q.token /\ r.stage = q.stage /\ r = [q EXCEPT !.heard = FALSE]
<1> DEFINE left == {x \in rs : x.stage \in Unfinished}
           f == [r \in left |-> [r EXCEPT !.heard = FALSE]]
<1>1. IsFiniteSet(left)
    BY FS_Subset DEF RequestsOK
<1>2. f \in Surjection(left, Abandon(rs))
    BY DEF Surjection, Abandon
<1>3. IsFiniteSet(Abandon(rs))
    BY <1>1, <1>2, FS_Surjection
<1>4. \A r \in Abandon(rs) : \E q \in rs : r = [q EXCEPT !.heard = FALSE]
    BY DEF Abandon
<1>5. \A q \in rs : LET r == [q EXCEPT !.heard = FALSE]
                   IN RequestOK(r) /\ ~r.heard /\ r.token = q.token /\ r.stage = q.stage
    BY DEF RequestsOK, RequestOK
<1> QED BY <1>3, <1>4, <1>5

\* A request is written over: its step leaves the others.
LEMMA StepOK ==
    ASSUME NEW r \in refreshes, NEW new, RequestsOK, RequestOK(new)
    PROVE  /\ IsFiniteSet(Step(r, new))
           /\ \A x \in Step(r, new) : RequestOK(x) /\ (x = new \/ (x \in refreshes /\ x # r))
<1>1. Step(r, new) \subseteq refreshes \cup {new}
    BY DEF Step
<1>2. IsFiniteSet(refreshes \cup {new})
    BY FS_AddElement DEF RequestsOK
<1>3. IsFiniteSet(Step(r, new))
    BY <1>1, <1>2, FS_Subset
<1>4. \A x \in Step(r, new) : x = new \/ (x \in refreshes /\ x # r)
    BY DEF Step
<1> QED BY <1>3, <1>4 DEF RequestsOK

\* A refresh is sent with the cookie, which names a token.
LEMMA RefreshOK ==
    ASSUME NEW t \in Tabs, IssuedOK, RequestsOK, jar.csrf
    PROVE  RequestOK(Refresh(t)) /\ Refresh(t).stage = "sent" /\ Refresh(t).heard /\ Refresh(t).tab = t
<1>1. IsFiniteSet(Sent(t))
    BY FS_Subset DEF RequestsOK, Sent
<1>2. Cardinality(Sent(t)) \in Nat
    BY <1>1, FS_CardinalityType
<1> QED BY <1>2 DEF Refresh, RequestOK, Stages, IssuedOK

(***************************************************************************)
(* The steps of the pages: the server's tokens stay as they are.           *)
(***************************************************************************)
LEMMA ServerStands ==
    ASSUME TokensInv, UNCHANGED <<tokens, tv, ended, escaped>>, RequestsOK', LeavingOK', RowsAreLocked',
           jar' \in [refresh : 0..Len(tokens), csrf : BOOLEAN], jar'.csrf => jar'.refresh # 0
    PROVE  TokensInv'
<1>1. IssuedOK'
    BY DEF TokensInv, IssuedOK
<1>2. OneLiveTokenPerSession' /\ EndedSessionsStayEnded'
    BY DEF TokensInv, OneLiveTokenPerSession, EndedSessionsStayEnded
<1> QED BY <1>1, <1>2 DEF TokensInv

\* A step that leaves the cookies and the sign-outs as well changes the requests only.
LEMMA PageStands ==
    ASSUME TokensInv, UNCHANGED <<tokens, tv, ended, escaped, jar, leaving>>, RequestsOK', RowsAreLocked'
    PROVE  TokensInv'
<1>1. LeavingOK'
    BY DEF TokensInv, LeavingOK
<1>2. jar' \in [refresh : 0..Len(tokens), csrf : BOOLEAN] /\ (jar'.csrf => jar'.refresh # 0)
    BY DEF TokensInv, IssuedOK
<1> QED BY <1>1, <1>2, ServerStands

\* A step of a call, or none.
LEMMA CallsKeep ==
    ASSUME TokensInv, UNCHANGED <<tokens, tv, ended, escaped, jar, refreshes, leaving>>
    PROVE  TokensInv'
<1>1. RequestsOK'
    BY DEF TokensInv, RequestsOK, RequestOK
<1>2. RowsAreLocked'
    BY DEF TokensInv, RowsAreLocked
<1> QED BY <1>1, <1>2, PageStands

\* A page sends a refresh with the cookie.
LEMMA SendingKeeps ==
    ASSUME TokensInv, NEW t \in Tabs, jar.csrf, refreshes' = refreshes \cup {Refresh(t)},
           UNCHANGED <<tokens, tv, ended, escaped, jar, leaving>>
    PROVE  TokensInv'
<1>1. RequestOK(Refresh(t)) /\ Refresh(t).stage = "sent"
    BY RefreshOK DEF TokensInv
<1>2. IsFiniteSet(refreshes')
    BY FS_AddElement DEF TokensInv, RequestsOK
<1>3. RequestsOK'
    BY <1>1, <1>2 DEF TokensInv, RequestsOK, RequestOK
<1>4. RowsAreLocked'
    BY <1>1 DEF TokensInv, RowsAreLocked
<1> QED BY <1>3, <1>4, PageStands

\* A call that waits for the refresh of its page sends one, or shares it.
LEMMA JoinKeeps == ASSUME TokensInv, NEW c \in Slots, Join(c) PROVE TokensInv'
<1>1. TabOf[c] \in Tabs
    BY SessionAssumption
<1>2. CASE refreshing[TabOf[c]]
    BY <1>2, CallsKeep DEF Join, refreshAccessToken
<1>3. CASE ~refreshing[TabOf[c]]
    BY <1>1, <1>3, SendingKeeps DEF Join, refreshAccessToken, SendRefresh
<1> QED BY <1>2, <1>3

\* What a page gives up may be held all the same, once.
LEMMA GivingUpKeeps ==
    ASSUME TokensInv, NEW rs \in SUBSET refreshes
    PROVE  LET left == (refreshes \ rs) \cup Abandon(rs)
           IN  /\ IsFiniteSet(left)
               /\ \A r \in left : RequestOK(r)
               /\ \A r \in left : r.stage = "holds" => tokens[r.token].live
               /\ \A r, s \in left : r.stage = "holds" /\ s.stage = "holds" /\ r.token = s.token => r = s
<1> DEFINE left == (refreshes \ rs) \cup Abandon(rs)
<1>0. RequestsOK /\ RowsAreLocked
    BY DEF TokensInv
<1>1. IsFiniteSet(refreshes \ rs) /\ IsFiniteSet(Abandon(rs))
    BY <1>0, AbandonedOK, FS_Subset DEF RequestsOK
<1>2. IsFiniteSet(left)
    BY <1>1, FS_Union
<1>3. \A r \in left : RequestOK(r)
    BY <1>0, AbandonedOK DEF RequestsOK
<1>4. \A r \in Abandon(rs) : \E q \in rs : r.token = q.token /\ r.stage = q.stage /\ r = [q EXCEPT !.heard = FALSE]
    BY <1>0, AbandonedOK
<1>5. \A r \in left : r.stage = "holds" => tokens[r.token].live
    BY <1>0, <1>4 DEF RowsAreLocked
<1>6. ASSUME NEW r \in left, NEW s \in left, r.stage = "holds", s.stage = "holds", r.token = s.token
      PROVE  r = s
    <2>1. CASE r \in refreshes \ rs /\ s \in refreshes \ rs
        BY <1>0, <1>6, <2>1 DEF RowsAreLocked
    <2>2. CASE r \in refreshes \ rs /\ s \in Abandon(rs)
        BY <1>0, <1>4, <1>6, <2>2 DEF RowsAreLocked
    <2>3. CASE r \in Abandon(rs) /\ s \in refreshes \ rs
        BY <1>0, <1>4, <1>6, <2>3 DEF RowsAreLocked
    <2>4. CASE r \in Abandon(rs) /\ s \in Abandon(rs)
        <3>1. PICK p \in rs : r.token = p.token /\ r.stage = p.stage /\ r = [p EXCEPT !.heard = FALSE]
            BY <1>4, <2>4
        <3>2. PICK q \in rs : s.token = q.token /\ s.stage = q.stage /\ s = [q EXCEPT !.heard = FALSE]
            BY <1>4, <2>4
        <3>3. p = q
            BY <1>0, <1>6, <3>1, <3>2 DEF RowsAreLocked
        <3> QED BY <3>1, <3>2, <3>3
    <2> QED BY <2>1, <2>2, <2>3, <2>4
<1> QED BY <1>2, <1>3, <1>5, <1>6

\* A page that is loaded gives its refresh up and may send one.
LEMMA LoadKeeps == ASSUME TokensInv, NEW t \in Tabs, Load(t) PROVE TokensInv'
<1> DEFINE left == (refreshes \ Of(t)) \cup Abandon(Of(t))
<1>0. UNCHANGED <<tokens, tv, ended, escaped, jar>> /\ leaving' = [leaving EXCEPT ![t] = Stay]
    BY DEF Load
<1>1. Of(t) \subseteq refreshes
    BY DEF Of, Sent
<1>2. /\ IsFiniteSet(left)
      /\ \A r \in left : RequestOK(r)
      /\ \A r \in left : r.stage = "holds" => tokens[r.token].live
      /\ \A r, s \in left : r.stage = "holds" /\ s.stage = "holds" /\ r.token = s.token => r = s
    BY <1>1, GivingUpKeeps
<1>3. \A r : RequestOK(r)' <=> RequestOK(r)
    BY <1>0 DEF RequestOK
<1>4. RequestsOK' /\ RowsAreLocked'
    <2>1. CASE jar.csrf
        <3>1. refreshes' = left \cup {Refresh(t)}
            BY <2>1 DEF Load
        <3>2. RequestOK(Refresh(t)) /\ Refresh(t).stage = "sent"
            BY <2>1, RefreshOK DEF TokensInv
        <3>3. IsFiniteSet(refreshes')
            BY <1>2, <3>1, FS_AddElement
        <3>4. RequestsOK'
            BY <1>2, <1>3, <3>1, <3>2, <3>3 DEF RequestsOK
        <3>5. RowsAreLocked'
            BY <1>0, <1>2, <3>1, <3>2 DEF RowsAreLocked
        <3> QED BY <3>4, <3>5
    <2>2. CASE ~jar.csrf
        <3>1. refreshes' = left
            BY <2>2 DEF Load
        <3> QED BY <1>0, <1>2, <1>3, <3>1 DEF RequestsOK, RowsAreLocked
    <2> QED BY <2>1, <2>2
<1>5. LeavingOK'
    BY <1>0 DEF TokensInv, IssuedOK, LeavingOK, Stay
<1>6. jar' \in [refresh : 0..Len(tokens), csrf : BOOLEAN] /\ (jar'.csrf => jar'.refresh # 0)
    BY <1>0 DEF TokensInv, IssuedOK
<1> QED BY <1>0, <1>4, <1>5, <1>6, ServerStands

\* A request that is lost may be held all the same.
LEMMA LoseKeeps == ASSUME TokensInv, NEW r \in refreshes, Lose(r) PROVE TokensInv'
<1>0. UNCHANGED <<tokens, tv, ended, escaped, jar, leaving>>
    BY DEF Lose, server
<1>1. \A x : RequestOK(x)' <=> RequestOK(x)
    BY <1>0 DEF RequestOK
<1>2. CASE refreshes' = refreshes \ {r}
    <2>1. IsFiniteSet(refreshes')
        BY <1>2, FS_RemoveElement DEF TokensInv, RequestsOK
    <2>2. RequestsOK'
        BY <1>1, <1>2, <2>1 DEF TokensInv, RequestsOK
    <2>3. RowsAreLocked'
        BY <1>0, <1>2 DEF TokensInv, RowsAreLocked
    <2> QED BY <1>0, <2>2, <2>3, PageStands
<1>3. CASE refreshes' = (refreshes \ {r}) \cup Abandon({r})
    <2>1. /\ IsFiniteSet(refreshes')
          /\ \A x \in refreshes' : RequestOK(x)
          /\ \A x \in refreshes' : x.stage = "holds" => tokens[x.token].live
          /\ \A x, s \in refreshes' : x.stage = "holds" /\ s.stage = "holds" /\ x.token = s.token => x = s
        BY <1>3, GivingUpKeeps
    <2>2. RequestsOK' /\ RowsAreLocked'
        BY <1>0, <1>1, <2>1 DEF RequestsOK, RowsAreLocked
    <2> QED BY <1>0, <2>2, PageStands
<1> QED BY <1>2, <1>3 DEF Lose

\* The answer of a refresh, good or bad.
LEMMA AnswerKeeps == ASSUME TokensInv, NEW r \in refreshes, Renewed(r) \/ Refused(r) PROVE TokensInv'
<1>0. UNCHANGED <<tokens, tv, ended, escaped, leaving>> /\ refreshes' = refreshes \ {r}
    BY DEF Renewed, Refused, Unrenewed, Settled, server
<1>1. IsFiniteSet(refreshes')
    BY <1>0, FS_RemoveElement DEF TokensInv, RequestsOK
<1>2. RequestsOK'
    BY <1>0, <1>1 DEF TokensInv, RequestsOK, RequestOK
<1>3. RowsAreLocked'
    BY <1>0 DEF TokensInv, RowsAreLocked
<1>4. LeavingOK'
    BY <1>0 DEF TokensInv, LeavingOK
<1>5. jar' \in [refresh : 0..Len(tokens), csrf : BOOLEAN] /\ (jar'.csrf => jar'.refresh # 0)
    <2>1. CASE Renewed(r)
        <3>1. r.new \in 0..Len(tokens) /\ r.new # 0
            BY <2>1 DEF TokensInv, RequestsOK, RequestOK, Renewed
        <3>2. jar' = [refresh |-> r.new, csrf |-> TRUE]
            BY <2>1 DEF Renewed
        <3> QED BY <3>1, <3>2
    <2>2. CASE Refused(r)
        BY <2>2 DEF TokensInv, IssuedOK, Refused
    <2> QED BY <2>1, <2>2
<1> QED BY <1>0, <1>2, <1>3, <1>4, <1>5, ServerStands

\* Signing out takes the cookies away, and asks the server with the one that is there.
LEMMA LeavingKeeps == ASSUME TokensInv, NEW t \in Tabs, Leave(t) \/ Left(t) PROVE TokensInv'
<1>0. UNCHANGED <<tokens, tv, ended, escaped, refreshes>>
    BY DEF Leave, Left, server
<1>1. RequestsOK'
    BY <1>0 DEF TokensInv, RequestsOK, RequestOK
<1>2. RowsAreLocked'
    BY <1>0 DEF TokensInv, RowsAreLocked
<1>3. jar \in [refresh : 0..Len(tokens), csrf : BOOLEAN] /\ (jar.csrf => jar.refresh # 0) /\ Len(tokens) \in Nat
    BY DEF TokensInv, IssuedOK
<1>4. CASE Leave(t)
    <2>1. jar' = jar
        BY <1>4 DEF Leave
    <2>2. CASE jar.csrf
        <3>1. leaving' = [leaving EXCEPT ![t] = [at |-> "sent", token |-> jar.refresh]]
            BY <1>4, <2>2 DEF Leave
        <3>2. LeavingOK'
            BY <1>0, <1>3, <2>2, <3>1 DEF TokensInv, LeavingOK
        <3> QED BY <1>0, <1>1, <1>2, <1>3, <2>1, <3>2, ServerStands
    <2>3. CASE ~jar.csrf
        <3>1. LeavingOK'
            BY <1>0, <1>4, <2>3 DEF TokensInv, LeavingOK, Leave
        <3> QED BY <1>0, <1>1, <1>2, <1>3, <2>1, <3>1, ServerStands
    <2> QED BY <2>2, <2>3
<1>5. CASE Left(t)
    <2>1. LeavingOK'
        BY <1>0, <1>5 DEF TokensInv, IssuedOK, LeavingOK, Left, Stay
    <2>2. jar' = [refresh |-> 0, csrf |-> FALSE] \/ jar' = [jar EXCEPT !.csrf = FALSE]
        BY <1>5 DEF Left
    <2>3. jar' \in [refresh : 0..Len(tokens), csrf : BOOLEAN] /\ ~jar'.csrf
        <3>1. CASE jar' = [refresh |-> 0, csrf |-> FALSE]
            BY <1>3, <3>1
        <3>2. CASE jar' = [jar EXCEPT !.csrf = FALSE]
            <4>1. jar' = [refresh |-> jar.refresh, csrf |-> FALSE]
                BY <1>3, <3>2
            <4> QED BY <1>3, <4>1
        <3> QED BY <2>2, <3>1, <3>2
    <2> QED BY <1>0, <1>1, <1>2, <2>1, <2>3, ServerStands
<1> QED BY <1>4, <1>5

(***************************************************************************)
(* The steps of the server.                                                *)
(***************************************************************************)

\* A revocation for some families; those that are ended by it are among them.
LEMMA RevokingKeeps ==
    ASSUME TokensInv, NEW fams, Revoke(fams), tv' \in Nat, jar' = jar,
           ended \subseteq ended', ended' \subseteq ended \cup fams, ended' \subseteq 1..Len(tokens),
           RequestsOK', LeavingOK',
           \A r \in refreshes' : r.stage = "holds" => r \in refreshes
    PROVE  TokensInv'
<1>1. /\ tokens' \in Seq(Tokens) /\ Len(tokens') = Len(tokens) /\ DOMAIN tokens' = DOMAIN tokens
      /\ \A i \in 1..Len(tokens) :
            /\ tokens'[i].fam = tokens[i].fam
            /\ tokens'[i].live => tokens[i].live
            /\ i \in Held => tokens'[i] = tokens[i]
            /\ tokens'[i].live /\ tokens[i].fam \in fams => i \in Held /\ tokens[i].fam \in escaped'
      /\ escaped \subseteq escaped'
    BY RevokeEnds DEF TokensInv
<1>2. DOMAIN tokens = 1..Len(tokens)
    BY DEF TokensInv, IssuedOK
<1>3. IssuedOK'
    BY <1>1, <1>2 DEF TokensInv, IssuedOK
<1>4. OneLiveTokenPerSession'
    BY <1>1, <1>2, TokensDie DEF TokensInv
<1>5. EndedSessionsStayEnded'
    BY <1>1, <1>2 DEF TokensInv, EndedSessionsStayEnded
<1>6. RowsAreLocked'
    <2>1. ASSUME NEW r \in refreshes', r.stage = "holds"
          PROVE  tokens'[r.token].live
        <3>1. r \in refreshes /\ r.token \in Held /\ r.token \in 1..Len(tokens) /\ tokens[r.token].live
            BY <2>1 DEF Held, TokensInv, RowsAreLocked, RequestsOK, RequestOK
        <3> QED BY <1>1, <3>1
    <2>2. \A r, s \in refreshes' : r.stage = "holds" /\ s.stage = "holds" /\ r.token = s.token => r = s
        BY DEF TokensInv, RowsAreLocked
    <2> QED BY <2>1, <2>2 DEF RowsAreLocked
<1> QED BY <1>3, <1>4, <1>5, <1>6 DEF TokensInv

\* All sessions are revoked at once.
LEMMA RevokeAllKeeps == ASSUME TokensInv, RevokeAll PROVE TokensInv'
<1> DEFINE fams == {tokens[i].fam : i \in DOMAIN tokens}
<1>1. Revoke(fams) /\ ended' = ended \cup fams /\ UNCHANGED <<jar, refreshes, leaving>> /\ tv' = tv + 1
    BY DEF RevokeAll, pages
<1>2. fams \subseteq 1..Len(tokens) /\ ended \subseteq 1..Len(tokens) /\ tv \in Nat
    BY TokensAreIssued DEF TokensInv, IssuedOK
<1>3. Len(tokens') = Len(tokens)
    BY <1>1, RevokeEnds DEF TokensInv
<1>4. RequestsOK' /\ LeavingOK'
    BY <1>1, <1>3 DEF TokensInv, RequestsOK, RequestOK, LeavingOK
<1>5. ended' \subseteq 1..Len(tokens) /\ tv' \in Nat
    <2> HIDE DEF fams
    <2> QED BY <1>1, <1>2
<1> QED BY <1>1, <1>4, <1>5, RevokingKeeps

\* The server is told of a sign-out.
LEMMA ServeLeavingKeeps == ASSUME TokensInv, NEW t \in Tabs, ServeLeaving(t) PROVE TokensInv'
<1> DEFINE fam == tokens[leaving[t].token].fam
<1>1. /\ Revoke({fam}) /\ ended' = ended \cup {fam} /\ UNCHANGED <<tv, jar, refreshes>>
      /\ leaving[t].at = "sent" /\ leaving' = [leaving EXCEPT ![t].at = "served"]
    BY DEF ServeLeaving
<1>2. leaving[t].token \in 1..Len(tokens)
    BY <1>1 DEF TokensInv, LeavingOK, IssuedOK
<1>3. fam \in 1..Len(tokens)
    BY <1>2, TokensAreIssued DEF TokensInv
<1>4. Len(tokens') = Len(tokens)
    BY <1>1, RevokeEnds DEF TokensInv
<1>5. RequestsOK'
    BY <1>1, <1>4 DEF TokensInv, RequestsOK, RequestOK
<1>6. LeavingOK'
    BY <1>1, <1>4 DEF TokensInv, LeavingOK
<1>7. ended' \subseteq 1..Len(tokens) /\ tv' \in Nat
    BY <1>1, <1>3 DEF TokensInv, IssuedOK
<1> QED BY <1>1, <1>5, <1>6, <1>7, RevokingKeeps

\* A token that comes back dead ends its session; no answer is held.
LEMMA ReusedKeeps == ASSUME TokensInv, NEW r \in refreshes, Reused(r) PROVE TokensInv'
<1> DEFINE new == [r EXCEPT !.stage = "refused"]
<1>1. Revoke({tokens[r.token].fam}) /\ UNCHANGED <<tv, ended, jar, leaving>> /\ refreshes' = Step(r, new)
    BY DEF Reused
<1>2. RequestOK(new) /\ new.stage = "refused"
    BY DEF TokensInv, RequestsOK, RequestOK, Stages
<1>3. IsFiniteSet(refreshes') /\ \A x \in refreshes' : RequestOK(x) /\ (x = new \/ (x \in refreshes /\ x # r))
    BY <1>1, <1>2, StepOK DEF TokensInv
<1>4. Len(tokens') = Len(tokens)
    BY <1>1, RevokeEnds DEF TokensInv
<1>5. RequestsOK'
    BY <1>3, <1>4 DEF RequestsOK, RequestOK
<1>6. LeavingOK'
    BY <1>1, <1>4 DEF TokensInv, LeavingOK
<1>7. ended' \subseteq 1..Len(tokens) /\ tv' \in Nat
    BY <1>1 DEF TokensInv, IssuedOK
<1>8. \A x \in refreshes' : x.stage = "holds" => x \in refreshes
    BY <1>2, <1>3
<1> QED BY <1>1, <1>5, <1>6, <1>7, <1>8, RevokingKeeps

\* A rotation takes the row of a live token, if nobody holds it.
LEMMA ConsumeKeeps == ASSUME TokensInv, NEW r \in refreshes, Consume(r) PROVE TokensInv'
<1> DEFINE new == [r EXCEPT !.stage = "holds", !.tv = tv]
<1>1. /\ r.token \notin Held /\ tokens[r.token].live /\ refreshes' = Step(r, new)
      /\ UNCHANGED <<tokens, tv, ended, escaped, jar, leaving>>
    BY DEF Consume, server
<1>2. RequestOK(new) /\ new.token = r.token
    BY DEF TokensInv, IssuedOK, RequestsOK, RequestOK, Stages
<1>3. IsFiniteSet(refreshes') /\ \A x \in refreshes' : RequestOK(x) /\ (x = new \/ (x \in refreshes /\ x # r))
    BY <1>1, <1>2, StepOK DEF TokensInv
<1>4. RequestsOK'
    BY <1>1, <1>3 DEF RequestsOK, RequestOK
<1>5. \A x \in refreshes' : x.stage = "holds" =>
          \/ x = new
          \/ x \in refreshes /\ x.token # r.token /\ tokens[x.token].live
    BY <1>1, <1>3 DEF TokensInv, RowsAreLocked, Held
<1>6. \A x, y \in refreshes' : x.stage = "holds" /\ y.stage = "holds" /\ x.token = y.token => x = y
    BY <1>2, <1>5 DEF TokensInv, RowsAreLocked
<1>7. RowsAreLocked'
    BY <1>1, <1>2, <1>5, <1>6 DEF RowsAreLocked
<1> QED BY <1>1, <1>4, <1>7, PageStands

\* It kills the only live token of its session, and issues the only one again.
LEMMA RotateKeeps == ASSUME TokensInv, NEW r \in refreshes, Rotate(r) PROVE TokensInv'
<1> DEFINE new  == [r EXCEPT !.stage = "renewed", !.new = Len(tokens) + 1]
           dead == [tokens EXCEPT ![r.token].live = FALSE]
           next == Issue(tokens[r.token].fam, r.tv)
<1>1. /\ r.stage = "holds" /\ tokens' = Append(dead, next) /\ refreshes' = Step(r, new)
      /\ UNCHANGED <<tv, ended, escaped, jar, leaving>>
    BY DEF Rotate
<1>2. /\ tokens \in Seq(Tokens) /\ Len(tokens) \in Nat /\ DOMAIN tokens = 1..Len(tokens)
      /\ r.token \in 1..Len(tokens) /\ r.tv \in Nat /\ tokens[r.token].live
      /\ \A i \in 1..Len(tokens) : tokens[i] \in Tokens /\ tokens[i].fam \in 1..Len(tokens)
    <2>1. r.token \in 1..Len(tokens) /\ r.tv \in Nat
        BY DEF TokensInv, RequestsOK, RequestOK
    <2>2. tokens[r.token].live /\ tokens \in Seq(Tokens)
        BY <1>1 DEF TokensInv, RowsAreLocked, IssuedOK
    <2> QED BY <2>1, <2>2, TokensAreIssued DEF TokensInv
<1>3. /\ dead \in Seq(Tokens) /\ Len(dead) = Len(tokens)
      /\ \A i \in 1..Len(tokens) :
            /\ dead[i].fam = tokens[i].fam
            /\ i # r.token => dead[i] = tokens[i]
            /\ i = r.token => ~dead[i].live
    <2>1. dead = [i \in 1..Len(tokens) |->
                    IF i = r.token THEN [tokens[i] EXCEPT !.live = FALSE] ELSE tokens[i]]
        BY <1>2
    <2>2. \A i \in 1..Len(tokens) :
              /\ dead[i] \in Tokens /\ dead[i].fam = tokens[i].fam
              /\ i # r.token => dead[i] = tokens[i]
              /\ i = r.token => ~dead[i].live
        BY <1>2, <2>1 DEF Tokens
    <2> HIDE DEF dead
    <2>3. dead \in Seq(Tokens) /\ Len(dead) = Len(tokens)
        BY <1>2, <2>1, <2>2
    <2> QED BY <2>2, <2>3
<1>4. next \in Tokens /\ next.fam = tokens[r.token].fam
    BY <1>2, IssueIsAToken DEF Issue, Tokens
<1>5. /\ tokens' \in Seq(Tokens) /\ Len(tokens') = Len(tokens) + 1 /\ DOMAIN tokens' = 1..(Len(tokens) + 1)
      /\ tokens'[Len(tokens) + 1] = next
      /\ \A i \in 1..Len(tokens) : tokens'[i] = dead[i]
    BY <1>1, <1>3, <1>4, <1>2
<1>6. \A i \in 1..Len(tokens) :
          /\ tokens'[i].fam = tokens[i].fam
          /\ i # r.token => tokens'[i] = tokens[i]
          /\ i = r.token => ~tokens'[i].live
    BY <1>3, <1>5
<1>7. new.stage = "renewed" /\ \A x : x = new => RequestOK(x)'
    <2>1. r \in [tab : Tabs, nth : Nat, heard : BOOLEAN, token : 1..Len(tokens), new : 0..Len(tokens), tv : Nat,
                 stage : Stages]
        BY DEF TokensInv, RequestsOK, RequestOK
    <2>2. Len(tokens) + 1 \in Nat
        BY <1>2
    <2>3. ASSUME NEW n \in Nat, n = Len(tokens) + 1
          PROVE  LET x == [r EXCEPT !.stage = "renewed", !.new = n]
                 IN  /\ x \in [tab : Tabs, nth : Nat, heard : BOOLEAN, token : 1..n, new : 0..n, tv : Nat,
                               stage : Stages]
                     /\ x.stage = "renewed" /\ x.new # 0
        <3>1. r.token \in 1..n /\ n \in 0..n /\ n # 0
            BY <1>2, <2>3
        <3>2. r \in [tab : Tabs, nth : Nat, heard : BOOLEAN, token : 1..n, new : 0..Len(tokens), tv : Nat,
                     stage : Stages]
            BY <2>1, <3>1
        <3>3. "renewed" \in Stages
            BY DEF Stages
        <3> QED BY <3>1, <3>2, <3>3
    <2>4. new \in [tab : Tabs, nth : Nat, heard : BOOLEAN, token : 1..(Len(tokens) + 1),
                   new : 0..(Len(tokens) + 1), tv : Nat, stage : Stages]
        BY <2>2, <2>3
    <2>5. new.stage = "renewed" /\ new.new # 0
        BY <2>2, <2>3
    <2>6. Len(tokens') = Len(tokens) + 1
        BY <1>5
    <2> HIDE DEF new
    <2> QED BY <2>4, <2>5, <2>6 DEF RequestOK
<1>8. refreshes' \subseteq (refreshes \ {r}) \cup {new}
    BY <1>1 DEF Step
<1>9. IsFiniteSet(refreshes')
    <2>1. IsFiniteSet((refreshes \ {r}) \cup {new})
        BY FS_RemoveElement, FS_AddElement DEF TokensInv, RequestsOK
    <2> QED BY <1>8, <2>1, FS_Subset
<1>10. RequestsOK'
    <2>1. \A x \in refreshes : RequestOK(x)'
        BY <1>2, <1>5 DEF TokensInv, RequestsOK, RequestOK
    <2> HIDE DEF new
    <2> QED BY <1>7, <1>8, <1>9, <2>1 DEF RequestsOK
<1>11. LeavingOK'
    BY <1>1, <1>2, <1>5 DEF TokensInv, LeavingOK
<1>12. IssuedOK'
    <2>1. \A i \in DOMAIN tokens' : tokens'[i].fam <= Len(tokens')
        BY <1>2, <1>4, <1>5, <1>6
    <2>2. ended' \subseteq 1..Len(tokens') /\ tv' \in Nat
        BY <1>1, <1>2, <1>5 DEF TokensInv, IssuedOK
    <2>3. jar' \in [refresh : 0..Len(tokens'), csrf : BOOLEAN] /\ (jar'.csrf => jar'.refresh # 0)
        BY <1>1, <1>2, <1>5 DEF TokensInv, IssuedOK
    <2> QED BY <1>5, <2>1, <2>2, <2>3 DEF IssuedOK
<1>13. RowsAreLocked'
    <2>1. ASSUME NEW x \in refreshes', x.stage = "holds"
          PROVE  x \in refreshes /\ x # r /\ x.token # r.token /\ tokens'[x.token].live
        <3>1. x \in refreshes /\ x # r
            BY <1>7, <1>8, <2>1
        <3>2. x.token # r.token /\ tokens[x.token].live /\ x.token \in 1..Len(tokens)
            BY <1>1, <2>1, <3>1 DEF TokensInv, RowsAreLocked, RequestsOK, RequestOK
        <3> QED BY <1>6, <3>1, <3>2
    <2> QED BY <2>1 DEF TokensInv, RowsAreLocked
<1>14. OneLiveTokenPerSession'
    <2> SUFFICES ASSUME NEW i \in 1..(Len(tokens) + 1), NEW j \in 1..(Len(tokens) + 1),
                        tokens'[i].fam = tokens'[j].fam, tokens'[i].live, tokens'[j].live
                 PROVE  i = j
        BY <1>5 DEF OneLiveTokenPerSession
    <2>1. \A k \in 1..Len(tokens) : tokens'[k].live => tokens'[k].fam # next.fam
        BY <1>2, <1>4, <1>6 DEF TokensInv, OneLiveTokenPerSession
    <2>2. CASE i \in 1..Len(tokens) /\ j \in 1..Len(tokens)
        BY <1>2, <1>6, <2>2 DEF TokensInv, OneLiveTokenPerSession
    <2>3. CASE i = Len(tokens) + 1 /\ j \in 1..Len(tokens)
        BY <1>5, <2>1, <2>3
    <2>4. CASE i \in 1..Len(tokens) /\ j = Len(tokens) + 1
        BY <1>5, <2>1, <2>4
    <2> QED BY <1>2, <2>2, <2>3, <2>4
<1>15. EndedSessionsStayEnded'
    <2>1. next.fam \in ended => next.fam \in escaped
        BY <1>2, <1>4 DEF TokensInv, EndedSessionsStayEnded
    <2>2. \A i \in 1..Len(tokens) : tokens'[i].fam \in ended /\ tokens'[i].live => tokens'[i].fam \in escaped
        BY <1>2, <1>6 DEF TokensInv, EndedSessionsStayEnded
    <2> QED BY <1>1, <1>2, <1>5, <2>1, <2>2 DEF EndedSessionsStayEnded
<1> QED BY <1>10, <1>11, <1>12, <1>13, <1>14, <1>15 DEF TokensInv

\* Signing in starts a session of its own.
LEMMA SignInKeeps == ASSUME TokensInv, NEW t \in Tabs, SignIn(t) PROVE TokensInv'
<1> DEFINE next == Issue(Len(tokens) + 1, tv)
<1>1. /\ tokens' = Append(tokens, next) /\ UNCHANGED <<tv, ended, escaped, refreshes, leaving>>
      /\ jar' = [refresh |-> Len(tokens) + 1, csrf |-> TRUE]
    BY DEF SignIn
<1>2. /\ tokens \in Seq(Tokens) /\ Len(tokens) \in Nat /\ DOMAIN tokens = 1..Len(tokens) /\ tv \in Nat
      /\ \A i \in 1..Len(tokens) : tokens[i] \in Tokens /\ tokens[i].fam \in 1..Len(tokens)
      /\ ended \subseteq 1..Len(tokens)
    BY TokensAreIssued DEF TokensInv, IssuedOK
<1>3. next \in Tokens /\ next.fam = Len(tokens) + 1
    BY <1>2, IssueIsAToken DEF Issue
<1>4. /\ tokens' \in Seq(Tokens) /\ Len(tokens') = Len(tokens) + 1 /\ DOMAIN tokens' = 1..(Len(tokens) + 1)
      /\ tokens'[Len(tokens) + 1] = next
      /\ \A i \in 1..Len(tokens) : tokens'[i] = tokens[i]
    BY <1>1, <1>2, <1>3
<1>5. IssuedOK'
    <2>1. \A i \in DOMAIN tokens' : tokens'[i].fam <= Len(tokens')
        BY <1>2, <1>3, <1>4
    <2>2. ended' \subseteq 1..Len(tokens') /\ tv' \in Nat
        BY <1>1, <1>2, <1>4
    <2>3. jar' \in [refresh : 0..Len(tokens'), csrf : BOOLEAN] /\ (jar'.csrf => jar'.refresh # 0)
        BY <1>1, <1>2, <1>4
    <2> QED BY <1>4, <2>1, <2>2, <2>3 DEF IssuedOK
<1>6. RequestsOK'
    <2>1. \A x \in refreshes : RequestOK(x)'
        BY <1>2, <1>4 DEF TokensInv, RequestsOK, RequestOK
    <2> QED BY <1>1, <2>1 DEF TokensInv, RequestsOK
<1>7. LeavingOK'
    BY <1>1, <1>2, <1>4 DEF TokensInv, LeavingOK
<1>8. RowsAreLocked'
    <2>1. \A x \in refreshes : x.token \in 1..Len(tokens)
        BY DEF TokensInv, RequestsOK, RequestOK
    <2> QED BY <1>1, <1>4, <2>1 DEF TokensInv, RowsAreLocked
<1>9. OneLiveTokenPerSession'
    <2> SUFFICES ASSUME NEW i \in 1..(Len(tokens) + 1), NEW j \in 1..(Len(tokens) + 1),
                        tokens'[i].fam = tokens'[j].fam, tokens'[i].live, tokens'[j].live
                 PROVE  i = j
        BY <1>4 DEF OneLiveTokenPerSession
    <2>1. CASE i \in 1..Len(tokens) /\ j \in 1..Len(tokens)
        BY <1>2, <1>4, <2>1 DEF TokensInv, OneLiveTokenPerSession
    <2>2. CASE i = Len(tokens) + 1 /\ j \in 1..Len(tokens)
        <3>1. tokens'[i].fam = Len(tokens) + 1 /\ tokens'[j].fam \in 1..Len(tokens)
            BY <1>2, <1>3, <1>4, <2>2
        <3> QED BY <1>2, <3>1
    <2>3. CASE i \in 1..Len(tokens) /\ j = Len(tokens) + 1
        <3>1. tokens'[j].fam = Len(tokens) + 1 /\ tokens'[i].fam \in 1..Len(tokens)
            BY <1>2, <1>3, <1>4, <2>3
        <3> QED BY <1>2, <3>1
    <2> QED BY <1>2, <2>1, <2>2, <2>3
<1>10. EndedSessionsStayEnded'
    <2>1. \A i \in 1..Len(tokens) : tokens'[i].fam \in ended /\ tokens'[i].live => tokens'[i].fam \in escaped
        BY <1>2, <1>4 DEF TokensInv, EndedSessionsStayEnded
    <2>2. next.fam \notin ended
        BY <1>2, <1>3
    <2> QED BY <1>1, <1>2, <1>4, <2>1, <2>2 DEF EndedSessionsStayEnded
<1> QED BY <1>5, <1>6, <1>7, <1>8, <1>9, <1>10 DEF TokensInv

\* An access token that lapses takes nothing with it.
LEMMA LapseKeeps == ASSUME TokensInv, NEW i \in DOMAIN tokens, Lapse(i) PROVE TokensInv'
<1>1. tokens' = [tokens EXCEPT ![i].lapsed = TRUE] /\ UNCHANGED <<tv, ended, escaped, jar, refreshes, leaving>>
    BY DEF Lapse
<1>2. /\ tokens \in Seq(Tokens) /\ Len(tokens) \in Nat /\ DOMAIN tokens = 1..Len(tokens)
      /\ \A k \in 1..Len(tokens) : tokens[k] \in Tokens
    BY TokensAreIssued DEF TokensInv, IssuedOK
<1>3. tokens' = [k \in 1..Len(tokens) |-> IF k = i THEN [tokens[k] EXCEPT !.lapsed = TRUE] ELSE tokens[k]]
    BY <1>1, <1>2
<1>4. \A k \in 1..Len(tokens) :
          tokens'[k] \in Tokens /\ tokens'[k].fam = tokens[k].fam /\ tokens'[k].live = tokens[k].live
    BY <1>2, <1>3 DEF Tokens
<1>5. tokens' \in Seq(Tokens) /\ Len(tokens') = Len(tokens) /\ DOMAIN tokens' = 1..Len(tokens)
    BY <1>2, <1>3, <1>4
<1>6. IssuedOK'
    BY <1>1, <1>2, <1>4, <1>5 DEF TokensInv, IssuedOK
<1>7. RequestsOK' /\ LeavingOK'
    BY <1>1, <1>5 DEF TokensInv, RequestsOK, RequestOK, LeavingOK
<1>8. RowsAreLocked'
    <2>1. \A x \in refreshes : x.token \in 1..Len(tokens)
        BY DEF TokensInv, RequestsOK, RequestOK
    <2> QED BY <1>1, <1>4, <2>1 DEF TokensInv, RowsAreLocked
<1>9. OneLiveTokenPerSession' /\ EndedSessionsStayEnded'
    BY <1>1, <1>2, <1>4, <1>5 DEF TokensInv, OneLiveTokenPerSession, EndedSessionsStayEnded
<1> QED BY <1>6, <1>7, <1>8, <1>9 DEF TokensInv

(***************************************************************************)
(* Every step.                                                             *)
(***************************************************************************)
\* The session the browser is opened with.
LEMMA FirstSession == Init => TokensInv
<1> SUFFICES ASSUME Init PROVE TokensInv
    OBVIOUS
<1>1. tokens = <<Issue(1, 0)>> /\ Issue(1, 0) \in Tokens /\ Issue(1, 0).fam = 1
    BY IssueIsAToken DEF Init, Issue
<1>2. Len(tokens) = 1 /\ DOMAIN tokens = {1} /\ tokens \in Seq(Tokens) /\ tokens[1].fam = 1
    BY <1>1
<1>3. IssuedOK
    BY <1>2 DEF Init, IssuedOK
<1>4. RequestsOK /\ RowsAreLocked
    BY FS_EmptySet DEF Init, RequestsOK, RowsAreLocked
<1>5. LeavingOK
    BY <1>2 DEF Init, LeavingOK, Stay
<1>6. OneLiveTokenPerSession /\ EndedSessionsStayEnded
    BY <1>2 DEF Init, OneLiveTokenPerSession, EndedSessionsStayEnded
<1> QED BY <1>3, <1>4, <1>5, <1>6 DEF TokensInv

\* Each action in turn.
LEMMA TokensStep == ASSUME TokensInv, [Next]_vars PROVE TokensInv'
<1>1. ASSUME NEW t \in Tabs, Load(t) PROVE TokensInv'
    BY <1>1, LoadKeeps
<1>2. ASSUME NEW t \in Tabs, SignIn(t) PROVE TokensInv'
    BY <1>2, SignInKeeps
<1>3. ASSUME NEW t \in Tabs, Leave(t) \/ Left(t) PROVE TokensInv'
    BY <1>3, LeavingKeeps
<1>4. ASSUME NEW t \in Tabs, ServeLeaving(t) PROVE TokensInv'
    BY <1>4, ServeLeavingKeeps
<1>5. ASSUME NEW c \in Slots, Call(c) \/ Serve(c) \/ Deny(c) \/ onUnauthorized(c) PROVE TokensInv'
    BY <1>5, CallsKeep DEF Call, Serve, Deny, onUnauthorized, server
<1>6. ASSUME NEW c \in Slots, Join(c) PROVE TokensInv'
    BY <1>6, JoinKeeps
<1>7. ASSUME NEW r \in refreshes, Consume(r) PROVE TokensInv'
    BY <1>7, ConsumeKeeps
<1>8. ASSUME NEW r \in refreshes, Reused(r) PROVE TokensInv'
    BY <1>8, ReusedKeeps
<1>9. ASSUME NEW r \in refreshes, Rotate(r) PROVE TokensInv'
    BY <1>9, RotateKeeps
<1>10. ASSUME NEW r \in refreshes, Renewed(r) \/ Refused(r) PROVE TokensInv'
    BY <1>10, AnswerKeeps
<1>11. ASSUME NEW r \in refreshes, Lose(r) PROVE TokensInv'
    BY <1>11, LoseKeeps
<1>12. ASSUME NEW i \in DOMAIN tokens, Lapse(i) PROVE TokensInv'
    BY <1>12, LapseKeeps
<1>13. CASE RevokeAll
    BY <1>13, RevokeAllKeeps
<1>14. CASE UNCHANGED vars
    BY <1>14, CallsKeep DEF vars, server
<1> QED BY <1>1, <1>2, <1>3, <1>4, <1>5, <1>6, <1>7, <1>8, <1>9, <1>10, <1>11, <1>12, <1>13, <1>14 DEF Next

\* The locks and the families hold in every state: what the two theorems below are read off.
THEOREM TokensAreSound == Spec => []TokensInv
<1>1. Init => TokensInv
    BY FirstSession
<1>2. TokensInv /\ [Next]_vars => TokensInv'
    BY TokensStep
<1> QED BY <1>1, <1>2, PTL DEF Spec

\* A session is held by one refresh token at a time, whatever races to rotate it.
THEOREM OneTokenPerSession == Spec => []OneLiveTokenPerSession
<1>1. TokensInv => OneLiveTokenPerSession
    BY DEF TokensInv
<1> QED BY <1>1, TokensAreSound, PTL

\* What was signed out or revoked stays so, but for a rotation that was under way.
THEOREM RevocationHolds == Spec => []EndedSessionsStayEnded
<1>1. TokensInv => EndedSessionsStayEnded
    BY DEF TokensInv
<1> QED BY <1>1, TokensAreSound, PTL

(***************************************************************************)
(* Who has signed out stays signed out: a page that waits for a refresh    *)
(* has one that it hears, and without cookies nobody sends another.        *)
(***************************************************************************)
FlagsOK == {refreshing, restoring} \subseteq [Tabs -> BOOLEAN]

\* A page does not wait for nothing.
PagesAreHeard == \A t \in Tabs : refreshing[t] \/ restoring[t] => \E r \in refreshes : r.tab = t /\ r.heard

SignedOutInv == FlagsOK /\ PagesAreHeard /\ SignedOutStaysSignedOut

\* The server's step with a request says nothing to the page.
LEMMA ServerIsSilent ==
    ASSUME TokensInv, SignedOutInv, NEW r \in refreshes, NEW new, new.tab = r.tab, new.heard = r.heard,
           refreshes' = Step(r, new), UNCHANGED <<refreshing, restoring, jar, out>>
    PROVE  SignedOutInv'
<1>1. FlagsOK'
    BY DEF SignedOutInv, FlagsOK
<1>2. ASSUME NEW t \in Tabs, refreshing[t] \/ restoring[t]
      PROVE  \E x \in refreshes' : x.tab = t /\ x.heard
    <2>1. PICK q \in refreshes : q.tab = t /\ q.heard
        BY <1>2 DEF SignedOutInv, PagesAreHeard
    <2>2. CASE q = r
        BY <2>1, <2>2 DEF Step
    <2>3. CASE q # r
        BY <2>1, <2>3 DEF Step
    <2> QED BY <2>2, <2>3
<1>3. PagesAreHeard'
    BY <1>2 DEF PagesAreHeard
<1>4. Awaited = {} => Awaited' = {}
    BY DEF Awaited, Step
<1>5. SignedOutStaysSignedOut'
    BY <1>4 DEF SignedOutInv, SignedOutStaysSignedOut
<1> QED BY <1>1, <1>3, <1>5 DEF SignedOutInv

\* A page that is told, or gives up, waits no more; nobody had signed out.
LEMMA TheLastIsHeard ==
    ASSUME TokensInv, SignedOutInv, NEW r \in refreshes, r.heard, refreshes \ {r} \subseteq refreshes',
           refreshing' = [refreshing EXCEPT ![r.tab] = FALSE],
           restoring' = [restoring EXCEPT ![r.tab] = FALSE], out' = out
    PROVE  SignedOutInv'
<1>1. FlagsOK' /\ r.tab \in Tabs
    BY DEF SignedOutInv, FlagsOK, TokensInv, RequestsOK, RequestOK
<1>2. ASSUME NEW t \in Tabs, refreshing'[t] \/ restoring'[t]
      PROVE  \E x \in refreshes' : x.tab = t /\ x.heard
    <2>1. t # r.tab /\ (refreshing[t] \/ restoring[t])
        BY <1>1, <1>2 DEF SignedOutInv, FlagsOK
    <2>2. PICK q \in refreshes : q.tab = t /\ q.heard
        BY <2>1 DEF SignedOutInv, PagesAreHeard
    <2> QED BY <2>1, <2>2
<1>3. PagesAreHeard'
    BY <1>2 DEF PagesAreHeard
<1>4. ~out
    BY DEF SignedOutInv, SignedOutStaysSignedOut, Awaited
<1>5. SignedOutStaysSignedOut'
    BY <1>4 DEF SignedOutStaysSignedOut
<1> QED BY <1>1, <1>3, <1>5 DEF SignedOutInv

\* A page that is loaded waits for the refresh it sends, and sends none without a cookie.
LEMMA LoadRestores == ASSUME TokensInv, SignedOutInv, NEW t \in Tabs, Load(t) PROVE SignedOutInv'
<1> DEFINE left == (refreshes \ Of(t)) \cup Abandon(Of(t))
<1>1. /\ restoring' = [restoring EXCEPT ![t] = jar.csrf] /\ UNCHANGED <<jar, out>>
      /\ refreshing' = [refreshing EXCEPT ![t] = jar.csrf]
      /\ refreshes' = left \cup (IF jar.csrf THEN {Refresh(t)} ELSE {})
    <2>0. jar.csrf \in BOOLEAN
        BY DEF TokensInv, IssuedOK
    <2>1. restoring' = [restoring EXCEPT ![t] = jar.csrf] /\ UNCHANGED <<jar, out>>
        BY DEF Load
    <2>2. CASE jar.csrf
        <3>1. jar.csrf = TRUE
            BY <2>0, <2>2
        <3>2. refreshes' = left \cup {Refresh(t)} /\ refreshing' = [refreshing EXCEPT ![t] = TRUE]
            BY <2>2 DEF Load
        <3> HIDE DEF left
        <3> QED BY <2>1, <3>1, <3>2
    <2>3. CASE ~jar.csrf
        <3>1. jar.csrf = FALSE
            BY <2>0, <2>3
        <3>2. refreshes' = left /\ refreshing' = [refreshing EXCEPT ![t] = FALSE]
            BY <2>3 DEF Load
        <3> HIDE DEF left
        <3> QED BY <2>1, <3>1, <3>2
    <2> QED BY <2>2, <2>3
<1>2. jar.csrf \in BOOLEAN
    BY DEF TokensInv, IssuedOK
<1>3. FlagsOK'
    BY <1>1, <1>2 DEF SignedOutInv, FlagsOK
<1>4. ASSUME NEW u \in Tabs, refreshing'[u] \/ restoring'[u]
      PROVE  \E x \in refreshes' : x.tab = u /\ x.heard
    <2>1. CASE u = t
        <3>1. jar.csrf
            BY <1>1, <1>4, <2>1 DEF SignedOutInv, FlagsOK
        <3>2. Refresh(t).tab = t /\ Refresh(t).heard /\ Refresh(t) \in refreshes'
            BY <1>1, <3>1 DEF Refresh
        <3> QED BY <2>1, <3>2
    <2>2. CASE u # t
        <3>1. refreshing[u] \/ restoring[u]
            BY <1>1, <1>4, <2>2 DEF SignedOutInv, FlagsOK
        <3>2. PICK q \in refreshes : q.tab = u /\ q.heard
            BY <3>1 DEF SignedOutInv, PagesAreHeard
        <3>3. q \in refreshes'
            BY <1>1, <2>2, <3>2 DEF Of, Sent
        <3> QED BY <3>2, <3>3
    <2> QED BY <2>1, <2>2
<1>5. PagesAreHeard'
    BY <1>4 DEF PagesAreHeard
<1>6. ASSUME out
      PROVE  ~jar'.csrf /\ Awaited' = {} /\ \A u \in Tabs : ~restoring'[u]
    <2>1. ~jar.csrf /\ Awaited = {} /\ \A u \in Tabs : ~restoring[u]
        BY <1>1, <1>6 DEF SignedOutInv, SignedOutStaysSignedOut
    <2>2. Of(t) = {}
        BY <2>1 DEF Of, Sent, Awaited
    <2>3. refreshes' = refreshes
        BY <1>1, <2>1, <2>2 DEF Abandon
    <2>4. \A u \in Tabs : ~restoring'[u]
        BY <1>1, <2>1 DEF SignedOutInv, FlagsOK
    <2> QED BY <1>1, <2>1, <2>3, <2>4 DEF Awaited
<1>7. SignedOutStaysSignedOut'
    BY <1>1, <1>6 DEF SignedOutStaysSignedOut
<1> QED BY <1>3, <1>5, <1>7 DEF SignedOutInv

\* A call waits only where a refresh is under way or the cookies are there.
LEMMA JoinSignsNobodyIn == ASSUME TokensInv, SignedOutInv, NEW c \in Slots, Join(c) PROVE SignedOutInv'
<1> DEFINE t == TabOf[c]
<1>1. t \in Tabs /\ restoring' = restoring /\ jar' = jar /\ out' = out /\ (refreshing[t] \/ jar.csrf)
    BY SessionAssumption DEF Join
<1>2. CASE refreshing[t]
    <2>1. UNCHANGED <<refreshing, refreshes>>
        BY <1>2 DEF Join, refreshAccessToken
    <2> QED BY <1>1, <2>1 DEF SignedOutInv, FlagsOK, PagesAreHeard, SignedOutStaysSignedOut, Awaited
<1>3. CASE ~refreshing[t]
    <2>1. refreshes' = refreshes \cup {Refresh(t)} /\ refreshing' = [refreshing EXCEPT ![t] = TRUE] /\ jar.csrf
        BY <1>1, <1>3 DEF Join, refreshAccessToken, SendRefresh
    <2>2. Refresh(t).tab = t /\ Refresh(t).heard
        BY DEF Refresh
    <2>3. FlagsOK'
        BY <1>1, <2>1 DEF SignedOutInv, FlagsOK
    <2>4. PagesAreHeard'
        BY <1>1, <2>1, <2>2 DEF SignedOutInv, FlagsOK, PagesAreHeard
    <2>5. ~out
        BY <2>1 DEF SignedOutInv, SignedOutStaysSignedOut
    <2> QED BY <1>1, <2>3, <2>4, <2>5 DEF SignedOutInv, SignedOutStaysSignedOut
<1> QED BY <1>2, <1>3

\* Signing out ends with no cookie, and counts only when nobody waits for one.
LEMMA LeavingSignsOut ==
    ASSUME TokensInv, SignedOutInv, NEW t \in Tabs, Leave(t) \/ Left(t)
    PROVE  SignedOutInv'
<1>1. UNCHANGED <<refreshing, restoring, refreshes>>
    BY DEF Leave, Left
<1>2. FlagsOK' /\ PagesAreHeard'
    BY <1>1 DEF SignedOutInv, FlagsOK, PagesAreHeard
<1>3. Awaited = {} => \A u \in Tabs : ~restoring[u]
    BY DEF SignedOutInv, PagesAreHeard, Awaited
<1>4. Awaited' = Awaited
    BY <1>1 DEF Awaited
<1>5. jar \in [refresh : 0..Len(tokens), csrf : BOOLEAN]
    BY DEF TokensInv, IssuedOK
<1>6. CASE Leave(t)
    <2>1. jar' = jar /\ ((out' = out) \/ (~jar.csrf /\ (out' => Awaited = {})))
        <3>1. CASE jar.csrf
            BY <1>6, <3>1 DEF Leave
        <3>2. CASE ~jar.csrf
            BY <1>6, <3>2 DEF Leave
        <3> QED BY <3>1, <3>2
    <2> QED BY <1>1, <1>2, <1>3, <1>4, <2>1 DEF SignedOutInv, SignedOutStaysSignedOut
<1>7. CASE Left(t)
    <2>1. out' = (Awaited = {}) /\ (jar' = [refresh |-> 0, csrf |-> FALSE] \/ jar' = [jar EXCEPT !.csrf = FALSE])
        BY <1>7 DEF Left
    <2>2. ~jar'.csrf
        BY <1>5, <2>1
    <2> QED BY <1>1, <1>2, <1>3, <1>4, <2>1, <2>2 DEF SignedOutInv, SignedOutStaysSignedOut
<1> QED BY <1>6, <1>7

\* Each action in turn.
LEMMA SignedOutStep == ASSUME TokensInv, SignedOutInv, [Next]_vars PROVE SignedOutInv'
<1>1. ASSUME NEW t \in Tabs, Load(t) PROVE SignedOutInv'
    BY <1>1, LoadRestores
<1>2. ASSUME NEW t \in Tabs, SignIn(t) PROVE SignedOutInv'
    BY <1>2 DEF SignIn, SignedOutInv, FlagsOK, PagesAreHeard, SignedOutStaysSignedOut
<1>3. ASSUME NEW t \in Tabs, Leave(t) \/ Left(t) PROVE SignedOutInv'
    BY <1>3, LeavingSignsOut
<1>4. ASSUME UNCHANGED <<refreshing, restoring, refreshes, jar, out>> PROVE SignedOutInv'
    BY <1>4 DEF SignedOutInv, FlagsOK, PagesAreHeard, SignedOutStaysSignedOut, Awaited
<1>5. ASSUME NEW t \in Tabs, ServeLeaving(t) PROVE SignedOutInv'
    BY <1>4, <1>5 DEF ServeLeaving, pages
<1>6. ASSUME NEW c \in Slots, Call(c) \/ Serve(c) \/ Deny(c) \/ onUnauthorized(c) PROVE SignedOutInv'
    BY <1>4, <1>6 DEF Call, Serve, Deny, onUnauthorized
<1>7. ASSUME NEW c \in Slots, Join(c) PROVE SignedOutInv'
    BY <1>7, JoinSignsNobodyIn
<1>8. ASSUME NEW r \in refreshes, Consume(r) PROVE SignedOutInv'
    <2>1. /\ [r EXCEPT !.stage = "holds", !.tv = tv].tab = r.tab
          /\ [r EXCEPT !.stage = "holds", !.tv = tv].heard = r.heard
        BY DEF TokensInv, RequestsOK, RequestOK
    <2> QED BY <1>8, <2>1, ServerIsSilent DEF Consume, pages
<1>9. ASSUME NEW r \in refreshes, Reused(r) PROVE SignedOutInv'
    <2>1. [r EXCEPT !.stage = "refused"].tab = r.tab /\ [r EXCEPT !.stage = "refused"].heard = r.heard
        BY DEF TokensInv, RequestsOK, RequestOK
    <2> QED BY <1>9, <2>1, ServerIsSilent DEF Reused, pages
<1>10. ASSUME NEW r \in refreshes, Rotate(r) PROVE SignedOutInv'
    <2>1. \A n : LET x == [r EXCEPT !.stage = "renewed", !.new = n] IN x.tab = r.tab /\ x.heard = r.heard
        BY DEF TokensInv, RequestsOK, RequestOK
    <2>2. PICK n : n = Len(tokens) + 1
        BY Zenon
    <2>3. refreshes' = Step(r, [r EXCEPT !.stage = "renewed", !.new = n])
        BY <1>10, <2>2 DEF Rotate
    <2>4. UNCHANGED <<refreshing, restoring, jar, out>>
        BY <1>10 DEF Rotate, pages
    <2> QED BY <2>1, <2>3, <2>4, ServerIsSilent
<1>11. ASSUME NEW r \in refreshes, Renewed(r) \/ Refused(r) PROVE SignedOutInv'
    BY <1>11, TheLastIsHeard DEF Renewed, Refused, Unrenewed, Settled
<1>12. ASSUME NEW r \in refreshes, Lose(r) PROVE SignedOutInv'
    BY <1>12, TheLastIsHeard DEF Lose
<1>13. ASSUME NEW i \in DOMAIN tokens, Lapse(i) PROVE SignedOutInv'
    BY <1>4, <1>13 DEF Lapse, pages
<1>14. CASE RevokeAll
    BY <1>4, <1>14 DEF RevokeAll, pages
<1>15. CASE UNCHANGED vars
    BY <1>4, <1>15 DEF vars, pages
<1> QED BY <1>1, <1>2, <1>3, <1>5, <1>6, <1>7, <1>8, <1>9, <1>10, <1>11, <1>12, <1>13, <1>14, <1>15 DEF Next

\* A page that waits for a refresh has one under way, and who has signed out has none.
THEOREM PagesAreRight == Spec => []SignedOutInv
<1>1. Init => SignedOutInv
    BY DEF Init, SignedOutInv, FlagsOK, PagesAreHeard, SignedOutStaysSignedOut
<1>2. TokensInv /\ SignedOutInv /\ [Next]_vars => SignedOutInv'
    BY SignedOutStep
<1> QED BY <1>1, <1>2, TokensAreSound, PTL DEF Spec

\* Somebody who has signed out stays signed out on this device until the next sign-in.
THEOREM SignOutHolds == Spec => []SignedOutStaysSignedOut
<1>1. SignedOutInv => SignedOutStaysSignedOut
    BY DEF SignedOutInv
<1> QED BY <1>1, PagesAreRight, PTL

(***************************************************************************)
(* The alarms and the cookies.  A token dies because its session is over   *)
(* or because a page rotated it; and a page that has heard the answer      *)
(* never presents that token again, because the cookie has moved on to a   *)
(* token that nobody has presented yet.                                    *)
(***************************************************************************)
Over(k) == tokens[k].fam \in ended \/ \E x \in alarms : tokens[x].fam = tokens[k].fam

PresentedOK ==
    /\ presented \subseteq Tabs \X (1..Len(tokens)) /\ IsFiniteSet(presented)
    /\ alarms \subseteq 1..Len(tokens)

\* A page hears one refresh at a time.
HeardOnce ==
    /\ \A r \in refreshes : r.heard => refreshing[r.tab]
    /\ \A r, s \in refreshes : r.heard /\ s.heard /\ r.tab = s.tab => r = s

RequestsAreKnown ==
    \A r \in refreshes :
        /\ <<r.tab, r.token>> \in presented
        /\ r.heard \/ r.token \in orphaned
        /\ r.stage = "refused" => r.token \in alarms

\* Nobody knows the token of an answer before it is heard.
AnswersAreNew ==
    \A r \in refreshes : r.stage = "renewed" =>
        /\ jar.refresh # r.new
        /\ \A t \in Tabs : <<t, r.new>> \notin presented
        /\ \A s \in refreshes : s.stage = "renewed" /\ s.new = r.new => s = r
        /\ tokens[r.new].live \/ Over(r.new)

\* The page has rotated the token, and will not present it again unless it is loaded before it hears of it.
RenewedBy(t, k) ==
    /\ <<t, k>> \in presented
    /\ \A r \in Of(t) : r.token = k => r.stage = "renewed"
    /\ jar.refresh = k => \E r \in Of(t) : r.token = k

DeathsHaveACause ==
    \A k \in DOMAIN tokens :
        tokens[k].live \/ k \in orphaned \/ Over(k) \/ \E t \in Tabs : RenewedBy(t, k)

Twice(k) == \E t, u \in Tabs : t # u /\ <<t, k>> \in presented /\ <<u, k>> \in presented
AlarmsExplained ==
    \A k \in alarms :
        \/ Twice(k)
        \/ k \in orphaned
        \/ tokens[k].fam \in ended
        \/ \E other \in alarms \ {k} : tokens[other].fam = tokens[k].fam

ReasonsInv ==
    /\ PresentedOK /\ HeardOnce /\ RequestsAreKnown /\ AnswersAreNew
    /\ DeathsHaveACause /\ CookiesAreGood /\ AlarmsExplained

(***************************************************************************)
(* What was ever issued, ended, presented or lost stays so.                *)
(***************************************************************************)
Grows ==
    /\ Len(tokens) \in Nat /\ Len(tokens') \in Nat /\ Len(tokens) <= Len(tokens')
    /\ DOMAIN tokens = 1..Len(tokens) /\ DOMAIN tokens' = 1..Len(tokens')
    /\ \A i \in 1..Len(tokens) : tokens'[i].fam = tokens[i].fam
    /\ ended \subseteq ended' /\ alarms \subseteq alarms'
    /\ orphaned \subseteq orphaned' /\ presented \subseteq presented'

\* Nothing is issued or revoked.
LEMMA SameTokensGrow ==
    ASSUME TokensInv, tokens' = tokens, ended' = ended, alarms' = alarms,
           orphaned \subseteq orphaned', presented \subseteq presented'
    PROVE  Grows
BY TokensAreIssued DEF Grows, TokensInv

\* A session that is over stays over.
LEMMA OverStays ==
    ASSUME TokensInv, PresentedOK, Grows, NEW k \in 1..Len(tokens), Over(k)
    PROVE  Over(k)'
BY DEF Grows, Over, PresentedOK

LEMMA AlarmsStand ==
    ASSUME TokensInv, ReasonsInv, Grows, alarms' = alarms
    PROVE  AlarmsExplained'
<1> SUFFICES ASSUME NEW k \in alarms
             PROVE  \/ Twice(k)' \/ k \in orphaned' \/ tokens'[k].fam \in ended'
                    \/ \E other \in alarms \ {k} : tokens'[other].fam = tokens'[k].fam
    BY DEF AlarmsExplained
<1>1. k \in 1..Len(tokens) /\ alarms \subseteq 1..Len(tokens)
    BY DEF ReasonsInv, PresentedOK
<1>2. \/ Twice(k) \/ k \in orphaned \/ tokens[k].fam \in ended
      \/ \E other \in alarms \ {k} : tokens[other].fam = tokens[k].fam
    BY DEF ReasonsInv, AlarmsExplained
<1>3. Twice(k) => Twice(k)'
    BY DEF Twice, Grows
<1> QED BY <1>1, <1>2, <1>3 DEF Grows

\* Every death keeps its cause, and the new ones have one.
LEMMA CausesStand ==
    ASSUME TokensInv, ReasonsInv, Grows,
           \A k \in DOMAIN tokens' \ DOMAIN tokens : tokens'[k].live,
           \A k \in DOMAIN tokens : tokens[k].live =>
               tokens'[k].live \/ k \in orphaned' \/ Over(k)' \/ \E t \in Tabs : RenewedBy(t, k)',
           \A k \in DOMAIN tokens : \A t \in Tabs : RenewedBy(t, k) => k \in orphaned' \/ RenewedBy(t, k)'
    PROVE  DeathsHaveACause'
<1> SUFFICES ASSUME NEW k \in DOMAIN tokens'
             PROVE  tokens'[k].live \/ k \in orphaned' \/ Over(k)' \/ \E t \in Tabs : RenewedBy(t, k)'
    BY DEF DeathsHaveACause
<1>1. CASE k \notin DOMAIN tokens
    BY <1>1
<1>2. CASE k \in DOMAIN tokens
    <2>1. k \in 1..Len(tokens) /\ orphaned \subseteq orphaned'
        BY <1>2 DEF Grows
    <2>2. Over(k) => Over(k)'
        BY <2>1, OverStays DEF ReasonsInv
    <2>3. tokens[k].live \/ k \in orphaned \/ Over(k) \/ \E t \in Tabs : RenewedBy(t, k)
        BY <1>2 DEF ReasonsInv, DeathsHaveACause
    <2> QED BY <1>2, <2>1, <2>2, <2>3
<1> QED BY <1>1, <1>2

\* The cookies stay, and their reason with them.
LEMMA CookiesStand ==
    ASSUME TokensInv, ReasonsInv, Grows, jar'.csrf => jar.csrf /\ jar'.refresh = jar.refresh,
           \A k \in DOMAIN tokens : tokens[k].live =>
               tokens'[k].live \/ k \in orphaned' \/ Over(k)' \/ \E r \in refreshes' : r.token = k,
           \A r \in refreshes :
               r.token \in orphaned' \/ Over(r.token)' \/ \E x \in refreshes' : x.token = r.token
    PROVE  CookiesAreGood'
<1> SUFFICES ASSUME jar'.csrf
             PROVE  (\/ tokens[jar.refresh].live \/ \E r \in refreshes : r.token = jar.refresh
                     \/ jar.refresh \in orphaned \/ Over(jar.refresh))'
    BY DEF CookiesAreGood, Over
<1>1. jar.csrf /\ jar'.refresh = jar.refresh /\ jar.refresh \in 1..Len(tokens) /\ jar.refresh \in DOMAIN tokens
    BY TokensAreIssued DEF TokensInv, IssuedOK
<1>2. \/ tokens[jar.refresh].live \/ (\E r \in refreshes : r.token = jar.refresh)
      \/ jar.refresh \in orphaned \/ Over(jar.refresh)
    BY <1>1 DEF ReasonsInv, CookiesAreGood, Over
<1>3. ASSUME NEW k, k = jar.refresh PROVE Over(k) => Over(k)'
    BY <1>1, <1>3, OverStays DEF ReasonsInv
<1>4. ASSUME NEW k, k = jar.refresh
      PROVE  tokens'[k].live \/ (\E r \in refreshes' : r.token = k) \/ k \in orphaned' \/ Over(k)'
    BY <1>1, <1>2, <1>3, <1>4 DEF Grows
<1>5. PICK k : k = jar.refresh
    OBVIOUS
<1> QED BY <1>1, <1>4, <1>5 DEF Over

\* No answer becomes old.
LEMMA AnswersStand ==
    ASSUME TokensInv, ReasonsInv, Grows,
           \A r \in refreshes' : r.stage = "renewed" => r \in refreshes,
           \A r \in refreshes' : r.stage = "renewed" =>
               jar'.refresh # r.new /\ \A t \in Tabs : <<t, r.new>> \notin presented',
           \A k \in DOMAIN tokens : tokens[k].live =>
               tokens'[k].live \/ Over(k)' \/ \E r \in refreshes : r.token = k
    PROVE  AnswersAreNew'
<1> SUFFICES ASSUME NEW r \in refreshes', r.stage = "renewed"
             PROVE  /\ \A s \in refreshes' : s.stage = "renewed" /\ s.new = r.new => s = r
                    /\ tokens'[r.new].live \/ Over(r.new)'
    BY DEF AnswersAreNew
<1>1. r \in refreshes /\ r.new \in 1..Len(tokens) /\ r.new \in DOMAIN tokens
    BY TokensAreIssued DEF TokensInv, RequestsOK, RequestOK
<1>2. \A s \in refreshes : s.stage = "renewed" /\ s.new = r.new => s = r
    BY <1>1 DEF ReasonsInv, AnswersAreNew
<1>3. \A s \in refreshes : s.token # r.new
    BY <1>1 DEF ReasonsInv, AnswersAreNew, RequestsAreKnown, TokensInv, RequestsOK, RequestOK
<1>4. tokens[r.new].live \/ Over(r.new)
    BY <1>1 DEF ReasonsInv, AnswersAreNew
<1>5. Over(r.new) => Over(r.new)'
    BY <1>1, OverStays DEF ReasonsInv
<1> QED BY <1>1, <1>2, <1>3, <1>4, <1>5

\* A step that presents nothing and answers nothing: the pages' and the server's own business.
LEMMA RequestsStand ==
    ASSUME TokensInv, ReasonsInv, Grows, UNCHANGED <<refreshes, refreshing, presented, alarms>>,
           jar'.refresh \in {0, jar.refresh}, jar'.csrf => jar.csrf /\ jar'.refresh = jar.refresh,
           \A k \in DOMAIN tokens' \ DOMAIN tokens : tokens'[k].live,
           \A k \in DOMAIN tokens : tokens[k].live => tokens'[k].live \/ Over(k)'
    PROVE  ReasonsInv'
<1>1. PresentedOK' /\ HeardOnce'
    BY DEF ReasonsInv, PresentedOK, HeardOnce, Grows
<1>2. RequestsAreKnown'
    BY DEF ReasonsInv, RequestsAreKnown, Grows
<1>3. \A r \in refreshes : r.new \in Nat /\ (r.stage = "renewed" => r.new # 0 /\ jar.refresh # r.new)
    BY DEF ReasonsInv, AnswersAreNew, TokensInv, IssuedOK, RequestsOK, RequestOK
<1>4. \A r \in refreshes : r.stage = "renewed" =>
          jar'.refresh # r.new /\ \A t \in Tabs : <<t, r.new>> \notin presented'
    BY <1>3 DEF ReasonsInv, AnswersAreNew
<1>5. AnswersAreNew'
    BY <1>4, AnswersStand
<1>6. \A k \in DOMAIN tokens : \A t \in Tabs : RenewedBy(t, k) => RenewedBy(t, k)'
    BY DEF RenewedBy, Of, Sent, Grows
<1>7. DeathsHaveACause'
    BY <1>6, CausesStand
<1>8. CookiesAreGood'
    BY CookiesStand
<1>9. AlarmsExplained'
    BY AlarmsStand
<1> QED BY <1>1, <1>2, <1>5, <1>7, <1>8, <1>9 DEF ReasonsInv

\* A session starts with a token of its own.
LEMMA SignInReasons == ASSUME TokensInv, ReasonsInv, NEW t \in Tabs, SignIn(t) PROVE ReasonsInv'
<1>1. /\ tokens' = Append(tokens, Issue(Len(tokens) + 1, tv)) /\ jar' = [refresh |-> Len(tokens) + 1, csrf |-> TRUE]
      /\ UNCHANGED <<ended, alarms, presented, refreshing, refreshes, orphaned>>
    BY DEF SignIn
<1>2. tokens \in Seq(Tokens) /\ Len(tokens) \in Nat /\ DOMAIN tokens = 1..Len(tokens) /\ tv \in Nat
    BY DEF TokensInv, IssuedOK
<1>3. Issue(Len(tokens) + 1, tv) \in Tokens /\ Issue(Len(tokens) + 1, tv).live
    BY <1>2, IssueIsAToken DEF Issue
<1>4. /\ Len(tokens') = Len(tokens) + 1 /\ DOMAIN tokens' = 1..(Len(tokens) + 1)
      /\ tokens'[Len(tokens) + 1].live
      /\ \A i \in 1..Len(tokens) : tokens'[i] = tokens[i]
    BY <1>1, <1>2, <1>3
<1>5. Grows
    BY <1>1, <1>2, <1>4 DEF Grows
<1>6. PresentedOK' /\ HeardOnce' /\ RequestsAreKnown'
    <2>1. presented' \subseteq Tabs \X (1..Len(tokens')) /\ alarms' \subseteq 1..Len(tokens')
        BY <1>1, <1>2, <1>4 DEF ReasonsInv, PresentedOK
    <2> QED BY <1>1, <2>1 DEF ReasonsInv, PresentedOK, HeardOnce, RequestsAreKnown
<1>7. \A k \in DOMAIN tokens : tokens[k].live => tokens'[k].live
    BY <1>2, <1>4
<1>8. \A r \in refreshes' : r.stage = "renewed" =>
          jar'.refresh # r.new /\ \A u \in Tabs : <<u, r.new>> \notin presented'
    <2>1. \A r \in refreshes : r.new \in 0..Len(tokens)
        BY DEF TokensInv, RequestsOK, RequestOK
    <2> QED BY <1>1, <1>2, <2>1 DEF ReasonsInv, AnswersAreNew
<1>9. AnswersAreNew'
    BY <1>1, <1>5, <1>7, <1>8, AnswersStand
<1>10. \A k \in DOMAIN tokens : \A u \in Tabs : RenewedBy(u, k) => RenewedBy(u, k)'
    <2>1. \A k \in DOMAIN tokens : jar'.refresh # k
        BY <1>1, <1>2
    <2> QED BY <1>1, <2>1 DEF RenewedBy, Of, Sent
<1>11. DeathsHaveACause'
    <2>1. \A k \in DOMAIN tokens' \ DOMAIN tokens : tokens'[k].live
        BY <1>2, <1>4
    <2> QED BY <1>5, <1>7, <1>10, <2>1, CausesStand
<1>12. CookiesAreGood'
    BY <1>1, <1>4 DEF CookiesAreGood
<1>13. AlarmsExplained'
    BY <1>1, <1>5, AlarmsStand
<1> QED BY <1>6, <1>9, <1>11, <1>12, <1>13 DEF ReasonsInv

\* A page presents the cookie only when it hears no refresh, and nobody's answer is the cookie.
LEMMA JoinReasons == ASSUME TokensInv, FlagsOK, ReasonsInv, NEW c \in Slots, Join(c) PROVE ReasonsInv'
<1> DEFINE t == TabOf[c]
<1>1. /\ t \in Tabs /\ UNCHANGED <<tokens, ended, alarms, jar, orphaned>> /\ (refreshing[t] \/ jar.csrf)
      /\ refreshAccessToken(t)
    BY SessionAssumption DEF Join
<1>2. CASE refreshing[t]
    <2>1. UNCHANGED <<refreshes, refreshing, presented>>
        BY <1>1, <1>2 DEF refreshAccessToken
    <2>2. Grows
        BY <1>1, <2>1, SameTokensGrow
    <2> QED BY <1>1, <2>1, <2>2, RequestsStand
<1>3. CASE ~refreshing[t]
    <2> DEFINE q == Refresh(t)
    <2>1. /\ refreshes' = refreshes \cup {q} /\ refreshing' = [refreshing EXCEPT ![t] = TRUE]
          /\ presented' = presented \cup {<<t, jar.refresh>>} /\ jar.csrf
        BY <1>1, <1>3 DEF refreshAccessToken, SendRefresh
    <2>2. RequestOK(q) /\ q.stage = "sent" /\ q.heard /\ q.tab = t /\ q.token = jar.refresh
        BY <1>1, <2>1, RefreshOK DEF TokensInv, Refresh
    <2>3. jar.refresh \in 1..Len(tokens) /\ jar.refresh \in DOMAIN tokens
        BY <2>1, TokensAreIssued DEF TokensInv, IssuedOK
    <2>4. Grows
        BY <1>1, <2>1, SameTokensGrow
    <2>5. \A r \in refreshes : r.heard => r.tab # t
        BY <1>3 DEF ReasonsInv, HeardOnce
    <2> HIDE DEF q
    <2>6. PresentedOK'
        <3>1. IsFiniteSet(presented')
            BY <2>1, FS_AddElement DEF ReasonsInv, PresentedOK
        <3> QED BY <1>1, <2>1, <2>3, <3>1 DEF ReasonsInv, PresentedOK
    <2>7. HeardOnce'
        <3>1. \A r \in refreshes' : r.heard => refreshing'[r.tab]
            BY <1>1, <2>1, <2>2, <2>5 DEF FlagsOK, ReasonsInv, HeardOnce
        <3> QED BY <2>1, <2>2, <2>5, <3>1 DEF ReasonsInv, HeardOnce
    <2>8. RequestsAreKnown'
        BY <1>1, <2>1, <2>2 DEF ReasonsInv, RequestsAreKnown
    <2>9. AnswersAreNew'
        <3>1. \A r \in refreshes' : r.stage = "renewed" => r \in refreshes
            BY <2>1, <2>2
        <3>2. \A r \in refreshes' : r.stage = "renewed" =>
                  jar'.refresh # r.new /\ \A u \in Tabs : <<u, r.new>> \notin presented'
            BY <1>1, <2>1, <3>1 DEF ReasonsInv, AnswersAreNew
        <3> QED BY <1>1, <2>4, <3>1, <3>2, AnswersStand
    <2>10. DeathsHaveACause'
        <3>1. ASSUME NEW k \in DOMAIN tokens, NEW u \in Tabs, RenewedBy(u, k) PROVE RenewedBy(u, k)'
            <4>1. CASE u = t
                <5>1. Of(t) = {}
                    BY <2>5 DEF Of, Sent
                <5>2. jar.refresh # k
                    BY <3>1, <4>1, <5>1 DEF RenewedBy
                <5>3. Of(t)' \subseteq {q}
                    BY <2>1, <2>5 DEF Of, Sent
                <5> QED BY <1>1, <2>1, <2>2, <3>1, <4>1, <5>2, <5>3 DEF RenewedBy
            <4>2. CASE u # t
                <5>1. Of(u)' = Of(u)
                    BY <2>1, <2>2, <4>2 DEF Of, Sent
                <5> QED BY <1>1, <2>1, <3>1, <5>1 DEF RenewedBy
            <4> QED BY <4>1, <4>2
        <3> QED BY <1>1, <2>4, <3>1, CausesStand
    <2>11. CookiesAreGood'
        BY <1>1, <2>1, <2>4, CookiesStand
    <2>12. AlarmsExplained'
        BY <1>1, <2>4, AlarmsStand
    <2> QED BY <2>6, <2>7, <2>8, <2>9, <2>10, <2>11, <2>12 DEF ReasonsInv
<1> QED BY <1>2, <1>3

\* What a page that is loaded leaves behind is orphaned.
LEMMA LoadReasons == ASSUME TokensInv, FlagsOK, ReasonsInv, NEW t \in Tabs, Load(t) PROVE ReasonsInv'
<1> DEFINE left == (refreshes \ Of(t)) \cup Abandon(Of(t))
           q    == Refresh(t)
<1>1. /\ UNCHANGED <<tokens, ended, alarms, jar>> /\ orphaned' = orphaned \cup {r.token : r \in Of(t)}
      /\ \/ jar.csrf /\ refreshes' = left \cup {q} /\ refreshing' = [refreshing EXCEPT ![t] = TRUE]
            /\ presented' = presented \cup {<<t, jar.refresh>>}
         \/ ~jar.csrf /\ refreshes' = left /\ refreshing' = [refreshing EXCEPT ![t] = FALSE]
            /\ presented' = presented
    BY DEF Load
<1>2. jar.csrf => /\ RequestOK(q) /\ q.stage = "sent" /\ q.heard /\ q.tab = t /\ q.token = jar.refresh
                  /\ jar.refresh \in 1..Len(tokens) /\ jar.refresh \in DOMAIN tokens
    BY RefreshOK, TokensAreIssued DEF TokensInv, IssuedOK, Refresh
<1>3. /\ Of(t) = {r \in refreshes : r.tab = t /\ r.heard}
      /\ \A r \in Abandon(Of(t)) : /\ RequestOK(r) /\ ~r.heard /\ r.stage \in Unfinished
                                   /\ \E x \in Of(t) : r.token = x.token /\ r.tab = x.tab /\ r.stage = x.stage
    <2>1. Of(t) = {r \in refreshes : r.tab = t /\ r.heard}
        BY DEF Of, Sent
    <2>2. \A x \in refreshes : x \in [tab : Tabs, nth : Nat, heard : BOOLEAN, token : 1..Len(tokens),
                                      new : 0..Len(tokens), tv : Nat, stage : Stages]
        BY DEF TokensInv, RequestsOK, RequestOK
    <2>3. ASSUME NEW r \in Abandon(Of(t))
          PROVE  /\ RequestOK(r) /\ ~r.heard
                 /\ r.stage \in Unfinished
                 /\ \E x \in Of(t) : r.token = x.token /\ r.tab = x.tab /\ r.stage = x.stage
        <3>1. Of(t) \in SUBSET refreshes
            BY <2>1
        <3>2. RequestOK(r) /\ ~r.heard
            BY <2>3, <3>1, AbandonedOK DEF TokensInv
        <3>3. PICK x \in Of(t) : x.stage \in Unfinished /\ r = [x EXCEPT !.heard = FALSE]
            BY <2>3 DEF Abandon
        <3> QED BY <2>2, <3>1, <3>2, <3>3
    <2> QED BY <2>1, <2>3
<1>4. Grows
    BY <1>1, SameTokensGrow
<1>5. \A r \in refreshes' : \/ r \in refreshes /\ ~(r.heard /\ r.tab = t)
                            \/ r \in Abandon(Of(t))
                            \/ r = q /\ jar.csrf
    BY <1>1, <1>3
<1>6. \A r \in Of(t) : r.token \in orphaned'
    BY <1>1
<1> HIDE DEF q
<1>7. PresentedOK'
    <2>1. IsFiniteSet(presented')
        BY <1>1, FS_AddElement DEF ReasonsInv, PresentedOK
    <2> QED BY <1>1, <1>2, <2>1 DEF ReasonsInv, PresentedOK
<1>8. HeardOnce'
    <2>1. \A r \in refreshes' : r.heard => (r \in refreshes /\ r.tab # t) \/ (r = q /\ jar.csrf)
        BY <1>3, <1>5
    <2>2. \A r \in refreshes' : r.heard => refreshing'[r.tab]
        BY <1>1, <1>2, <2>1 DEF FlagsOK, ReasonsInv, HeardOnce, TokensInv, RequestsOK, RequestOK
    <2>3. \A r, s \in refreshes' : r.heard /\ s.heard /\ r.tab = s.tab => r = s
        BY <1>2, <2>1 DEF ReasonsInv, HeardOnce
    <2> QED BY <2>2, <2>3 DEF HeardOnce
<1>9. RequestsAreKnown'
    <2> SUFFICES ASSUME NEW r \in refreshes'
                 PROVE  /\ <<r.tab, r.token>> \in presented'
                        /\ r.heard \/ r.token \in orphaned'
                        /\ r.stage = "refused" => r.token \in alarms'
        BY DEF RequestsAreKnown
    <2>1. CASE r \in refreshes
        BY <1>1, <2>1 DEF ReasonsInv, RequestsAreKnown
    <2>2. CASE r \in Abandon(Of(t))
        <3>1. PICK x \in Of(t) : r.token = x.token /\ r.tab = x.tab /\ r.stage = x.stage
            BY <1>3, <2>2
        <3> QED BY <1>1, <1>3, <1>6, <3>1 DEF ReasonsInv, RequestsAreKnown
    <2>3. CASE r = q /\ jar.csrf
        BY <1>1, <1>2, <2>3
    <2> QED BY <1>5, <2>1, <2>2, <2>3
<1>10. AnswersAreNew'
    <2>1. \A r \in refreshes' : r.stage = "renewed" => r \in refreshes
        BY <1>2, <1>3, <1>5 DEF Unfinished
    <2>2. \A r \in refreshes' : r.stage = "renewed" =>
              jar'.refresh # r.new /\ \A u \in Tabs : <<u, r.new>> \notin presented'
        BY <1>1, <2>1 DEF ReasonsInv, AnswersAreNew
    <2> QED BY <1>1, <1>4, <2>1, <2>2, AnswersStand
<1>11. DeathsHaveACause'
    <2>1. ASSUME NEW k \in DOMAIN tokens, NEW u \in Tabs, RenewedBy(u, k) PROVE k \in orphaned' \/ RenewedBy(u, k)'
        <3>1. CASE u = t /\ \E r \in Of(t) : r.token = k
            BY <1>6, <3>1
        <3>2. CASE u = t /\ \A r \in Of(t) : r.token # k
            <4>1. jar.refresh # k
                BY <2>1, <3>2 DEF RenewedBy
            <4>2. Of(t)' = {r \in refreshes' : r.tab = t /\ r.heard}
                BY DEF Of, Sent
            <4>3. \A r \in Of(t)' : r = q /\ jar.csrf
                BY <1>3, <1>5, <4>2
            <4> QED BY <1>1, <1>2, <2>1, <3>2, <4>1, <4>3 DEF RenewedBy
        <3>3. CASE u # t
            <4>1. Of(u)' = Of(u)
                <5>1. \A r \in refreshes' : r.tab = u /\ r.heard => r \in refreshes
                    BY <1>2, <1>3, <1>5, <3>3
                <5>2. \A r \in refreshes : r.tab = u /\ r.heard => r \in refreshes'
                    BY <1>1, <1>3, <3>3
                <5> QED BY <5>1, <5>2 DEF Of, Sent
            <4> QED BY <1>1, <2>1, <4>1 DEF RenewedBy
        <3> QED BY <3>1, <3>2, <3>3
    <2> QED BY <1>1, <1>4, <2>1, CausesStand
<1>12. CookiesAreGood'
    <2>1. \A r \in refreshes : r.token \in orphaned' \/ \E x \in refreshes' : x.token = r.token
        BY <1>1, <1>3, <1>6
    <2> QED BY <1>1, <1>4, <2>1, CookiesStand
<1>13. AlarmsExplained'
    BY <1>1, <1>4, AlarmsStand
<1> QED BY <1>7, <1>8, <1>9, <1>10, <1>11, <1>12, <1>13 DEF ReasonsInv

\* What is lost is orphaned.
LEMMA LoseReasons == ASSUME TokensInv, FlagsOK, ReasonsInv, NEW q \in refreshes, Lose(q) PROVE ReasonsInv'
<1>1. /\ q.heard /\ UNCHANGED <<tokens, ended, alarms, presented, jar>> /\ orphaned' = orphaned \cup {q.token}
      /\ refreshing' = [refreshing EXCEPT ![q.tab] = FALSE]
      /\ refreshes' = (refreshes \ {q}) \cup Abandon({q}) \/ refreshes' = refreshes \ {q}
    BY DEF Lose, server
<1>2. \A r \in Abandon({q}) :
          ~r.heard /\ r.stage \in Unfinished /\ r.token = q.token /\ r.tab = q.tab /\ r.stage = q.stage
    <2>1. q \in [tab : Tabs, nth : Nat, heard : BOOLEAN, token : 1..Len(tokens), new : 0..Len(tokens), tv : Nat,
                 stage : Stages]
        BY DEF TokensInv, RequestsOK, RequestOK
    <2>2. \A r \in Abandon({q}) : q.stage \in Unfinished /\ r = [q EXCEPT !.heard = FALSE]
        BY DEF Abandon
    <2> QED BY <2>1, <2>2
<1>3. Grows
    BY <1>1, SameTokensGrow
<1>4. \A r \in refreshes' : (r \in refreshes /\ r # q) \/ r \in Abandon({q})
    BY <1>1
<1>5. \A r \in refreshes : r.heard /\ r # q => r.tab # q.tab
    BY <1>1 DEF ReasonsInv, HeardOnce
<1>6. PresentedOK'
    BY <1>1 DEF ReasonsInv, PresentedOK
<1>7. HeardOnce'
    <2>1. \A r \in refreshes' : r.heard => r \in refreshes /\ r # q
        BY <1>2, <1>4
    <2> QED BY <1>1, <1>5, <2>1 DEF FlagsOK, ReasonsInv, HeardOnce, TokensInv, RequestsOK, RequestOK
<1>8. RequestsAreKnown'
    BY <1>1, <1>2, <1>4 DEF ReasonsInv, RequestsAreKnown
<1>9. AnswersAreNew'
    <2>1. \A r \in refreshes' : r.stage = "renewed" => r \in refreshes
        BY <1>2, <1>4 DEF Unfinished
    <2>2. \A r \in refreshes' : r.stage = "renewed" =>
              jar'.refresh # r.new /\ \A u \in Tabs : <<u, r.new>> \notin presented'
        BY <1>1, <2>1 DEF ReasonsInv, AnswersAreNew
    <2> QED BY <1>1, <1>3, <2>1, <2>2, AnswersStand
<1>10. DeathsHaveACause'
    <2>1. ASSUME NEW k \in DOMAIN tokens, NEW u \in Tabs, RenewedBy(u, k), k # q.token PROVE RenewedBy(u, k)'
        <3>1. \A r \in Of(u)' : r \in Of(u)
            BY <1>2, <1>4 DEF Of, Sent
        <3>2. \A r \in Of(u) : r.token = k => r \in Of(u)'
            BY <1>1, <2>1 DEF Of, Sent
        <3> QED BY <1>1, <2>1, <3>1, <3>2 DEF RenewedBy
    <2> QED BY <1>1, <1>3, <2>1, CausesStand
<1>11. CookiesAreGood'
    <2>1. \A r \in refreshes : r.token \in orphaned' \/ \E x \in refreshes' : x.token = r.token
        BY <1>1
    <2> QED BY <1>1, <1>3, <2>1, CookiesStand
<1>12. AlarmsExplained'
    BY <1>1, <1>3, AlarmsStand
<1> QED BY <1>6, <1>7, <1>8, <1>9, <1>10, <1>11, <1>12 DEF ReasonsInv

\* A page hears the answer; the cookie is one that nobody has presented.
LEMMA AnswerReasons ==
    ASSUME TokensInv, FlagsOK, ReasonsInv, NEW q \in refreshes, Renewed(q) \/ Refused(q)
    PROVE  ReasonsInv'
<1>1. /\ q.heard /\ UNCHANGED <<tokens, ended, alarms, presented, orphaned>> /\ refreshes' = refreshes \ {q}
      /\ refreshing' = [refreshing EXCEPT ![q.tab] = FALSE]
      /\ \/ q.stage = "renewed" /\ jar' = [refresh |-> q.new, csrf |-> TRUE]
         \/ q.stage = "refused" /\ jar' = jar
    BY DEF Renewed, Refused, Unrenewed, Settled, server
<1>2. Grows
    BY <1>1, SameTokensGrow
<1>3. \A r \in refreshes : r.heard /\ r # q => r.tab # q.tab
    BY <1>1 DEF ReasonsInv, HeardOnce
<1>4. q.stage = "renewed" => /\ \A u \in Tabs : <<u, q.new>> \notin presented
                             /\ \A s \in refreshes : s.stage = "renewed" /\ s.new = q.new => s = q
                             /\ tokens[q.new].live \/ Over(q.new)
    BY DEF ReasonsInv, AnswersAreNew
<1>5. PresentedOK' /\ RequestsAreKnown'
    BY <1>1 DEF ReasonsInv, PresentedOK, RequestsAreKnown
<1>6. HeardOnce'
    BY <1>1, <1>3 DEF FlagsOK, ReasonsInv, HeardOnce, TokensInv, RequestsOK, RequestOK
<1>7. AnswersAreNew'
    <2>1. \A r \in refreshes' : r.stage = "renewed" =>
              jar'.refresh # r.new /\ \A u \in Tabs : <<u, r.new>> \notin presented'
        BY <1>1, <1>4 DEF ReasonsInv, AnswersAreNew
    <2> QED BY <1>1, <1>2, <2>1, AnswersStand
<1>8. DeathsHaveACause'
    <2>1. ASSUME NEW k \in DOMAIN tokens, NEW u \in Tabs, RenewedBy(u, k) PROVE RenewedBy(u, k)'
        <3>1. /\ <<u, k>> \in presented /\ (\A r \in Of(u) : r.token = k => r.stage = "renewed")
              /\ (jar.refresh = k => \E r \in Of(u) : r.token = k)
            BY <2>1 DEF RenewedBy
        <3>2. Of(u)' = Of(u) \ {q}
            BY <1>1 DEF Of, Sent
        <3>3. jar'.refresh = k => \E r \in Of(u)' : r.token = k
            <4>1. CASE q.stage = "renewed"
                BY <1>1, <1>4, <3>1, <4>1
            <4>2. CASE q.stage = "refused"
                BY <1>1, <3>1, <3>2, <4>2
            <4> QED BY <1>1, <4>1, <4>2
        <3> QED BY <1>1, <3>1, <3>2, <3>3 DEF RenewedBy
    <2> QED BY <1>1, <1>2, <2>1, CausesStand
<1>9. CookiesAreGood'
    <2>1. CASE q.stage = "renewed"
        BY <1>1, <1>4, <2>1 DEF CookiesAreGood, Over
    <2>2. CASE q.stage = "refused"
        <3>1. Over(q.token)'
            BY <1>1, <2>2 DEF ReasonsInv, RequestsAreKnown, Over
        <3>2. \A r \in refreshes : Over(r.token)' \/ \E x \in refreshes' : x.token = r.token
            BY <1>1, <3>1
        <3>3. jar' = jar
            BY <1>1, <2>2
        <3> QED BY <1>1, <1>2, <3>2, <3>3, CookiesStand
    <2> QED BY <1>1, <2>1, <2>2
<1>10. AlarmsExplained'
    BY <1>1, <1>2, AlarmsStand
<1> QED BY <1>5, <1>6, <1>7, <1>8, <1>9, <1>10 DEF ReasonsInv

\* What a step of the server does to the requests: one is written over, and kept unless nobody hears its end.
StepFacts(r, new) ==
    /\ \A x \in refreshes' : x = new \/ (x \in refreshes /\ x # r)
    /\ \A x \in refreshes : x # r => x \in refreshes'
    /\ r.heard => new \in refreshes'

LEMMA StepIs == ASSUME NEW r, NEW new, refreshes' = Step(r, new) PROVE StepFacts(r, new)
BY DEF Step, StepFacts

\* The page does not notice.
LEMMA StepReasons ==
    ASSUME TokensInv, ReasonsInv, Grows, NEW q \in refreshes, NEW new, StepFacts(q, new),
           new.tab = q.tab, new.heard = q.heard, new.token = q.token, new.stage = "refused" => q.token \in alarms',
           alarms' \subseteq 1..Len(tokens'), UNCHANGED <<presented, refreshing, jar, orphaned>>
    PROVE  /\ PresentedOK' /\ HeardOnce' /\ RequestsAreKnown'
           /\ \A r \in refreshes : r.token \in orphaned' \/ \E x \in refreshes' : x.token = r.token
           /\ \A k \in DOMAIN tokens : \A t \in Tabs :
                 (q.token = k /\ q.heard => new.stage = "renewed") /\ RenewedBy(t, k) => RenewedBy(t, k)'
<1>1. PresentedOK'
    BY DEF ReasonsInv, PresentedOK, Grows
<1>2. HeardOnce'
    BY DEF ReasonsInv, HeardOnce, StepFacts
<1>3. RequestsAreKnown'
    BY DEF ReasonsInv, RequestsAreKnown, StepFacts, Grows
<1>4. \A r \in refreshes : r.token \in orphaned' \/ \E x \in refreshes' : x.token = r.token
    BY DEF ReasonsInv, RequestsAreKnown, StepFacts
<1>5. ASSUME NEW k, NEW t \in Tabs, q.token = k /\ q.heard => new.stage = "renewed", RenewedBy(t, k)
      PROVE  RenewedBy(t, k)'
    <2>1. \A x \in Of(t)' : (x \in Of(t) /\ x # q) \/ (x = new /\ q \in Of(t))
        BY DEF Of, Sent, StepFacts
    <2>2. \A x \in Of(t) : x = q \/ x \in Of(t)'
        BY DEF Of, Sent, StepFacts
    <2>3. q \in Of(t) => new \in Of(t)' /\ q.heard
        BY DEF Of, Sent, StepFacts
    <2> QED BY <1>5, <2>1, <2>2, <2>3 DEF RenewedBy
<1> QED BY <1>1, <1>2, <1>3, <1>4, <1>5

\* A rotation begins.
LEMMA ConsumeReasons == ASSUME TokensInv, ReasonsInv, NEW q \in refreshes, Consume(q) PROVE ReasonsInv'
<1> DEFINE new == [q EXCEPT !.stage = "holds", !.tv = tv]
<1>1. /\ q.stage = "sent" /\ tokens[q.token].live /\ StepFacts(q, new)
      /\ UNCHANGED <<tokens, ended, alarms, presented, refreshing, jar, orphaned>>
    BY StepIs DEF Consume, server, pages
<1>2. new.tab = q.tab /\ new.heard = q.heard /\ new.token = q.token /\ new.stage = "holds"
    BY DEF TokensInv, RequestsOK, RequestOK
<1>3. Grows
    BY <1>1, SameTokensGrow
<1> HIDE DEF new
<1>4. alarms' \subseteq 1..Len(tokens')
    BY <1>1 DEF ReasonsInv, PresentedOK
<1>5. /\ PresentedOK' /\ HeardOnce' /\ RequestsAreKnown'
      /\ \A r \in refreshes : r.token \in orphaned' \/ \E x \in refreshes' : x.token = r.token
      /\ \A k \in DOMAIN tokens : \A t \in Tabs :
            (q.token = k /\ q.heard => new.stage = "renewed") /\ RenewedBy(t, k) => RenewedBy(t, k)'
    BY <1>1, <1>2, <1>3, <1>4, StepReasons
<1>6. AnswersAreNew'
    <2>1. \A r \in refreshes' : r.stage = "renewed" => r \in refreshes
        BY <1>1, <1>2 DEF StepFacts
    <2>2. \A r \in refreshes' : r.stage = "renewed" =>
              jar'.refresh # r.new /\ \A u \in Tabs : <<u, r.new>> \notin presented'
        BY <1>1, <2>1 DEF ReasonsInv, AnswersAreNew
    <2> QED BY <1>1, <1>3, <2>1, <2>2, AnswersStand
<1>7. DeathsHaveACause'
    <2>1. ASSUME NEW k \in DOMAIN tokens, NEW t \in Tabs, RenewedBy(t, k), ~(k = q.token /\ q.heard)
          PROVE  RenewedBy(t, k)'
        BY <1>5, <2>1
    <2>2. ASSUME NEW k \in DOMAIN tokens, tokens'[k].live
          PROVE  tokens'[k].live \/ k \in orphaned' \/ Over(k)' \/ \E t \in Tabs : RenewedBy(t, k)'
        BY <2>2
    <2> SUFFICES ASSUME NEW k \in DOMAIN tokens'
                 PROVE  tokens'[k].live \/ k \in orphaned' \/ Over(k)' \/ \E t \in Tabs : RenewedBy(t, k)'
        BY DEF DeathsHaveACause
    <2>3. CASE k = q.token
        BY <1>1, <2>3
    <2>4. CASE k # q.token
        <3>1. k \in 1..Len(tokens) /\ k \in DOMAIN tokens
            BY <1>1, <1>3 DEF Grows
        <3>2. Over(k) => Over(k)'
            BY <1>3, <3>1, OverStays DEF ReasonsInv
        <3>3. tokens[k].live \/ k \in orphaned \/ Over(k) \/ \E t \in Tabs : RenewedBy(t, k)
            BY <3>1 DEF ReasonsInv, DeathsHaveACause
        <3> QED BY <1>1, <2>1, <2>4, <3>1, <3>2, <3>3
    <2> QED BY <2>3, <2>4
<1>8. CookiesAreGood'
    BY <1>1, <1>3, <1>5, CookiesStand
<1>9. AlarmsExplained'
    BY <1>1, <1>3, AlarmsStand
<1> QED BY <1>5, <1>6, <1>7, <1>8, <1>9 DEF ReasonsInv

\* A dead token sounds the alarm: another page has rotated it, or one of the other reasons holds.
LEMMA ReusedReasons == ASSUME TokensInv, ReasonsInv, NEW q \in refreshes, Reused(q) PROVE ReasonsInv'
<1> DEFINE new == [q EXCEPT !.stage = "refused"]
           fam == tokens[q.token].fam
<1>1. /\ q.stage = "sent" /\ ~tokens[q.token].live /\ Revoke({fam}) /\ StepFacts(q, new)
      /\ alarms' = alarms \cup {q.token} /\ UNCHANGED <<ended, presented, refreshing, jar, orphaned>>
    BY StepIs DEF Reused, pages
<1>2. /\ new.tab = q.tab /\ new.heard = q.heard /\ new.token = q.token /\ new.stage = "refused"
      /\ q.token \in 1..Len(tokens) /\ q.tab \in Tabs
    BY DEF TokensInv, RequestsOK, RequestOK
<1>3. /\ Len(tokens') = Len(tokens) /\ DOMAIN tokens' = DOMAIN tokens /\ DOMAIN tokens = 1..Len(tokens)
      /\ Len(tokens) \in Nat
      /\ \A i \in 1..Len(tokens) :
            /\ tokens'[i].fam = tokens[i].fam
            /\ tokens'[i].live => tokens[i].live
            /\ tokens[i].live /\ ~tokens'[i].live => tokens[i].fam = fam
    <2>1. IssuedOK
        BY DEF TokensInv
    <2>2. Len(tokens) \in Nat /\ DOMAIN tokens = 1..Len(tokens)
        BY <2>1, TokensAreIssued
    <2>3. \A i \in 1..Len(tokens) : tokens[i].fam # fam => tokens'[i] = tokens[i]
        BY <1>1, <2>2 DEF Revoke, OfFamily
    <2> HIDE DEF fam
    <2> QED BY <1>1, <2>1, <2>2, <2>3, RevokeEnds
<1>4. Grows
    BY <1>1, <1>3 DEF Grows
<1>5. fam = tokens'[q.token].fam /\ q.token \in alarms'
    BY <1>1, <1>2, <1>3
<1> HIDE DEF new, fam
<1>6. \A i \in 1..Len(tokens) : tokens[i].live => tokens'[i].live \/ Over(i)'
    BY <1>3, <1>5 DEF Over
<1>7. alarms' \subseteq 1..Len(tokens')
    BY <1>1, <1>2, <1>3 DEF ReasonsInv, PresentedOK
<1>8. /\ PresentedOK' /\ HeardOnce' /\ RequestsAreKnown'
      /\ \A r \in refreshes : r.token \in orphaned' \/ \E x \in refreshes' : x.token = r.token
      /\ \A k \in DOMAIN tokens : \A t \in Tabs :
            (q.token = k /\ q.heard => new.stage = "renewed") /\ RenewedBy(t, k) => RenewedBy(t, k)'
    BY <1>1, <1>2, <1>4, <1>5, <1>7, StepReasons
<1>9. AnswersAreNew'
    <2>1. \A r \in refreshes' : r.stage = "renewed" => r \in refreshes
        BY <1>1, <1>2 DEF StepFacts
    <2>2. \A r \in refreshes' : r.stage = "renewed" =>
              jar'.refresh # r.new /\ \A u \in Tabs : <<u, r.new>> \notin presented'
        BY <1>1, <2>1 DEF ReasonsInv, AnswersAreNew
    <2> QED BY <1>3, <1>4, <1>6, <2>1, <2>2, AnswersStand
<1>10. DeathsHaveACause'
    <2>1. Over(q.token)'
        BY <1>5 DEF Over
    <2> SUFFICES ASSUME NEW k \in DOMAIN tokens'
                 PROVE  tokens'[k].live \/ k \in orphaned' \/ Over(k)' \/ \E t \in Tabs : RenewedBy(t, k)'
        BY DEF DeathsHaveACause
    <2>2. CASE k = q.token
        BY <2>1, <2>2
    <2>3. CASE k # q.token
        <3>1. k \in 1..Len(tokens) /\ k \in DOMAIN tokens
            BY <1>3
        <3>2. Over(k) => Over(k)'
            BY <1>4, <3>1, OverStays DEF ReasonsInv
        <3>3. tokens[k].live \/ k \in orphaned \/ Over(k) \/ \E t \in Tabs : RenewedBy(t, k)
            BY <3>1 DEF ReasonsInv, DeathsHaveACause
        <3> QED BY <1>1, <1>6, <1>8, <2>3, <3>1, <3>2, <3>3
    <2> QED BY <2>2, <2>3
<1>11. CookiesAreGood'
    BY <1>1, <1>3, <1>4, <1>6, <1>8, CookiesStand
<1>12. AlarmsExplained'
    <2> DEFINE Why(k) == \/ Twice(k)
                         \/ k \in orphaned
                         \/ tokens[k].fam \in ended
                         \/ \E other \in alarms \ {k} : tokens[other].fam = tokens[k].fam
    <2>1. \A k \in alarms : k \in 1..Len(tokens) /\ Why(k)
        BY DEF ReasonsInv, AlarmsExplained, PresentedOK
    <2>2. Why(q.token)
        <3>1. CASE q.token \in alarms
            BY <2>1, <3>1
        <3>2. CASE q.token \notin alarms
            <4>1. q.token \in orphaned \/ Over(q.token) \/ \E t \in Tabs : RenewedBy(t, q.token)
                BY <1>1, <1>2, <1>3 DEF ReasonsInv, DeathsHaveACause
            <4>2. Over(q.token) => Why(q.token)
                BY <3>2 DEF Over
            <4>3. ASSUME NEW t \in Tabs, RenewedBy(t, q.token)
                  PROVE  Why(q.token)
                <5>1. CASE ~q.heard
                    BY <5>1 DEF ReasonsInv, RequestsAreKnown
                <5>2. CASE q.heard
                    <6>1. q \notin Of(t)
                        BY <1>1, <4>3 DEF RenewedBy
                    <6>2. t # q.tab
                        BY <5>2, <6>1 DEF Of, Sent
                    <6>3. <<t, q.token>> \in presented /\ <<q.tab, q.token>> \in presented
                        BY <4>3 DEF RenewedBy, ReasonsInv, RequestsAreKnown
                    <6> QED BY <1>2, <6>2, <6>3 DEF Twice
                <5> QED BY <5>1, <5>2
            <4> QED BY <4>1, <4>2, <4>3
        <3> QED BY <3>1, <3>2
    <2>3. \A k \in alarms' : k \in 1..Len(tokens) /\ Why(k)
        BY <1>1, <1>2, <2>1, <2>2
    <2>4. \A k : Twice(k) => Twice(k)'
        BY <1>1 DEF Twice
    <2> QED BY <1>1, <1>2, <1>3, <2>1, <2>3, <2>4 DEF AlarmsExplained
<1> QED BY <1>8, <1>9, <1>10, <1>11, <1>12 DEF ReasonsInv

\* The token that a rotation issues is known to nobody, and the one it kills was presented by the page.
LEMMA RotateReasons == ASSUME TokensInv, ReasonsInv, NEW q \in refreshes, Rotate(q) PROVE ReasonsInv'
<1> DEFINE n    == Len(tokens) + 1
           dead == [tokens EXCEPT ![q.token].live = FALSE]
           next == Issue(tokens[q.token].fam, q.tv)
<1>1. PICK new : /\ new = [q EXCEPT !.stage = "renewed", !.new = n] /\ StepFacts(q, new)
                 /\ q.stage = "holds" /\ tokens' = Append(dead, next)
                 /\ UNCHANGED <<ended, alarms, presented, refreshing, jar, orphaned>>
    BY StepIs DEF Rotate, pages
<1>2. /\ new.tab = q.tab /\ new.heard = q.heard /\ new.token = q.token /\ new.stage = "renewed" /\ new.new = n
      /\ q.token \in 1..Len(tokens) /\ q.tab \in Tabs /\ q.tv \in Nat
    BY <1>1 DEF TokensInv, RequestsOK, RequestOK
<1>3. /\ tokens \in Seq(Tokens) /\ Len(tokens) \in Nat /\ DOMAIN tokens = 1..Len(tokens)
      /\ \A i \in 1..Len(tokens) : tokens[i] \in Tokens
    BY TokensAreIssued DEF TokensInv, IssuedOK
<1>4. /\ dead \in Seq(Tokens) /\ Len(dead) = Len(tokens)
      /\ \A i \in 1..Len(tokens) : dead[i].fam = tokens[i].fam /\ (i # q.token => dead[i] = tokens[i])
    <2>1. dead = [i \in 1..Len(tokens) |->
                    IF i = q.token THEN [tokens[i] EXCEPT !.live = FALSE] ELSE tokens[i]]
        BY <1>2, <1>3
    <2>2. \A i \in 1..Len(tokens) :
              dead[i] \in Tokens /\ dead[i].fam = tokens[i].fam /\ (i # q.token => dead[i] = tokens[i])
        BY <1>3, <2>1 DEF Tokens
    <2> HIDE DEF dead
    <2>3. dead \in Seq(Tokens) /\ Len(dead) = Len(tokens)
        BY <1>3, <2>1, <2>2
    <2> QED BY <2>2, <2>3
<1>5. next \in Tokens /\ next.live
    BY <1>2, <1>3, IssueIsAToken DEF Issue, Tokens
<1> HIDE DEF dead, next
<1>6. /\ Len(tokens') = n /\ DOMAIN tokens' = 1..n /\ tokens'[n].live
      /\ \A i \in 1..Len(tokens) : tokens'[i].fam = tokens[i].fam /\ (i # q.token => tokens'[i] = tokens[i])
    BY <1>1, <1>3, <1>4, <1>5
<1>7. Grows
    BY <1>1, <1>3, <1>6 DEF Grows
<1>8. alarms' \subseteq 1..Len(tokens')
    BY <1>1, <1>3, <1>6 DEF ReasonsInv, PresentedOK
<1>9. /\ PresentedOK' /\ HeardOnce' /\ RequestsAreKnown'
      /\ \A r \in refreshes : r.token \in orphaned' \/ \E x \in refreshes' : x.token = r.token
      /\ \A k \in DOMAIN tokens : \A t \in Tabs :
            (q.token = k /\ q.heard => new.stage = "renewed") /\ RenewedBy(t, k) => RenewedBy(t, k)'
    BY <1>1, <1>2, <1>7, <1>8, StepReasons
<1>10. n \notin 1..Len(tokens) /\ jar.refresh # n /\ (\A t \in Tabs : <<t, n>> \notin presented)
       /\ \A r \in refreshes : r.new # n
    BY <1>3 DEF TokensInv, IssuedOK, RequestsOK, RequestOK, ReasonsInv, PresentedOK
<1>11. AnswersAreNew'
    <2> SUFFICES ASSUME NEW r \in refreshes', r.stage = "renewed"
                 PROVE  /\ jar.refresh # r.new
                        /\ \A t \in Tabs : <<t, r.new>> \notin presented
                        /\ \A s \in refreshes' : s.stage = "renewed" /\ s.new = r.new => s = r
                        /\ tokens'[r.new].live \/ Over(r.new)'
        BY <1>1 DEF AnswersAreNew
    <2>1. \A s \in refreshes' : s.stage = "renewed" => s = new \/ s \in refreshes
        BY <1>1 DEF StepFacts
    <2>2. CASE r = new
        BY <1>2, <1>6, <1>10, <2>1, <2>2
    <2>3. CASE r \in refreshes /\ r # new
        <3>1. /\ jar.refresh # r.new /\ (\A t \in Tabs : <<t, r.new>> \notin presented)
              /\ \A s \in refreshes : s.stage = "renewed" /\ s.new = r.new => s = r
              /\ tokens[r.new].live \/ Over(r.new)
            BY <2>3 DEF ReasonsInv, AnswersAreNew
        <3>2. r.new # n /\ r.new \in 1..Len(tokens)
            BY <1>10, <2>3 DEF TokensInv, RequestsOK, RequestOK
        <3>3. r.new # q.token
            BY <1>2, <3>1 DEF ReasonsInv, RequestsAreKnown
        <3>4. Over(r.new) => Over(r.new)'
            BY <1>7, <3>2, OverStays DEF ReasonsInv
        <3> QED BY <1>2, <1>6, <2>1, <3>1, <3>2, <3>3, <3>4
    <2> QED BY <2>1, <2>2, <2>3
<1>12. DeathsHaveACause'
    <2>1. ASSUME NEW k \in DOMAIN tokens, tokens[k].live
          PROVE  tokens'[k].live \/ k \in orphaned' \/ Over(k)' \/ \E t \in Tabs : RenewedBy(t, k)'
        <3>1. CASE k # q.token
            BY <1>3, <1>6, <2>1, <3>1
        <3>2. CASE k = q.token /\ ~q.heard
            BY <1>1, <3>2 DEF ReasonsInv, RequestsAreKnown
        <3>3. CASE k = q.token /\ q.heard
            <4>1. <<q.tab, k>> \in presented'
                BY <1>1, <3>3 DEF ReasonsInv, RequestsAreKnown
            <4>2. new \in Of(q.tab)' /\ new.token = k
                BY <1>1, <1>2, <3>3 DEF Of, Sent, StepFacts
            <4>3. \A x \in Of(q.tab)' : x = new
                BY <1>1, <3>3 DEF Of, Sent, StepFacts, ReasonsInv, HeardOnce
            <4>4. RenewedBy(q.tab, k)'
                BY <1>2, <4>1, <4>2, <4>3 DEF RenewedBy
            <4> QED BY <1>2, <4>4
        <3> QED BY <3>1, <3>2, <3>3
    <2>2. \A k \in DOMAIN tokens' \ DOMAIN tokens : tokens'[k].live
        BY <1>3, <1>6
    <2>3. \A k \in DOMAIN tokens : \A t \in Tabs : RenewedBy(t, k) => k \in orphaned' \/ RenewedBy(t, k)'
        BY <1>2, <1>9
    <2> QED BY <1>7, <2>1, <2>2, <2>3, CausesStand
<1>13. CookiesAreGood'
    <2>1. \A k \in DOMAIN tokens : tokens[k].live =>
              tokens'[k].live \/ k \in orphaned' \/ Over(k)' \/ \E r \in refreshes' : r.token = k
        BY <1>3, <1>6, <1>9
    <2> QED BY <1>1, <1>7, <1>9, <2>1, CookiesStand
<1>14. AlarmsExplained'
    BY <1>1, <1>7, AlarmsStand
<1> QED BY <1>9, <1>11, <1>12, <1>13, <1>14 DEF ReasonsInv

\* A revocation: what it kills belongs to a session that it ends.
LEMMA EndingReasons ==
    ASSUME TokensInv, ReasonsInv, NEW fams, Revoke(fams), ended' = ended \cup fams,
           UNCHANGED <<alarms, presented, refreshing, refreshes, jar, orphaned>>
    PROVE  ReasonsInv'
<1>1. /\ Len(tokens') = Len(tokens) /\ DOMAIN tokens' = DOMAIN tokens
      /\ \A i \in 1..Len(tokens) : tokens'[i].fam = tokens[i].fam
      /\ Len(tokens) \in Nat /\ DOMAIN tokens = 1..Len(tokens)
    BY RevokeEnds, TokensAreIssued DEF TokensInv
<1>2. \A i \in 1..Len(tokens) : tokens[i].fam \notin fams => tokens'[i] = tokens[i]
    BY <1>1 DEF Revoke, OfFamily
<1>3. Grows
    BY <1>1 DEF Grows
<1>4. \A k \in DOMAIN tokens : tokens[k].live => tokens'[k].live \/ Over(k)'
    BY <1>1, <1>2 DEF Over
<1> QED BY <1>1, <1>3, <1>4, RequestsStand

\* Each action in turn.
LEMMA ReasonsStep == ASSUME TokensInv, FlagsOK, ReasonsInv, [Next]_vars PROVE ReasonsInv'
<1>1. ASSUME UNCHANGED <<tokens, ended, alarms, presented, refreshing, refreshes, orphaned>>,
             jar'.refresh \in {0, jar.refresh}, jar'.csrf => jar.csrf /\ jar'.refresh = jar.refresh
      PROVE  ReasonsInv'
    BY <1>1, SameTokensGrow, RequestsStand
<1>2. ASSUME NEW t \in Tabs, Load(t) PROVE ReasonsInv'
    BY <1>2, LoadReasons
<1>3. ASSUME NEW t \in Tabs, SignIn(t) PROVE ReasonsInv'
    BY <1>3, SignInReasons
<1>4. ASSUME NEW t \in Tabs, Leave(t) PROVE ReasonsInv'
    BY <1>1, <1>4 DEF Leave, server
<1>5. ASSUME NEW t \in Tabs, ServeLeaving(t) PROVE ReasonsInv'
    BY <1>5, EndingReasons DEF ServeLeaving, pages
<1>6. ASSUME NEW t \in Tabs, Left(t) PROVE ReasonsInv'
    <2>1. jar \in [refresh : 0..Len(tokens), csrf : BOOLEAN]
        BY DEF TokensInv, IssuedOK
    <2>2. jar' = [refresh |-> 0, csrf |-> FALSE] \/ jar' = [jar EXCEPT !.csrf = FALSE]
        BY <1>6 DEF Left
    <2>3. jar'.refresh \in {0, jar.refresh} /\ ~jar'.csrf
        BY <2>1, <2>2
    <2> QED BY <1>1, <1>6, <2>3 DEF Left, server
<1>7. ASSUME NEW c \in Slots, Call(c) \/ Serve(c) \/ Deny(c) \/ onUnauthorized(c) PROVE ReasonsInv'
    BY <1>1, <1>7 DEF Call, Serve, Deny, onUnauthorized, server
<1>8. ASSUME NEW c \in Slots, Join(c) PROVE ReasonsInv'
    BY <1>8, JoinReasons
<1>9. ASSUME NEW r \in refreshes, Consume(r) PROVE ReasonsInv'
    BY <1>9, ConsumeReasons
<1>10. ASSUME NEW r \in refreshes, Reused(r) PROVE ReasonsInv'
    BY <1>10, ReusedReasons
<1>11. ASSUME NEW r \in refreshes, Rotate(r) PROVE ReasonsInv'
    BY <1>11, RotateReasons
<1>12. ASSUME NEW r \in refreshes, Renewed(r) \/ Refused(r) PROVE ReasonsInv'
    BY <1>12, AnswerReasons
<1>13. ASSUME NEW r \in refreshes, Lose(r) PROVE ReasonsInv'
    BY <1>13, LoseReasons
<1>14. ASSUME NEW i \in DOMAIN tokens, Lapse(i) PROVE ReasonsInv'
    <2>1. /\ tokens' = [tokens EXCEPT ![i].lapsed = TRUE]
          /\ UNCHANGED <<ended, alarms, presented, refreshing, refreshes, jar, orphaned>>
        BY <1>14 DEF Lapse, pages
    <2>2. /\ Len(tokens) \in Nat /\ DOMAIN tokens = 1..Len(tokens) /\ tokens \in Seq(Tokens)
          /\ \A k \in 1..Len(tokens) : tokens[k] \in Tokens
        BY TokensAreIssued DEF TokensInv, IssuedOK
    <2>3. tokens' = [k \in 1..Len(tokens) |-> IF k = i THEN [tokens[k] EXCEPT !.lapsed = TRUE] ELSE tokens[k]]
        BY <2>1, <2>2
    <2>4. \A k \in 1..Len(tokens) :
              tokens'[k] \in Tokens /\ tokens'[k].fam = tokens[k].fam /\ tokens'[k].live = tokens[k].live
        BY <2>2, <2>3 DEF Tokens
    <2>5. Len(tokens') = Len(tokens) /\ DOMAIN tokens' = 1..Len(tokens)
        BY <2>2, <2>3, <2>4
    <2>6. Grows
        BY <2>1, <2>2, <2>4, <2>5 DEF Grows
    <2> QED BY <2>1, <2>2, <2>4, <2>5, <2>6, RequestsStand
<1>15. CASE RevokeAll
    BY <1>15, EndingReasons DEF RevokeAll, pages
<1>16. CASE UNCHANGED vars
    BY <1>1, <1>16 DEF vars, server, pages
<1> QED BY <1>2, <1>3, <1>4, <1>5, <1>6, <1>7, <1>8, <1>9, <1>10, <1>11, <1>12, <1>13, <1>14, <1>15, <1>16
        DEF Next

\* At first there is one token, alive, and the cookie names it.
LEMMA FirstReasons == Init => ReasonsInv
<1> SUFFICES ASSUME Init PROVE ReasonsInv
    OBVIOUS
<1>1. /\ tokens = <<Issue(1, 0)>> /\ jar = [refresh |-> 1, csrf |-> TRUE]
      /\ refreshes = {} /\ alarms = {} /\ presented = {}
    BY DEF Init
<1>2. DOMAIN tokens = {1} /\ tokens[1].live
    BY <1>1 DEF Issue
<1>3. PresentedOK /\ HeardOnce /\ RequestsAreKnown /\ AnswersAreNew /\ AlarmsExplained
    BY <1>1, FS_EmptySet DEF PresentedOK, HeardOnce, RequestsAreKnown, AnswersAreNew, AlarmsExplained
<1>4. DeathsHaveACause /\ CookiesAreGood
    BY <1>1, <1>2 DEF DeathsHaveACause, CookiesAreGood
<1> QED BY <1>3, <1>4 DEF ReasonsInv

\* Two tabs that presented a token are more than one.
LEMMA TwoTabs ==
    ASSUME PresentedOK, NEW k, Twice(k)
    PROVE  Cardinality({t \in Tabs : <<t, k>> \in presented}) > 1
<1> DEFINE who == {t \in Tabs : <<t, k>> \in presented}
           f   == [p \in presented |-> p[1]]
<1>1. PICK t \in who, u \in who : t # u
    BY DEF Twice
<1>2. IsFiniteSet({f[p] : p \in presented})
    <2>1. f \in Surjection(presented, {f[p] : p \in presented})
        BY DEF Surjection
    <2> QED BY <2>1, FS_Surjection DEF PresentedOK
<1>3. IsFiniteSet(who)
    <2>1. who \subseteq {f[p] : p \in presented}
        <3>1. ASSUME NEW v \in who
              PROVE  v \in {f[p] : p \in presented}
            <4>1. <<v, k>> \in presented /\ f[<<v, k>>] = v
                OBVIOUS
            <4> QED BY <4>1
        <3> QED BY <3>1
    <2> QED BY <1>2, <2>1, FS_Subset
<1> HIDE DEF who
<1>4. {t, u} \subseteq who /\ Cardinality({t, u}) = 2
    <2>1. IsFiniteSet({u}) /\ Cardinality({u}) = 1
        BY FS_Singleton
    <2>2. {t, u} = {u} \cup {t} /\ t \notin {u}
        BY <1>1
    <2>3. Cardinality({u} \cup {t}) = Cardinality({u}) + 1
        BY <2>1, <2>2, FS_AddElement
    <2> QED BY <1>1, <2>1, <2>2, <2>3
<1>5. Cardinality(who) \in Nat /\ Cardinality({t, u}) <= Cardinality(who)
    BY <1>3, <1>4, FS_CardinalityType, FS_Subset
<1> QED BY <1>4, <1>5 DEF who

\* Every state has its reasons.
THEOREM ReasonsHold == Spec => []ReasonsInv
<1>1. Init => ReasonsInv
    BY FirstReasons
<1>2. TokensInv /\ SignedOutInv /\ ReasonsInv /\ [Next]_vars => ReasonsInv'
    BY ReasonsStep DEF SignedOutInv
<1> QED BY <1>1, <1>2, TokensAreSound, PagesAreRight, PTL DEF Spec

\* One page alone never sounds the alarm of reuse: two tabs refreshed at the same time, an answer was lost, or
\* the session was over.
THEOREM NoFalseAlarm == Spec => []AlarmsHaveAReason
<1>1. ReasonsInv => AlarmsHaveAReason
    BY TwoTabs DEF ReasonsInv, AlarmsExplained, AlarmsHaveAReason
<1> QED BY <1>1, ReasonsHold, PTL

\* A browser with the cookies of a session can renew it, or there is a reason why not.
THEOREM CookiesStayGood == Spec => []CookiesAreGood
<1>1. ReasonsInv => CookiesAreGood
    BY DEF ReasonsInv
<1> QED BY <1>1, ReasonsHold, PTL

(***************************************************************************)
(* A session is a chain: the tokens as Rotation tells of them.             *)
(***************************************************************************)
Families == [i \in DOMAIN tokens |-> tokens[i].fam]
LiveOnes == {i \in DOMAIN tokens : tokens[i].live}

\* What the pages, the cookies and the answers do changes no chain.
LEMMA ChainsStand ==
    ASSUME UNCHANGED <<tokens, ended, alarms>>, Held' = Held
    PROVE  UNCHANGED Chained!rotationVars
BY DEF Chained!rotationVars

\* What a page leaves behind holds the rows it held.
LEMMA AbandonedHold ==
    ASSUME NEW rs \in SUBSET refreshes, RequestsOK
    PROVE  {r.token : r \in {x \in Abandon(rs) : x.stage = "holds"}} = {r.token : r \in {x \in rs : x.stage = "holds"}}
<1>1. ASSUME NEW r \in Abandon(rs), r.stage = "holds"
      PROVE  \E q \in rs : q.stage = "holds" /\ q.token = r.token
    BY <1>1, AbandonedOK
<1>2. ASSUME NEW q \in rs, q.stage = "holds"
      PROVE  \E r \in Abandon(rs) : r.stage = "holds" /\ r.token = q.token
    <2>1. PICK r : r = [q EXCEPT !.heard = FALSE]
        OBVIOUS
    <2>2. r \in Abandon(rs)
        BY <1>2, <2>1 DEF Abandon, Unfinished
    <2>3. r.stage = q.stage /\ r.token = q.token
        BY <2>1 DEF RequestsOK, RequestOK
    <2> QED BY <1>2, <2>2, <2>3
<1> QED BY <1>1, <1>2

\* A token that is appended.
LEMMA AppendIs ==
    ASSUME NEW S, NEW s \in Seq(S), NEW e \in S
    PROVE  Append(s, e) = [i \in 1..(Len(s) + 1) |-> IF i = Len(s) + 1 THEN e ELSE s[i]]
<1>1. Len(s) \in Nat
    OBVIOUS
<1>2. PICK f : f = [i \in 1..(Len(s) + 1) |-> IF i = Len(s) + 1 THEN e ELSE s[i]]
    OBVIOUS
<1>3. DOMAIN f = 1..(Len(s) + 1) /\ \A i \in DOMAIN f : f[i] \in S
    BY <1>1, <1>2
<1>4. f \in Seq(S) /\ Len(f) = Len(s) + 1
    BY <1>1, <1>2, <1>3
<1>5. PICK g : g = Append(s, e)
    OBVIOUS
<1>6. g \in Seq(S) /\ Len(g) = Len(s) + 1 /\ \A i \in 1..(Len(s) + 1) : g[i] = f[i]
    BY <1>1, <1>2, <1>5
<1>7. f = g
    BY <1>1, <1>4, <1>6
<1> QED BY <1>2, <1>5, <1>7

\* The sessions of the tokens are a sequence as long as the tokens.
LEMMA FamiliesAre ==
    ASSUME IssuedOK
    PROVE  Families \in Seq(Nat) /\ Len(Families) = Len(tokens) /\ DOMAIN Families = DOMAIN tokens
<1>1. Len(tokens) \in Nat /\ DOMAIN tokens = 1..Len(tokens) /\ \A i \in 1..Len(tokens) : tokens[i].fam \in Nat
    BY TokensAreIssued
<1>2. PICK f : f = Families
    OBVIOUS
<1>3. f = [i \in 1..Len(tokens) |-> tokens[i].fam]
    BY <1>1, <1>2 DEF Families
<1>4. f \in Seq(Nat) /\ Len(f) = Len(tokens)
    BY <1>1, <1>3
<1> QED BY <1>1, <1>2, <1>3, <1>4 DEF Families

\* An issue is a link at the end of the list, for its own session.
LEMMA OneMoreLink ==
    ASSUME IssuedOK, IssuedOK', Len(tokens') = Len(tokens) + 1,
           \A i \in 1..Len(tokens) : tokens'[i].fam = tokens[i].fam
    PROVE  Families' = Append(Families, tokens'[Len(tokens) + 1].fam)
<1>1. /\ Len(tokens) \in Nat /\ DOMAIN tokens = 1..Len(tokens) /\ DOMAIN tokens' = 1..(Len(tokens) + 1)
      /\ tokens'[Len(tokens) + 1].fam \in Nat
    <2>1. Len(tokens) \in Nat /\ DOMAIN tokens = 1..Len(tokens)
        BY TokensAreIssued
    <2>2. /\ Len(tokens') \in Nat /\ DOMAIN tokens' = 1..Len(tokens')
          /\ \A i \in 1..Len(tokens') : tokens'[i] \in Tokens
        BY DEF IssuedOK
    <2>3. Len(tokens) + 1 \in 1..Len(tokens')
        BY <2>1
    <2>4. tokens'[Len(tokens) + 1] \in Tokens
        BY <2>2, <2>3
    <2> QED BY <2>1, <2>2, <2>4 DEF Tokens
<1>2. PICK e : e = tokens'[Len(tokens) + 1].fam
    OBVIOUS
<1>3. PICK f : f = Families
    OBVIOUS
<1>4. Append(f, e) = [i \in 1..(Len(tokens) + 1) |-> IF i = Len(tokens) + 1 THEN e ELSE f[i]]
    <2>1. f \in Seq(Nat) /\ Len(f) = Len(tokens) /\ e \in Nat
        BY <1>1, <1>2, <1>3, FamiliesAre
    <2> QED BY <2>1, AppendIs
<1>5. \A i \in 1..Len(tokens) : f[i] = tokens'[i].fam
    BY <1>1, <1>3 DEF Families
<1>6. Families' = [i \in 1..(Len(tokens) + 1) |-> tokens'[i].fam]
    BY <1>1 DEF Families
<1>7. \A i \in 1..(Len(tokens) + 1) : (IF i = Len(tokens) + 1 THEN e ELSE f[i]) = tokens'[i].fam
    BY <1>1, <1>2, <1>5
<1>8. Append(f, e) = Families'
    BY <1>4, <1>6, <1>7
<1> QED BY <1>2, <1>3, <1>8

\* The rows that are held, when the server goes on with a request.
LEMMA HeldBySteps ==
    ASSUME RowsAreLocked, NEW r \in refreshes, NEW new, new.token = r.token, refreshes' = Step(r, new)
    PROVE  /\ new.stage = "holds" => Held' = Held \cup {r.token}
           /\ r.stage = "holds" /\ new.stage # "holds" => Held' = Held \ {r.token}
           /\ r.stage # "holds" /\ new.stage # "holds" => Held' = Held
<1>1. \A x \in refreshes' : x = new \/ (x \in refreshes /\ x # r)
    BY DEF Step
<1>2. \A x \in refreshes : x # r => x \in refreshes'
    BY DEF Step
<1>3. CASE new.stage = "holds"
    <2>1. new \in refreshes'
        BY <1>3 DEF Step, Unfinished
    <2> QED BY <1>1, <1>2, <1>3, <2>1 DEF Held
<1>4. CASE r.stage = "holds" /\ new.stage # "holds"
    <2>1. \A x \in refreshes : x.stage = "holds" /\ x # r => x.token # r.token
        BY <1>4 DEF RowsAreLocked
    <2> QED BY <1>1, <1>2, <1>4, <2>1 DEF Held
<1>5. CASE r.stage # "holds" /\ new.stage # "holds"
    BY <1>1, <1>2, <1>5 DEF Held
<1> QED BY <1>3, <1>4, <1>5

\* A request that is sent holds nothing yet, and an answer no more.
LEMMA PagesHoldNothing ==
    ASSUME TokensInv, NEW t \in Tabs,
           \/ refreshes' = refreshes
           \/ jar.csrf /\ refreshes' = refreshes \cup {Refresh(t)}
           \/ \E r \in refreshes : r.stage # "holds" /\ refreshes' = refreshes \ {r}
           \/ \E rs \in SUBSET refreshes : refreshes' = (refreshes \ rs) \cup Abandon(rs)
           \/ \E rs \in SUBSET refreshes : refreshes' = (refreshes \ rs) \cup Abandon(rs) \cup {Refresh(t)}
    PROVE  Held' = Held
<1>1. Refresh(t).stage = "sent"
    BY DEF Refresh
<1>2. CASE refreshes' = refreshes
    BY <1>2 DEF Held
<1>3. CASE refreshes' = refreshes \cup {Refresh(t)}
    BY <1>1, <1>3 DEF Held
<1>4. ASSUME NEW r \in refreshes, r.stage # "holds", refreshes' = refreshes \ {r}
      PROVE  Held' = Held
    BY <1>4 DEF Held
<1>5. ASSUME NEW rs \in SUBSET refreshes,
             \/ refreshes' = (refreshes \ rs) \cup Abandon(rs)
             \/ refreshes' = (refreshes \ rs) \cup Abandon(rs) \cup {Refresh(t)}
      PROVE  Held' = Held
    <2> DEFINE H(xs) == {r.token : r \in {x \in xs : x.stage = "holds"}}
    <2>1. H(Abandon(rs)) = H(rs)
        BY AbandonedHold DEF TokensInv
    <2>2. H(refreshes') = H(refreshes \ rs) \cup H(Abandon(rs))
        BY <1>1, <1>5
    <2>3. H(refreshes) = H(refreshes \ rs) \cup H(rs)
        OBVIOUS
    <2>4. Held = H(refreshes) /\ Held' = H(refreshes')
        BY DEF Held
    <2> QED BY <2>1, <2>2, <2>3, <2>4
<1> QED BY <1>2, <1>3, <1>4, <1>5

\* The pages.
LEMMA PagesKeepChains ==
    ASSUME TokensInv,
           \/ \E t \in Tabs : Load(t) \/ Leave(t) \/ Left(t)
           \/ \E c \in Slots : Call(c) \/ Serve(c) \/ Deny(c) \/ Join(c) \/ onUnauthorized(c)
           \/ \E r \in refreshes : Renewed(r) \/ Refused(r) \/ Lose(r)
           \/ UNCHANGED vars
    PROVE  UNCHANGED Chained!rotationVars
<1>1. ASSUME NEW t \in Tabs, Load(t) PROVE UNCHANGED Chained!rotationVars
    <2>1. Of(t) \in SUBSET refreshes
        BY DEF Of, Sent
    <2>2. \/ refreshes' = (refreshes \ Of(t)) \cup Abandon(Of(t)) \cup {Refresh(t)}
          \/ refreshes' = (refreshes \ Of(t)) \cup Abandon(Of(t))
        BY <1>1 DEF Load
    <2>3. Held' = Held
        BY <2>1, <2>2, PagesHoldNothing
    <2> QED BY <1>1, <2>3, ChainsStand DEF Load
<1>2. ASSUME NEW t \in Tabs, Leave(t) \/ Left(t) PROVE UNCHANGED Chained!rotationVars
    <2>1. UNCHANGED <<tokens, ended, alarms, refreshes>>
        BY <1>2 DEF Leave, Left, server
    <2> QED BY <2>1, ChainsStand DEF Held
<1>3. ASSUME NEW c \in Slots, Call(c) \/ Serve(c) \/ Deny(c) \/ onUnauthorized(c)
      PROVE  UNCHANGED Chained!rotationVars
    <2>1. UNCHANGED <<tokens, ended, alarms, refreshes>>
        BY <1>3 DEF Call, Serve, Deny, onUnauthorized, server
    <2> QED BY <2>1, ChainsStand DEF Held
<1>4. ASSUME NEW c \in Slots, Join(c) PROVE UNCHANGED Chained!rotationVars
    <2>1. TabOf[c] \in Tabs
        BY SessionAssumption
    <2>2. refreshes' = refreshes \/ (jar.csrf /\ refreshes' = refreshes \cup {Refresh(TabOf[c])})
        BY <1>4 DEF Join, refreshAccessToken, SendRefresh
    <2>3. Held' = Held
        BY <2>1, <2>2, PagesHoldNothing
    <2> QED BY <1>4, <2>3, ChainsStand DEF Join
<1>5. ASSUME NEW r \in refreshes, Renewed(r) \/ Refused(r) PROVE UNCHANGED Chained!rotationVars
    <2>1. r.stage # "holds" /\ refreshes' = refreshes \ {r} /\ r.tab \in Tabs
        BY <1>5 DEF Renewed, Refused, Unrenewed, Settled, TokensInv, RequestsOK, RequestOK
    <2>2. Held' = Held
        BY <2>1, PagesHoldNothing
    <2> QED BY <1>5, <2>2, ChainsStand DEF Renewed, Refused, server
<1>6. ASSUME NEW r \in refreshes, Lose(r) PROVE UNCHANGED Chained!rotationVars
    <2>1. \/ refreshes' = (refreshes \ {r}) \cup Abandon({r})
          \/ r.stage # "holds" /\ refreshes' = refreshes \ {r}
        BY <1>6 DEF Lose
    <2>2. {r} \in SUBSET refreshes /\ r.tab \in Tabs
        BY DEF TokensInv, RequestsOK, RequestOK
    <2>3. Held' = Held
        BY <2>1, <2>2, PagesHoldNothing
    <2> QED BY <1>6, <2>3, ChainsStand DEF Lose, server
<1>7. CASE UNCHANGED vars
    BY <1>7, ChainsStand DEF vars, server, Held
<1> QED BY <1>1, <1>2, <1>3, <1>4, <1>5, <1>6, <1>7

\* A rotation begins.
LEMMA ConsumeTakes ==
    ASSUME TokensInv, NEW r \in refreshes, Consume(r)
    PROVE  Chained!Next
<1> DEFINE new == [r EXCEPT !.stage = "holds", !.tv = tv]
<1>1. /\ r.token \notin Held /\ tokens[r.token].live /\ refreshes' = Step(r, new)
      /\ UNCHANGED <<tokens, ended, alarms>>
    BY DEF Consume, server
<1>2. new.token = r.token /\ new.stage = "holds" /\ r.token \in DOMAIN tokens
    BY TokensAreIssued DEF TokensInv, RequestsOK, RequestOK
<1>3. Held' = Held \cup {r.token}
    <2> HIDE DEF new
    <2> QED BY <1>1, <1>2, HeldBySteps DEF TokensInv
<1>4. Chained!Take(r.token)
    BY <1>1, <1>2, <1>3 DEF Chained!Take
<1> QED BY <1>2, <1>4 DEF Chained!Next

\* It ends with the token replaced, whatever was revoked since.
LEMMA RotateReplaces ==
    ASSUME TokensInv, TokensInv', NEW r \in refreshes, Rotate(r)
    PROVE  Chained!Next
<1> DEFINE new  == [r EXCEPT !.stage = "renewed", !.new = Len(tokens) + 1]
           dead == [tokens EXCEPT ![r.token].live = FALSE]
           next == Issue(tokens[r.token].fam, r.tv)
<1>1. /\ r.stage = "holds" /\ tokens' = Append(dead, next) /\ refreshes' = Step(r, new)
      /\ UNCHANGED <<ended, alarms>>
    BY DEF Rotate
<1>2. /\ Len(tokens) \in Nat /\ DOMAIN tokens = 1..Len(tokens) /\ r.token \in 1..Len(tokens)
      /\ \A i \in 1..Len(tokens) : tokens[i] \in Tokens
      /\ tokens[r.token].live /\ r.tv \in Nat
    <2>1. r.token \in 1..Len(tokens) /\ r.tv \in Nat
        BY DEF TokensInv, RequestsOK, RequestOK
    <2>2. tokens[r.token].live
        BY <1>1 DEF TokensInv, RowsAreLocked
    <2> QED BY <2>1, <2>2, TokensAreIssued DEF TokensInv
<1>3. /\ dead \in Seq(Tokens) /\ Len(dead) = Len(tokens)
      /\ \A i \in 1..Len(tokens) :
            /\ dead[i].fam = tokens[i].fam
            /\ i # r.token => dead[i] = tokens[i]
            /\ i = r.token => ~dead[i].live
    <2>1. dead = [i \in 1..Len(tokens) |->
                    IF i = r.token THEN [tokens[i] EXCEPT !.live = FALSE] ELSE tokens[i]]
        BY <1>2
    <2>2. \A i \in 1..Len(tokens) :
              /\ dead[i] \in Tokens /\ dead[i].fam = tokens[i].fam
              /\ i # r.token => dead[i] = tokens[i]
              /\ i = r.token => ~dead[i].live
        BY <1>2, <2>1 DEF Tokens
    <2> HIDE DEF dead
    <2>3. dead \in Seq(Tokens) /\ Len(dead) = Len(tokens)
        BY <1>2, <2>1, <2>2
    <2> QED BY <2>2, <2>3
<1>4. next \in Tokens /\ next.fam = tokens[r.token].fam /\ next.live
    BY <1>2, IssueIsAToken DEF Issue, Tokens
<1>5. /\ Len(tokens') = Len(tokens) + 1 /\ DOMAIN tokens' = 1..(Len(tokens) + 1)
      /\ tokens'[Len(tokens) + 1] = next
      /\ \A i \in 1..Len(tokens) : tokens'[i] = dead[i]
    <2> HIDE DEF dead, next
    <2> QED BY <1>1, <1>2, <1>3, <1>4
<1>6. Families' = Append(Families, Families[r.token])
    <2>1. Families' = Append(Families, tokens'[Len(tokens) + 1].fam)
        BY <1>3, <1>5, OneMoreLink DEF TokensInv
    <2>2. tokens'[Len(tokens) + 1].fam = Families[r.token]
        BY <1>2, <1>4, <1>5 DEF Families
    <2> QED BY <2>1, <2>2
<1>7. LiveOnes' = (LiveOnes \ {r.token}) \cup {Len(Families) + 1}
    <2>1. Len(Families) = Len(tokens)
        BY FamiliesAre DEF TokensInv
    <2>2. \A i \in 1..Len(tokens) : i \in LiveOnes' <=> i \in LiveOnes /\ i # r.token
        <3> HIDE DEF dead, next
        <3>1. \A i \in 1..Len(tokens) : tokens'[i].live <=> tokens[i].live /\ i # r.token
            BY <1>3, <1>5
        <3>2. \A i \in 1..Len(tokens) : i \in DOMAIN tokens /\ i \in DOMAIN tokens'
            BY <1>2, <1>5
        <3> QED BY <3>1, <3>2 DEF LiveOnes
    <2>3. Len(tokens) + 1 \in LiveOnes'
        BY <1>2, <1>4, <1>5 DEF LiveOnes
    <2>4. LiveOnes \subseteq 1..Len(tokens) /\ LiveOnes' \subseteq 1..(Len(tokens) + 1)
        BY <1>2, <1>5 DEF LiveOnes
    <2>5. \A i \in 1..(Len(tokens) + 1) : i \in 1..Len(tokens) \/ i = Len(tokens) + 1
        BY <1>2
    <2> QED BY <1>2, <2>1, <2>2, <2>3, <2>4, <2>5
<1>8. Held' = Held \ {r.token}
    <2>1. new.token = r.token /\ new.stage # "holds"
        BY DEF TokensInv, RequestsOK, RequestOK
    <2> HIDE DEF new
    <2> QED BY <1>1, <2>1, HeldBySteps DEF TokensInv
<1>9. r.token \in LiveOnes \cap Held
    BY <1>1, <1>2 DEF LiveOnes, Held
<1>10. Chained!Replace(r.token)
    BY <1>1, <1>6, <1>7, <1>8, <1>9 DEF Chained!Replace, Chained!IssueFor, Families, LiveOnes
<1> QED BY <1>2, <1>10 DEF Chained!Next

\* Signing in begins a chain.
LEMMA SignInBegins ==
    ASSUME TokensInv, TokensInv', NEW t \in Tabs, SignIn(t)
    PROVE  Chained!Next
<1> DEFINE next == Issue(Len(tokens) + 1, tv)
<1>1. tokens' = Append(tokens, next) /\ UNCHANGED <<ended, alarms, refreshes>>
    BY DEF SignIn
<1>2. tokens \in Seq(Tokens) /\ Len(tokens) \in Nat /\ DOMAIN tokens = 1..Len(tokens)
    BY TokensAreIssued DEF TokensInv, IssuedOK
<1>3. next \in Tokens /\ next.fam = Len(tokens) + 1 /\ next.live
    <2>1. Len(tokens) + 1 \in Nat \ {0} /\ tv \in Nat
        BY <1>2 DEF TokensInv, IssuedOK
    <2> QED BY <2>1, IssueIsAToken DEF Issue
<1>4. /\ Len(tokens') = Len(tokens) + 1 /\ DOMAIN tokens' = 1..(Len(tokens) + 1)
      /\ tokens'[Len(tokens) + 1] = next /\ \A i \in 1..Len(tokens) : tokens'[i] = tokens[i]
    <2> HIDE DEF next
    <2> QED BY <1>1, <1>2, <1>3
<1>5. Len(Families) = Len(tokens)
    BY FamiliesAre DEF TokensInv
<1>6. Families' = Append(Families, Len(Families) + 1)
    <2>1. Families' = Append(Families, tokens'[Len(tokens) + 1].fam)
        BY <1>4, OneMoreLink DEF TokensInv
    <2>2. tokens'[Len(tokens) + 1].fam = Len(Families) + 1
        BY <1>3, <1>4, <1>5
    <2> QED BY <2>1, <2>2
<1>7. LiveOnes' = LiveOnes \cup {Len(Families) + 1}
    <2>1. \A i \in 1..Len(tokens) : i \in LiveOnes' <=> i \in LiveOnes
        BY <1>2, <1>4 DEF LiveOnes
    <2>2. Len(tokens) + 1 \in LiveOnes'
        BY <1>2, <1>3, <1>4 DEF LiveOnes
    <2>3. LiveOnes \subseteq 1..Len(tokens) /\ LiveOnes' \subseteq 1..(Len(tokens) + 1)
        BY <1>2, <1>4 DEF LiveOnes
    <2>4. \A i \in 1..(Len(tokens) + 1) : i \in 1..Len(tokens) \/ i = Len(tokens) + 1
        BY <1>2
    <2> QED BY <1>2, <1>5, <2>1, <2>2, <2>3, <2>4
<1>8. Held' = Held
    BY <1>1 DEF Held
<1>9. Chained!Begin
    BY <1>1, <1>6, <1>7, <1>8 DEF Chained!Begin, Chained!IssueFor, Families, LiveOnes
<1> QED BY <1>9 DEF Chained!Next

\* A revocation ends what is live of its sessions and is not being renewed.
LEMMA RevokingEnds ==
    ASSUME TokensInv, NEW fams, Revoke(fams), Held' = Held
    PROVE  Chained!End(fams)
<1>1. DOMAIN tokens = 1..Len(tokens) /\ \A i \in 1..Len(tokens) : tokens[i] \in Tokens
    BY TokensAreIssued DEF TokensInv
<1>2. /\ DOMAIN tokens' = DOMAIN tokens
      /\ \A i \in 1..Len(tokens) :
            /\ tokens'[i].fam = tokens[i].fam
            /\ tokens'[i].live <=> tokens[i].live /\ (tokens[i].fam \in fams => i \in Held)
    <2>1. tokens' = [i \in 1..Len(tokens) |->
                       IF i \in OfFamily(fams) \ Held THEN [tokens[i] EXCEPT !.live = FALSE] ELSE tokens[i]]
        BY <1>1 DEF Revoke
    <2>2. \A i \in 1..Len(tokens) : i \in OfFamily(fams) <=> tokens[i].fam \in fams
        BY <1>1 DEF OfFamily
    <2> QED BY <1>1, <2>1, <2>2 DEF Tokens
<1>3. Families' = Families
    BY <1>1, <1>2 DEF Families
<1>4. LiveOnes' = {i \in LiveOnes : Families[i] \in fams => i \in Held}
    BY <1>1, <1>2 DEF LiveOnes, Families
<1> QED BY <1>3, <1>4 DEF Chained!End, Families, LiveOnes

\* A token that is presented dead ends its chain.
LEMMA ReuseEnds ==
    ASSUME TokensInv, NEW r \in refreshes, Reused(r)
    PROVE  Chained!Next
<1> DEFINE new == [r EXCEPT !.stage = "refused"]
<1>1. /\ r.stage = "sent" /\ ~tokens[r.token].live /\ Revoke({tokens[r.token].fam})
      /\ alarms' = alarms \cup {r.token} /\ refreshes' = Step(r, new) /\ ended' = ended
    BY DEF Reused
<1>2. r.token \in DOMAIN tokens /\ new.token = r.token /\ new.stage = "refused"
    BY TokensAreIssued DEF TokensInv, RequestsOK, RequestOK
<1>3. Held' = Held
    <2> HIDE DEF new
    <2> QED BY <1>1, <1>2, HeldBySteps DEF TokensInv
<1>4. PICK fam : fam = tokens[r.token].fam
    OBVIOUS
<1>5. Chained!End({fam})
    <2> HIDE DEF new
    <2> QED BY <1>1, <1>3, <1>4, RevokingEnds
<1>6. Families[r.token] = fam /\ r.token \notin LiveOnes
    BY <1>1, <1>2, <1>4 DEF Families, LiveOnes
<1>7. Chained!Reuse(r.token)
    <2>1. Chained!End({Families[r.token]})
        BY <1>5, <1>6, Zenon DEF Chained!End
    <2>2. r.token \notin LiveOnes /\ alarms' = alarms \cup {r.token} /\ ended' = ended
        BY <1>1, <1>6
    <2> QED BY <2>1, <2>2, Zenon DEF Chained!Reuse, Families, LiveOnes
<1> QED BY <1>2, <1>7 DEF Chained!Next

\* A sign-out ends one chain, and a password change all of them.
LEMMA SessionsEnd ==
    ASSUME TokensInv, RevokeAll \/ \E t \in Tabs : ServeLeaving(t)
    PROVE  Chained!Next
<1>1. PICK fams \in SUBSET {tokens[i].fam : i \in DOMAIN tokens} :
          Revoke(fams) /\ ended' = ended \cup fams /\ UNCHANGED <<alarms, refreshes>>
    <2>1. ASSUME NEW t \in Tabs, ServeLeaving(t)
          PROVE  tokens[leaving[t].token].fam \in {tokens[i].fam : i \in DOMAIN tokens}
        <3>1. leaving[t].token \in 1..Len(tokens)
            BY <2>1, TokensAreIssued DEF ServeLeaving, TokensInv, LeavingOK
        <3> QED BY <3>1, TokensAreIssued DEF TokensInv
    <2> QED BY <2>1 DEF RevokeAll, ServeLeaving
<1>2. Held' = Held
    BY <1>1 DEF Held
<1>3. Chained!End(fams)
    BY <1>1, <1>2, RevokingEnds
<1>4. Chained!Revoke(fams)
    BY <1>1, <1>3 DEF Chained!Revoke
<1>5. {tokens[i].fam : i \in DOMAIN tokens} = {Families[i] : i \in DOMAIN Families}
    BY DEF Families
<1> QED BY <1>4, <1>5 DEF Chained!Next, Families

\* An access token that lapses is no link of a chain.
LEMMA LapsesKeepChains ==
    ASSUME TokensInv, NEW i \in DOMAIN tokens, Lapse(i)
    PROVE  UNCHANGED Chained!rotationVars
<1>1. tokens' = [tokens EXCEPT ![i].lapsed = TRUE] /\ UNCHANGED <<ended, alarms, refreshes>>
    BY DEF Lapse
<1>2. DOMAIN tokens = 1..Len(tokens) /\ \A j \in 1..Len(tokens) : tokens[j] \in Tokens
    BY TokensAreIssued DEF TokensInv
<1>3. /\ DOMAIN tokens' = DOMAIN tokens
      /\ \A j \in DOMAIN tokens : tokens'[j].fam = tokens[j].fam /\ tokens'[j].live = tokens[j].live
    BY <1>1, <1>2 DEF Tokens
<1>4. Families' = Families /\ LiveOnes' = LiveOnes
    BY <1>3 DEF Families, LiveOnes
<1>5. Held' = Held
    BY <1>1 DEF Held
<1> QED BY <1>1, <1>4, <1>5 DEF Chained!rotationVars, Families, LiveOnes

\* Every step of the tokens is one of the chains, or none.
LEMMA StepsAreChained ==
    ASSUME TokensInv, [Next]_vars
    PROVE  [Chained!Next]_Chained!rotationVars
<1>1. TokensInv'
    BY TokensStep
<1>2. ASSUME NEW i \in DOMAIN tokens, Lapse(i) PROVE UNCHANGED Chained!rotationVars
    BY <1>2, LapsesKeepChains
<1>3. ASSUME NEW t \in Tabs, SignIn(t) PROVE Chained!Next
    BY <1>1, <1>3, SignInBegins
<1>4. ASSUME NEW r \in refreshes, Consume(r) \/ Reused(r) \/ Rotate(r) PROVE Chained!Next
    BY <1>1, <1>4, ConsumeTakes, ReuseEnds, RotateReplaces
<1> QED BY <1>2, <1>3, <1>4, PagesKeepChains, SessionsEnd DEF Next

\* A session is a chain with one end, for any numbers of tabs and calls, and whatever is lost, loaded anew
\* or revoked between the two steps of a rotation: the tokens implement Rotation.
THEOREM SessionsStayChains == Spec => SessionsAreChains
<1>1. Init => Chained!Init
    <2> SUFFICES ASSUME Init PROVE Chained!Init
        OBVIOUS
    <2>1. tokens = <<Issue(1, 0)>> /\ refreshes = {} /\ alarms = {} /\ ended = {}
        BY DEF Init
    <2>2. DOMAIN tokens = {1} /\ tokens[1].fam = 1 /\ tokens[1].live
        BY <2>1 DEF Issue
    <2>3. Families = <<1>> /\ LiveOnes = {1}
        BY <2>2 DEF Families, LiveOnes
    <2>4. Held = {}
        BY <2>1 DEF Held
    <2> QED BY <2>1, <2>3, <2>4 DEF Chained!Init, Families, LiveOnes
<1>2. TokensInv /\ [Next]_vars => [Chained!Next]_Chained!rotationVars
    BY StepsAreChained
<1> QED BY <1>1, <1>2, TokensAreSound, PTL DEF Spec, SessionsAreChains, Chained!Spec

(***************************************************************************)
(* Nobody is stuck: the safety half of WaitingEnds.  A call that waits has *)
(* a refresh of its page that will be heard, and the server can answer it, *)
(* at the latest when the rotation that holds its row is through.          *)
(***************************************************************************)
WaitersShareARefresh ==
    /\ calls = [c \in Slots |-> calls[c]]
    /\ \A c \in Slots : calls[c].at = "waits" => refreshing[TabOf[c]]

\* A request with which the server, or the page that hears of it, can go on.
CanGoOn(r) ==
    \/ r.stage = "sent" /\ r.token \notin Held
    \/ r.stage = "holds"
    \/ r.stage \in {"renewed", "refused"} /\ r.heard

\* Either it can go on, or it waits for one that can.
Moves(r) == CanGoOn(r) \/ \E q \in refreshes : q.token = r.token /\ CanGoOn(q)

NobodyIsStuck == \A t \in Tabs : Waiting(t) # {} => \E r \in Of(t) : Moves(r)

\* A call that goes on without a refresh.
LEMMA PutWaits ==
    ASSUME WaitersShareARefresh, NEW c \in Slots, NEW at, NEW with, Put(c, at, with), at # "waits",
           refreshing' = refreshing
    PROVE  WaitersShareARefresh'
<1>1. calls' = [d \in Slots |-> IF d = c THEN [at |-> at, with |-> with] ELSE calls[d]]
    BY DEF WaitersShareARefresh, Put
<1> QED BY <1>1 DEF WaitersShareARefresh

\* A refresh that is heard, or given up, leaves no call waiting for it.
LEMMA WakingLeavesNobody ==
    ASSUME FlagsOK, WaitersShareARefresh, NEW t \in Tabs, NEW call, call.at # "waits", Wake(t, call),
           refreshing' = [refreshing EXCEPT ![t] = FALSE]
    PROVE  WaitersShareARefresh'
<1>1. calls' = [c \in Slots |-> IF c \in Waiting(t) THEN call ELSE calls[c]]
    BY DEF Wake
<1>2. ASSUME NEW c \in Slots, calls'[c].at = "waits"
      PROVE  refreshing'[TabOf[c]]
    <2>1. c \notin Waiting(t) /\ calls[c].at = "waits"
        BY <1>1, <1>2
    <2>2. TabOf[c] # t /\ TabOf[c] \in Tabs /\ refreshing[TabOf[c]]
        BY <2>1, SessionAssumption DEF Waiting, WaitersShareARefresh
    <2> QED BY <2>2 DEF FlagsOK
<1> QED BY <1>1, <1>2 DEF WaitersShareARefresh

\* Each action in turn.
LEMMA WaitersStep ==
    ASSUME TokensInv, FlagsOK, WaitersShareARefresh, [Next]_vars
    PROVE  WaitersShareARefresh'
<1>1. ASSUME UNCHANGED <<calls, refreshing>> PROVE WaitersShareARefresh'
    BY <1>1 DEF WaitersShareARefresh
<1>2. ASSUME NEW t \in Tabs, SignIn(t) \/ Leave(t) \/ ServeLeaving(t) \/ Left(t) PROVE WaitersShareARefresh'
    BY <1>1, <1>2 DEF SignIn, Leave, ServeLeaving, Left, pages
<1>3. ASSUME NEW r \in refreshes, Consume(r) \/ Reused(r) \/ Rotate(r) PROVE WaitersShareARefresh'
    BY <1>1, <1>3 DEF Consume, Reused, Rotate, pages
<1>4. ASSUME (\E i \in DOMAIN tokens : Lapse(i)) \/ RevokeAll \/ UNCHANGED vars PROVE WaitersShareARefresh'
    BY <1>1, <1>4 DEF Lapse, RevokeAll, pages, vars
<1>5. ASSUME NEW c \in Slots, Call(c) \/ Serve(c) \/ onUnauthorized(c) PROVE WaitersShareARefresh'
    BY <1>5, PutWaits DEF Call, Serve, onUnauthorized
<1>6. ASSUME NEW c \in Slots, Deny(c) PROVE WaitersShareARefresh'
    BY <1>6, PutWaits DEF Deny
<1>7. ASSUME NEW c \in Slots, Join(c) PROVE WaitersShareARefresh'
    <2>1. calls' = [d \in Slots |-> IF d = c THEN [at |-> "waits", with |-> calls[c].with] ELSE calls[d]]
        BY <1>7 DEF Join, Put, WaitersShareARefresh
    <2>2. /\ TabOf[c] \in Tabs
          /\ \/ refreshing[TabOf[c]] /\ refreshing' = refreshing
             \/ refreshing' = [refreshing EXCEPT ![TabOf[c]] = TRUE]
        BY <1>7, SessionAssumption DEF Join, refreshAccessToken, SendRefresh
    <2>3. \A d \in Slots : calls[d].at = "waits" \/ d = c => refreshing'[TabOf[d]]
        BY <2>2, SessionAssumption DEF WaitersShareARefresh, FlagsOK
    <2> QED BY <2>1, <2>3 DEF WaitersShareARefresh
<1>8. ASSUME NEW t \in Tabs, Load(t) PROVE WaitersShareARefresh'
    <2>1. calls' = [c \in Slots |-> IF TabOf[c] = t THEN NoCall ELSE calls[c]]
        BY <1>8 DEF Load
    <2>2. \E b \in BOOLEAN : refreshing' = [refreshing EXCEPT ![t] = b]
        BY <1>8 DEF Load
    <2>3. NoCall.at # "waits"
        BY DEF NoCall
    <2>4. \A c \in Slots : calls'[c].at = "waits" => TabOf[c] # t /\ calls[c].at = "waits" /\ TabOf[c] \in Tabs
        BY <2>1, <2>3, SessionAssumption
    <2> QED BY <2>1, <2>2, <2>4 DEF WaitersShareARefresh, FlagsOK
<1>9. ASSUME NEW r \in refreshes, Renewed(r) \/ Refused(r) \/ Lose(r) PROVE WaitersShareARefresh'
    <2>1. r.tab \in Tabs
        BY DEF TokensInv, RequestsOK, RequestOK
    <2>2. PICK call : call.at # "waits" /\ Wake(r.tab, call)
        BY <1>9 DEF Renewed, Refused, Unrenewed, Lose, NoCall
    <2>3. refreshing' = [refreshing EXCEPT ![r.tab] = FALSE]
        BY <1>9 DEF Renewed, Refused, Unrenewed, Settled, Lose
    <2> QED BY <2>1, <2>2, <2>3, WakingLeavesNobody
<1> QED BY <1>2, <1>3, <1>4, <1>5, <1>6, <1>7, <1>8, <1>9 DEF Next

\* Whatever is under way can go on, or waits for a row that is held, and whoever holds it can.
LEMMA RequestsMove ==
    ASSUME TokensInv, NEW r \in refreshes, r.heard
    PROVE  Moves(r)
<1>1. r.stage \in Stages
    BY DEF TokensInv, RequestsOK, RequestOK
<1>2. CASE r.stage = "sent" /\ r.token \in Held
    BY <1>2 DEF Moves, CanGoOn, Held
<1> QED BY <1>1, <1>2 DEF Moves, CanGoOn, Stages

\* No page waits for nothing: its calls that wait for a refresh have one that will be heard, and there is
\* always a step of the server or of the page that brings its answer nearer.
THEOREM WaitersAreNeverStuck == Spec => []NobodyIsStuck
<1>1. Init => WaitersShareARefresh
    <2> SUFFICES ASSUME Init PROVE WaitersShareARefresh
        OBVIOUS
    <2>1. calls = [c \in Slots |-> NoCall] /\ NoCall.at # "waits"
        BY DEF Init, NoCall
    <2> QED BY <2>1 DEF WaitersShareARefresh
<1>2. TokensInv /\ SignedOutInv /\ WaitersShareARefresh /\ [Next]_vars => WaitersShareARefresh'
    BY WaitersStep DEF SignedOutInv
<1>3. TokensInv /\ SignedOutInv /\ WaitersShareARefresh => NobodyIsStuck
    <2> SUFFICES ASSUME TokensInv, SignedOutInv, WaitersShareARefresh, NEW t \in Tabs, Waiting(t) # {}
                 PROVE  \E r \in Of(t) : Moves(r)
        BY DEF NobodyIsStuck
    <2>1. refreshing[t]
        BY DEF Waiting, WaitersShareARefresh
    <2>2. PICK r \in refreshes : r.tab = t /\ r.heard
        BY <2>1 DEF SignedOutInv, PagesAreHeard
    <2> QED BY <2>2, RequestsMove DEF Of, Sent
<1> QED BY <1>1, <1>2, <1>3, TokensAreSound, PagesAreRight, PTL DEF Spec
=============================================================================
