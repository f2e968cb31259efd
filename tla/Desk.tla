-------------------------------- MODULE Desk --------------------------------
(***************************************************************************)
(* A person at a page: what the page shows of a record, the form opened on *)
(* it, the key of the submission, the requests under way and the server    *)
(* that answers them, while others change the record.                      *)
(*                                                                         *)
(* A reading and a submission are requests of their own and overtake one   *)
(* another.  A request is given up after its time; the server may take it  *)
(* all the same.  A dialog outlives the button that opened it.             *)
(***************************************************************************)
EXTENDS Screens

CONSTANTS Kinds,         \* the kinds of records of this run
          Cast,          \* the people who may sit at the page
          MaxOpenings,   \* how often a form is opened
          MaxTries,      \* how often one form is submitted
          MaxElsewhere,  \* how often others move the record
          MaxFaults,     \* how many readings and answers are lost
          None

ASSUME DeskAssumption ==
    /\ Kinds \subseteq AllKinds
    /\ Cast \subseteq People
    /\ {MaxOpenings, MaxTries, MaxElsewhere, MaxFaults} \subseteq Nat
    /\ None \notin [status : STRING, by : {Nobody} \cup People, version : Nat] \cup (Nat \X Nat)

VARIABLES kind, me,  \* the page: the kind of its record, and who sits there
          srv,       \* the record, at the server
          shown,     \* the record, on the page
          fetch,     \* the reading under way
          trouble,   \* the page says that it could not be read
          form,      \* the open form
          key,       \* its submission key, if it holds one: the payload it was made for, and the key
          opened,    \* forms opened so far
          marked,    \* this visit has marked its order as viewed
          wire,      \* submissions under way
          kept,      \* keys the server has completed, with what it made
          acted,     \* submissions the server has carried out
          seen,      \* the newest version the page was told of by an answer
          elsewhere, faults

vars == <<kind, me, srv, shown, fetch, trouble, form, key, opened, marked, wire, kept, acted, seen,
          elsewhere, faults>>
page    == <<shown, fetch, trouble, seen>>
dialog  == <<form, key, opened, marked>>
server  == <<srv, kept, acted>>
budgets == <<elsewhere, faults>>

NoKey == [held |-> FALSE, payload |-> None, id |-> None]

Idle == [at |-> "idle", rec |-> None]
Sent == [at |-> "sent", rec |-> None]
Read(r) == [at |-> "answered", rec |-> r]

StartingRecords(k) == [status : StatusesOf(k), by : By(k), version : {0}]

\* Who has something to do on a page of this kind.
Workers(k) == {u \in Cast : \E r \in StartingRecords(k) : Offers(k, u, r) # {}}

Init ==
    /\ kind \in Kinds
    /\ me \in Workers(kind)
    /\ srv \in {r \in StartingRecords(kind) : Readable(kind, me, r)}
    /\ shown = None /\ fetch = Sent /\ trouble = FALSE /\ seen = 0
    /\ form = None /\ key = NoKey /\ opened = 0 /\ marked = FALSE
    /\ wire = {} /\ kept = << >> /\ acted = {}
    /\ elsewhere = 0 /\ faults = 0

\* Mutant of Poll: a page that could not be read is not read again.
PollUntilTrouble ==
    /\ kind \in Polled /\ fetch.at = "idle" /\ ~trouble
    /\ fetch' = Sent
    /\ UNCHANGED <<kind, me, shown, trouble, seen, dialog, server, wire, budgets>>

(***************************************************************************)
(* Reading.  A reading that begins cancels the one under way; what arrives *)
(* is shown, whatever the page shows by then.  A panel belongs to one      *)
(* version: another version makes another panel, with nothing filled in.   *)
(***************************************************************************)
Poll ==
    /\ kind \in Polled /\ fetch.at = "idle"
    /\ fetch' = Sent
    /\ UNCHANGED <<kind, me, shown, trouble, seen, dialog, server, wire, budgets>>

\* Leaving the page and coming back to it.
Revisit ==
    /\ kind \notin Polled /\ fetch.at = "idle" /\ form = None
    /\ fetch' = Sent
    /\ UNCHANGED <<kind, me, shown, trouble, seen, dialog, server, wire, budgets>>

ServeGet ==
    /\ fetch.at = "sent"
    /\ IF Readable(kind, me, srv)
       THEN fetch' = Read(srv) /\ UNCHANGED trouble
       ELSE fetch' = Idle /\ trouble' = TRUE
    /\ UNCHANGED <<kind, me, shown, seen, dialog, server, wire, budgets>>

Remounted(f, r) == f # None /\ Sends(kind, f.act).version = "panel" /\ f.on.version # r.version

Arrive ==
    /\ fetch.at = "answered"
    /\ shown' = fetch.rec /\ fetch' = Idle /\ trouble' = FALSE
    /\ IF Remounted(form, fetch.rec) THEN form' = None /\ key' = NoKey ELSE UNCHANGED <<form, key>>
    /\ UNCHANGED <<kind, me, seen, opened, marked, server, wire, budgets>>

FetchFails ==
    /\ fetch.at # "idle" /\ faults < MaxFaults
    /\ fetch' = Idle /\ trouble' = TRUE /\ faults' = faults + 1
    /\ UNCHANGED <<kind, me, shown, seen, dialog, server, wire, elsewhere>>

(***************************************************************************)
(* Submitting.                                                             *)
(***************************************************************************)
Decide ==
    /\ shown # None /\ form = None /\ opened < MaxOpenings
    /\ \E act \in Offers(kind, me, shown) \ {"mark-viewed"} :
          form' = [n |-> opened + 1, act |-> act, on |-> shown, tries |-> 0, turn |-> 0, sent |-> None]
    /\ opened' = opened + 1
    /\ UNCHANGED <<kind, me, page, key, marked, server, wire, budgets>>

\* A form that is left takes its key with it; what it has sent stays sent.
Close ==
    /\ form # None
    /\ form' = None /\ key' = NoKey
    /\ UNCHANGED <<kind, me, page, opened, marked, server, wire, budgets>>

Versioned(act) == Sends(kind, act).version # "none"

\* The record a submission is about: the one of the panel or of the row, or the one on the page.
Basis(f) == IF Sends(kind, f.act).version \in {"panel", "row"} THEN f.on ELSE shown

\* Mutant of Saying: the version is always that of the page.
SayingOfPage(f, in) ==
    [act |-> f.act, in |-> in, version |-> IF Versioned(f.act) THEN shown.version ELSE 0]

\* What a submission says: the act, what was filled in, and the version it is meant for.
Saying(f, in) ==
    [act |-> f.act, in |-> in, version |-> IF Versioned(f.act) THEN Basis(f).version ELSE 0]

\* Its payload may tell the time of the submission as well, and is another one at every try.
Stamp(f) == IF Sends(kind, f.act).stamped THEN f.tries + 1 ELSE 0

\* Submissions of a form that say the same one after the other are one turn.
Turn(f, say) == IF f.sent = say THEN f.turn ELSE f.turn + 1

\* Mutant of forPayload: every try makes a key of its own.
freshKey(f, say) ==
    [held |-> TRUE, payload |-> [say |-> say, at |-> Stamp(f)], id |-> <<f.n, f.tries + 1>>]

\* The key of a submission is kept for as long as its payload stays the same.
forPayload(f, say) ==
    LET payload == [say |-> say, at |-> Stamp(f)]
    IN IF key.held /\ key.payload = payload THEN key
       ELSE [held |-> TRUE, payload |-> payload, id |-> <<f.n, f.tries + 1>>]

Request(n, try, turn, say, on, id) ==
    [n |-> n, try |-> try, turn |-> turn, say |-> say, on |-> on, id |-> id,
     stage |-> "out", found |-> None, result |-> None, awaited |-> TRUE]

Submit ==
    /\ form # None /\ form.tries < MaxTries
    /\ ~ \E q \in wire : q.awaited /\ q.n = form.n
    /\ Sends(kind, form.act).quiet => fetch.at = "idle"
    /\ \E in \in Inputs(kind, me, Basis(form), form.act) :
          LET say   == Saying(form, in)
              keyed == Sends(kind, form.act).keyed
          IN /\ key' = IF keyed THEN forPayload(form, say) ELSE NoKey
             /\ wire' = wire \cup {Request(form.n, form.tries + 1, Turn(form, say), say, Basis(form),
                                           IF keyed THEN forPayload(form, say).id ELSE None)}
             /\ form' = [form EXCEPT !.tries = @ + 1, !.turn = Turn(form, say), !.sent = say]
    /\ UNCHANGED <<kind, me, page, opened, marked, server, budgets>>

\* The page of a new order marks it as viewed by itself, once in a visit.
MarkViewed ==
    /\ kind = "order" /\ shown # None /\ ~marked /\ MarksViewed(me, shown)
    /\ ~ \E q \in wire : q.n = 0
    /\ marked' = TRUE
    /\ wire' = wire \cup {Request(0, 1, 1, [act |-> "mark-viewed", in |-> "-", version |-> 0],
                                  shown, None)}
    /\ UNCHANGED <<kind, me, page, form, key, opened, server, budgets>>

(***************************************************************************)
(* The server: a key it has completed is answered with what it made then;  *)
(* a version that is not the record's is refused, and so is an act the     *)
(* record does not take.  Nothing is kept of a refusal.                    *)
(***************************************************************************)
Answer(q, stage, found, result) ==
    (wire \ {q}) \cup
        If(q.awaited, {[q EXCEPT !.stage = stage, !.found = found, !.result = result]})

CurrentVersion(q) == Versioned(q.say.act) => q.say.version = srv.version

Taken(q) == If(CurrentVersion(q), Takes(kind, me, srv, q.say.act, q.say.in))

Replay(q) ==
    /\ q.stage = "out" /\ q.id \in DOMAIN kept
    /\ wire' = Answer(q, "done", kept[q.id].found, kept[q.id].result)
    /\ UNCHANGED <<kind, me, page, dialog, server, budgets>>

Perform(q) ==
    /\ q.stage = "out" /\ q.id \notin DOMAIN kept
    /\ \E r \in Taken(q) :
          /\ srv' = r
          /\ wire' = Answer(q, "done", srv, r)
          /\ kept' = IF q.id = None THEN kept
                     ELSE [id \in DOMAIN kept \cup {q.id} |->
                             IF id = q.id THEN [found |-> srv, result |-> r] ELSE kept[id]]
    /\ acted' = acted \cup {[n |-> q.n, try |-> q.try, turn |-> q.turn, say |-> q.say, id |-> q.id]}
    /\ UNCHANGED <<kind, me, page, dialog, budgets>>

Refuse(q) ==
    /\ q.stage = "out" /\ q.id \notin DOMAIN kept /\ Taken(q) = {}
    /\ wire' = Answer(q, "refused", srv, None)
    /\ UNCHANGED <<kind, me, page, dialog, server, budgets>>

(***************************************************************************)
(* The answer.  A success completes the key, closes the form and has the   *)
(* page read again or adopt the answer, even when the form is gone; after  *)
(* a refusal the form stays as it is, and a profile is read again.         *)
(***************************************************************************)
Later(a, b) == IF a > b THEN a ELSE b
After(q) == Sends(kind, q.say.act).after

OfOpenForm(q) == form # None /\ form.n = q.n

\* Mutant of refetched: a reading under way is left to arrive.
refetchedUnlessReading == IF fetch.at = "idle" THEN Sent ELSE fetch

\* A success begins a reading of its own: one that was under way may have been read before.
refetched == Sent

Succeeded(q) ==
    /\ q.awaited /\ q.stage = "done"
    /\ wire' = wire \ {q}
    /\ seen' = Later(seen, q.result.version)
    /\ IF OfOpenForm(q) THEN form' = None /\ key' = NoKey ELSE UNCHANGED <<form, key>>
    /\ shown' = IF After(q) \in {"adopt", "both"} THEN q.result ELSE shown
    /\ fetch' = IF After(q) # "adopt" THEN refetched ELSE fetch
    /\ UNCHANGED <<kind, me, trouble, opened, marked, server, budgets>>

\* A profile that has been changed meanwhile is read again.
RereadsOnConflict(q) == kind = "profile" /\ Versioned(q.say.act) /\ q.say.version # q.found.version

Refused(q) ==
    /\ q.awaited /\ q.stage = "refused"
    /\ wire' = wire \ {q}
    /\ fetch' = IF RereadsOnConflict(q) THEN refetched ELSE fetch
    /\ UNCHANGED <<kind, me, shown, trouble, seen, dialog, server, budgets>>

\* The page stops waiting: the request, or its answer, is lost, or the server has yet to take it.
GiveUp(q) ==
    /\ q.awaited /\ faults < MaxFaults
    /\ faults' = faults + 1
    /\ \/ wire' = wire \ {q}
       \/ q.stage = "out" /\ wire' = (wire \ {q}) \cup {[q EXCEPT !.awaited = FALSE]}
    /\ UNCHANGED <<kind, me, page, dialog, server, elsewhere>>

\* Somebody else acts on the record, or it moves by itself.
MovedBy(u, act) == UNION {Takes(kind, u, srv, act, in) : in \in Inputs(kind, u, srv, act)}
MovedByOthers ==
    Events(kind, srv) \cup UNION {UNION {MovedBy(u, act) : act \in Offers(kind, u, srv)} : u \in Cast}

Elsewhere ==
    /\ elsewhere < MaxElsewhere
    /\ \E r \in MovedByOthers : srv' = r
    /\ elsewhere' = elsewhere + 1
    /\ UNCHANGED <<kind, me, page, dialog, wire, kept, acted, faults>>

Next ==
    \/ Poll \/ Revisit \/ ServeGet \/ Arrive \/ FetchFails
    \/ Decide \/ Close \/ Submit \/ MarkViewed
    \/ \E q \in wire : Replay(q)
    \/ \E q \in wire : Perform(q)
    \/ \E q \in wire : Refuse(q)
    \/ \E q \in wire : Succeeded(q)
    \/ \E q \in wire : Refused(q)
    \/ \E q \in wire : GiveUp(q)
    \/ Elsewhere

Spec == Init /\ [][Next]_vars

\* A page that reads by itself keeps reading, and what it asks is answered.
FairSpec == Spec /\ WF_vars(Poll) /\ WF_vars(ServeGet) /\ WF_vars(Arrive)

(***************************************************************************)
(* Properties.                                                             *)
(***************************************************************************)

\* Acts a page offers on a record although the server refuses them.
\*  - A second return while one is open; a dispute turned into a return of more than is left, or beside an
\*    open one; a credit for a payment, which has no order to hold it against; approving nothing.
\*  - A refund beyond the unapplied credit, approved or made by an owner.
\*  - Terms, or a price, of the past; a second partnership with the same partner.
\*  - The start of an empty run; keeping a stop that is on its way already.
\*  - A count below the reservations, a loss of more than there is or of an inactive product.
\*  - Another base unit for a product in use; a category switched off over products or active children;
\*    a parent for a category with children, and the inactive parent it has.
\*  - A price over a future one, and one in a list that is not active.
\*  - Blocking a superadmin; an organization's present status, and the suspension of a blocked one.
\*  - A second invitation of the same address.
KnownRefusal(k, u, r, act, in) ==
    \/ k = "order return" /\ act = "return" /\ has_open(r)
    \/ k = "order dispute" /\ in \in futileConversions
    \/ k = "payment dispute" /\ in = "ADJUSTMENT_CREDIT"
    \/ k = "return" /\ act = "approve" /\ in = "nothing"
    \/ in = "beyond the credit" /\ (k = "adjustment" \/ (k = "adjustment form" /\ u.role = "OWNER"))
    \/ k \in {"new partner", "partner", "terms", "price"} /\ in = "too early"
    \/ k = "new partner" /\ r.status \in living
    \/ k = "run" /\ r.status = "EMPTY" /\ act = "start"
    \/ k = "run" /\ r.status = "LEFT" /\ act = "edit" /\ in # "a"
    \/ k = "stock" /\ (in \in futileLosses \/ (r.status = "HELD" /\ in = "into the reserved"))
    \/ k = "product" /\ in = "another base unit"
    \/ k = "category" /\ act = "toggle" /\ r.status \in notEmpty
    \/ k = "category" /\ act = "edit" /\ ~validate_parent(r, in)
    \/ k = "price" /\ act = "price" /\ r.status \in withFuture \cup {"CLOSED"}
    \/ k = "user" /\ act = "block" /\ r.status = "SUPERADMIN"
    \/ k = "organization" /\ act = "activate" /\ r.status \notin {"SUSPENDED", "BLOCKED"}
    \/ k = "organization" /\ act = "suspend" /\ r.status # "ACTIVE"
    \/ k = "organization" /\ act = "block" /\ r.status \notin {"ACTIVE", "SUSPENDED"}
    \/ k = "invitation" /\ act = "invite" /\ r.status \in {"PENDING", "JOINED"}

\* Acts offered without asking whether the company's subscription still allows them.
Unwarned(k, u, act) ==
    \/ ~Allowed(u, "NEW_ORDER") /\ <<k, act>> \in {<<"cart", "checkout">>, <<"on behalf", "create">>}
    \/ ~Allowed(u, "PARTNERSHIP_NEW")
       /\ <<k, act>> \in {<<"new partner", "request">>} \cup {"partner"} \X accepting
    \/ ~Allowed(u, "CATALOG_WRITE") /\ k = "partner" /\ act \in {"reactivate", "code"}
    \/ ~Allowed(u, "ORDER_FULFILLMENT") /\ <<k, act>> \in {<<"delivery", "dispatch">>, <<"run", "start">>}
    \/ ~subscriptionAllowed(u) /\ k = "inbox" /\ act = "accept"

\* Acts offered without asking whether the company's plan has room for one more active product, member or
\* store, or whether both organizations of a partnership are verified.
Hindered(k, u, r, act, in) ==
    \/ ~RoomForOne(u)
       /\ \/ k = "product" /\ in = "ACTIVE" /\ r.status # "ACTIVE"
          \/ IsCompany(u) /\ <<k, act>> \in {<<"member", "reactivate">>, <<"inbox", "accept">>}
          \/ k = "partner" /\ act \in accepting
    \/ ~NotOver(u) /\ k = "partner" /\ act = "reactivate"
    \/ ~u.verified /\ k = "partner" /\ act \in accepting \cup {"reactivate"}

Excepted(k, u, r, act, in) ==
    KnownRefusal(k, u, r, act, in) \/ Unwarned(k, u, act) \/ Hindered(k, u, r, act, in)

\* The page has nothing under way and shows the record as it is.
AtRest == shown = srv /\ fetch = Idle /\ form = None /\ wire = {}

\* What a page at rest offers, and its form lets through, the server accepts, but for the acts named above,
\* and those it refuses: whoever looks, whatever the subscription and the plan of the company allow, and
\* whether or not it is verified.  (The rules of the buttons are written in the pages, those of the acts in
\* the services: two tables kept in step by hand.  Every organization is active here, and what is typed in
\* is in order but where Inputs says otherwise: codes are free, amounts and quantities within bounds.)
OfferedIsAccepted ==
    AtRest =>
        \A u \in {x \in People : Readable(kind, x, srv)} :
            \A act \in Offers(kind, u, srv) : \A in \in Inputs(kind, u, srv, act) :
                Takes(kind, u, srv, act, in) # {} <=> ~Excepted(kind, u, srv, act, in)

\* A member who may not see the verification of the company can open its page all the same.
AsksInVain(u, q) == q = "verification" /\ ~Has(u, "verification.view")

\* Whoever opens a page at rest, it asks the server only for what the server lets that person read, but
\* for the page named above.  (What a page reads beside its record, for a tab, a picker or a preview, is
\* guarded in the page; who may read it is decided in the services of other modules.)
AsksOnlyWhatItMay ==
    AtRest =>
        \A u \in {x \in People : Readable(kind, x, srv)} : \A q \in PageAsks(kind, u, srv) :
            MayRead(u, q) \/ AsksInVain(u, q)

\* Removing a stop of a draft run leaves the version of the run, and a product that joins or leaves a
\* category that of the category: an editor saves over it.
EditedUnderfoot(q) == (kind = "run" /\ q.say.act = "edit") \/ kind = "category"

\* A decision sent with a version is carried out on the very record it was taken on: the one its panel
\* or row was of, or the one on the page when the button was pressed, whatever has arrived since.
DecidedOnWhatWasShown ==
    \A q \in wire :
        q.stage = "done" /\ Versioned(q.say.act) /\ ~EditedUnderfoot(q) => q.found = q.on

\* Two carryings-out of what a form said without saying anything else in between.
SameTurn(a, b) == a.n = b.n /\ a.turn = b.turn

\* An unchanged submission is carried out once, however often its button is pressed before an answer
\* comes: for every act that sends a key, unless its payload tells the time.
KeyedActsOnce ==
    \A a, b \in acted :
        SameTurn(a, b) /\ Sends(kind, a.say.act).keyed /\ ~Sends(kind, a.say.act).stamped => a = b

\* A page never rests on a record older than one an answer has told it of: it is reading, or says that
\* it could not.  (Not of the pages that adopt an answer, and of an order
\* marked as viewed: there an older reading may arrive after the answer.)
AdoptOnly == {"verification", "review", "user", "organization", "profile"}
NeverRestsOnThePast ==
    /\ kind \notin AdoptOnly /\ ~marked
    /\ shown # None /\ fetch.at = "idle" /\ ~trouble
    => shown.version >= seen

\* A page that reads by itself ends up showing the record as it is, once that has come to rest, in
\* spite of the readings that were lost or overtaken and of the answers the page adopted.
PageCatchesUp == kind \in Polled => <>[](shown = srv \/ ~Readable(kind, me, srv))
=============================================================================
