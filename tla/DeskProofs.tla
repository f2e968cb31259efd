----------------------------- MODULE DeskProofs -----------------------------
(***************************************************************************)
(* An unchanged submission is carried out once, a decision meets the       *)
(* record it was taken on, and a page never rests on what is past: for any *)
(* kinds of records, any people, and any numbers of forms, tries, losses   *)
(* and changes.                                                            *)
(*                                                                         *)
(* Once: submissions of a form that say the same one after the other share *)
(* a key, because the form keeps the key of its last payload while it is   *)
(* open; no other form makes that key; and the server carries out nothing  *)
(* under a key it keeps.                                                   *)
(*                                                                         *)
(* On its record: whatever is done to a record leaves it or makes a new    *)
(* version of it, so a version names one record, at the page, in a request *)
(* and under a key; and an answer was found on the version it names.       *)
(*                                                                         *)
(* In step: what the pages ask for and offer is within what the server     *)
(* lets be read and done, seat by seat, for whatever state of the record.  *)
(***************************************************************************)
EXTENDS Desk, TLAPS

\* What a submission said, on its way or carried out.
Fields(x) == [n |-> x.n, try |-> x.try, turn |-> x.turn, say |-> x.say, id |-> x.id]
Said == {Fields(q) : q \in wire} \cup acted

\* Submissions of which a repetition has the same payload.
Repeats(x) == Sends(kind, x.say.act).keyed /\ ~Sends(kind, x.say.act).stamped

MarkSaid == [act |-> "mark-viewed", in |-> "-", version |-> 0]

RequestFields == {"n", "try", "turn", "say", "on", "id", "stage", "found", "result", "awaited"}

Shapes ==
    /\ \A q \in wire : DOMAIN q = RequestFields
    /\ form # None => DOMAIN form = {"n", "act", "on", "tries", "turn", "sent"}

\* Forms are numbered, and so are the turns of a form.
Counted ==
    /\ opened \in Nat
    /\ form # None => form.n = opened /\ form.n >= 1 /\ form.tries \in Nat /\ form.turn \in Nat
    /\ \A x \in Said : x.n \in 0..opened /\ x.turn \in Nat

\* The open form remembers what its last turn said, and its key is that turn's.
TurnIsKept ==
    form # None =>
        \A x \in Said : x.n = form.n =>
            /\ x.turn <= form.turn
            /\ x.turn = form.turn =>
                  /\ x.say = form.sent
                  /\ Repeats(x) => key.held /\ key.payload = [say |-> x.say, at |-> 0] /\ key.id = x.id

\* What no form said is the mark of a viewed order.
MarksAreKeyless == \A x \in Said : x.n = 0 => kind = "order" /\ x.say = MarkSaid /\ x.id = None

KeysOfTurns ==
    /\ key.held => key.id # None
    /\ \A x \in Said : Repeats(x) => x.id # None
    /\ \A x, y \in Said : SameTurn(x, y) => x.say = y.say /\ (Repeats(x) => x.id = y.id)

SayInv == Counted /\ TurnIsKept /\ MarksAreKeyless /\ KeysOfTurns

\* The server keeps the key of what it has carried out, and carries out nothing under a key it keeps.
KeyIsKept ==
    /\ \A a \in acted : a.id # None => a.id \in DOMAIN kept
    /\ \A a, b \in acted : a.id # None /\ a.id = b.id => a = b

DeskInv == Shapes /\ SayInv /\ KeyIsKept

(***************************************************************************)
(* The sayings survive a step that adds none and keeps or closes the form. *)
(***************************************************************************)
LEMMA SayingsSurvive ==
    ASSUME SayInv, kind' = kind, opened' = opened, Said' \subseteq Said,
           (form' = form /\ key' = key) \/ (form' = None /\ key' = NoKey)
    PROVE  SayInv'
<1>1. Counted'
    BY DEF SayInv, Counted
<1>2. TurnIsKept'
    BY DEF SayInv, TurnIsKept, Repeats
<1>3. MarksAreKeyless'
    BY DEF SayInv, MarksAreKeyless
<1>4. KeysOfTurns'
    BY DEF SayInv, KeysOfTurns, Repeats, SameTurn, NoKey
<1> QED BY <1>1, <1>2, <1>3, <1>4 DEF SayInv

(***************************************************************************)
(* A request that is answered, given up or forgotten says what it said.    *)
(***************************************************************************)
LEMMA ForgettingKeeps ==
    ASSUME DeskInv, wire' \subseteq wire, kind' = kind, opened' = opened, acted' = acted, kept' = kept,
           (form' = form /\ key' = key) \/ (form' = None /\ key' = NoKey)
    PROVE  DeskInv'
<1>1. Said' \subseteq Said
    BY DEF Said, Fields
<1>2. SayInv'
    BY <1>1, SayingsSurvive DEF DeskInv
<1>3. Shapes'
    BY DEF DeskInv, Shapes
<1>4. KeyIsKept'
    BY DEF DeskInv, KeyIsKept
<1> QED BY <1>2, <1>3, <1>4 DEF DeskInv

\* A request may be replaced by one that says the same.
LEMMA RewritingKeeps ==
    ASSUME DeskInv, NEW q \in wire, NEW e, DOMAIN e = RequestFields, Fields(e) = Fields(q),
           wire' \subseteq wire \cup {e}, UNCHANGED <<kind, form, key, opened, acted, kept>>
    PROVE  DeskInv'
<1>1. Said' \subseteq Said
    BY DEF Said
<1>2. SayInv'
    BY <1>1, SayingsSurvive DEF DeskInv
<1>3. Shapes'
    BY DEF DeskInv, Shapes
<1>4. KeyIsKept'
    BY DEF DeskInv, KeyIsKept
<1> QED BY <1>2, <1>3, <1>4 DEF DeskInv

\* The server's answer replaces a request by one that says the same.
LEMMA AnsweredKeeps ==
    ASSUME DeskInv, NEW q \in wire, NEW stage, NEW found, NEW result,
           wire' = Answer(q, stage, found, result), UNCHANGED <<kind, form, key, opened, acted, kept>>
    PROVE  DeskInv'
<1> DEFINE e == [q EXCEPT !.stage = stage, !.found = found, !.result = result]
<1>1. DOMAIN q = RequestFields
    BY DEF DeskInv, Shapes
<1>2. DOMAIN e = RequestFields /\ Fields(e) = Fields(q)
    BY <1>1 DEF Fields, RequestFields
<1>3. wire' \subseteq wire \cup {e}
    BY DEF Answer, If
<1> QED BY <1>2, <1>3, RewritingKeeps

\* So does a page that stops waiting for it.
LEMMA AbandoningKeeps ==
    ASSUME DeskInv, NEW q \in wire, wire' = (wire \ {q}) \cup {[q EXCEPT !.awaited = FALSE]},
           UNCHANGED <<kind, form, key, opened, acted, kept>>
    PROVE  DeskInv'
<1> DEFINE e == [q EXCEPT !.awaited = FALSE]
<1>1. DOMAIN q = RequestFields
    BY DEF DeskInv, Shapes
<1>2. DOMAIN e = RequestFields /\ Fields(e) = Fields(q)
    BY <1>1 DEF Fields, RequestFields
<1> QED BY <1>2, RewritingKeeps

(***************************************************************************)
(* What is new to be said: the sayings stay what they are, one is added.   *)
(***************************************************************************)
LEMMA NewRequestShape ==
    ASSUME NEW n, NEW try, NEW turn, NEW say, NEW on, NEW id
    PROVE  /\ DOMAIN Request(n, try, turn, say, on, id) = RequestFields
           /\ Fields(Request(n, try, turn, say, on, id)) =
                 [n |-> n, try |-> try, turn |-> turn, say |-> say, id |-> id]
BY DEF Request, Fields, RequestFields

\* The mark of a viewed order is no form's, and has no key.
LEMMA MarkingKeeps == DeskInv /\ MarkViewed => DeskInv'
<1> SUFFICES ASSUME DeskInv, MarkViewed PROVE DeskInv'
    OBVIOUS
<1> DEFINE new == [n |-> 0, try |-> 1, turn |-> 1, say |-> MarkSaid, id |-> None]
<1>1. /\ kind = "order" /\ wire' = wire \cup {Request(0, 1, 1, MarkSaid, shown, None)}
      /\ UNCHANGED <<kind, form, key, opened, kept, acted>>
    BY DEF MarkViewed, MarkSaid, page, server, budgets
<1>2. Said' = Said \cup {new}
    BY <1>1, NewRequestShape DEF Said
<1>3. ~Repeats(new)
    <2>1. ~Sends("order", "mark-viewed").keyed
        BY DEF Sends, OrderSends, Blind, Sending
    <2> QED BY <1>1, <2>1 DEF Repeats, MarkSaid
<1>4. Counted'
    BY <1>1, <1>2 DEF DeskInv, SayInv, Counted
<1>5. TurnIsKept'
    <2>1. ASSUME form # None PROVE new.n # form.n
        BY <2>1 DEF DeskInv, SayInv, Counted
    <2>2. \A x : Repeats(x)' = Repeats(x)
        BY <1>1 DEF Repeats
    <2> QED BY <1>1, <1>2, <2>1, <2>2 DEF DeskInv, SayInv, TurnIsKept
<1>6. MarksAreKeyless'
    BY <1>1, <1>2 DEF DeskInv, SayInv, MarksAreKeyless
<1>7. KeysOfTurns'
    <2>1. \A x : Repeats(x)' = Repeats(x)
        BY <1>1 DEF Repeats
    <2>2. \A x \in Said : SameTurn(x, new) => x.say = MarkSaid /\ x.id = None
        BY DEF DeskInv, SayInv, MarksAreKeyless, SameTurn
    <2>3. \A x \in Said : SameTurn(new, x) => x.say = MarkSaid /\ x.id = None
        BY DEF DeskInv, SayInv, MarksAreKeyless, SameTurn
    <2> QED BY <1>1, <1>2, <1>3, <2>1, <2>2, <2>3 DEF DeskInv, SayInv, KeysOfTurns
<1>8. Shapes'
    BY <1>1, NewRequestShape DEF DeskInv, Shapes
<1>9. KeyIsKept'
    BY <1>1 DEF DeskInv, KeyIsKept
<1> QED BY <1>4, <1>5, <1>6, <1>7, <1>8, <1>9 DEF DeskInv, SayInv

\* A submission of the open form: what it says is of the form's turn, or begins the next one.
LEMMA SubmittingKeeps == DeskInv /\ Submit => DeskInv'
<1> SUFFICES ASSUME DeskInv, Submit PROVE DeskInv'
    OBVIOUS
<1>1. /\ form # None
      /\ UNCHANGED <<kind, opened, kept, acted>>
    BY DEF Submit, server, page
<1>2. PICK in \in Inputs(kind, me, Basis(form), form.act) :
        LET say   == Saying(form, in)
            keyed == Sends(kind, form.act).keyed
        IN /\ key' = IF keyed THEN forPayload(form, say) ELSE NoKey
           /\ wire' = wire \cup {Request(form.n, form.tries + 1, Turn(form, say), say, Basis(form),
                                         IF keyed THEN forPayload(form, say).id ELSE None)}
           /\ form' = [form EXCEPT !.tries = @ + 1, !.turn = Turn(form, say), !.sent = say]
    BY DEF Submit
<1> DEFINE say   == Saying(form, in)
           turn  == Turn(form, say)
           keyed == Sends(kind, form.act).keyed
           id    == IF keyed THEN forPayload(form, say).id ELSE None
           new   == [n |-> form.n, try |-> form.tries + 1, turn |-> turn, say |-> say, id |-> id]
<1>3. /\ opened \in Nat /\ form.n = opened /\ form.n >= 1 /\ form.tries \in Nat /\ form.turn \in Nat
      /\ DOMAIN form = {"n", "act", "on", "tries", "turn", "sent"}
    BY <1>1 DEF DeskInv, SayInv, Counted, Shapes
<1>4. Said' = Said \cup {new}
    BY <1>1, <1>2, NewRequestShape DEF Said
<1>5. /\ form'.n = form.n /\ form'.tries = form.tries + 1 /\ form'.turn = turn /\ form'.sent = say
      /\ DOMAIN form' = {"n", "act", "on", "tries", "turn", "sent"}
    BY <1>2, <1>3
<1>6. say.act = form.act
    BY DEF Saying
<1>7. turn \in Nat /\ (turn = form.turn \/ turn = form.turn + 1) /\ (turn = form.turn => say = form.sent)
    BY <1>3 DEF Turn
<1>8. \A x : Repeats(x)' = Repeats(x)
    BY <1>1 DEF Repeats
<1>9. ASSUME Repeats(new)
      PROVE  /\ keyed /\ key' = forPayload(form, say) /\ id = key'.id
             /\ key'.held /\ key'.payload = [say |-> say, at |-> 0] /\ id # None
             /\ key.held /\ key.payload = [say |-> say, at |-> 0] => key' = key
    <2>1. keyed /\ Stamp(form) = 0
        BY <1>6, <1>9 DEF Repeats, Stamp
    <2>2. key.held => key.id # None
        BY DEF DeskInv, SayInv, KeysOfTurns
    <2>3. <<form.n, form.tries + 1>> # None
        BY <1>3, DeskAssumption
    <2>4. forPayload(form, say) = IF key.held /\ key.payload = [say |-> say, at |-> 0] THEN key
                                  ELSE [held |-> TRUE, payload |-> [say |-> say, at |-> 0],
                                        id |-> <<form.n, form.tries + 1>>]
        BY <2>1 DEF forPayload
    <2> QED BY <1>2, <2>1, <2>2, <2>3, <2>4
<1>10. \A x \in Said : x.n = form.n /\ x.turn = turn =>
          x.say = say /\ Repeats(x) = Repeats(new) /\ (Repeats(x) => x.id = id)
    <2> SUFFICES ASSUME NEW x \in Said, x.n = form.n, x.turn = turn
                 PROVE  x.say = say /\ Repeats(x) = Repeats(new) /\ (Repeats(x) => x.id = id)
        OBVIOUS
    <2>1. x.turn <= form.turn /\ x.turn \in Nat
        BY <1>1 DEF DeskInv, SayInv, TurnIsKept, Counted
    <2>2. turn = form.turn
        BY <1>3, <1>7, <2>1
    <2>3. x.say = say
        BY <1>1, <1>7, <2>2 DEF DeskInv, SayInv, TurnIsKept
    <2>4. Repeats(x) = Repeats(new)
        BY <2>3 DEF Repeats
    <2>5. Repeats(x) => key.held /\ key.payload = [say |-> say, at |-> 0] /\ key.id = x.id
        BY <1>1, <2>2, <2>3 DEF DeskInv, SayInv, TurnIsKept
    <2> QED BY <1>9, <2>3, <2>4, <2>5
<1>11. Counted'
    BY <1>1, <1>3, <1>4, <1>5, <1>7 DEF DeskInv, SayInv, Counted
<1>12. TurnIsKept'
    <2> SUFFICES ASSUME NEW x \in Said', x.n = form'.n
                 PROVE  /\ x.turn <= form'.turn
                        /\ x.turn = form'.turn =>
                              /\ x.say = form'.sent
                              /\ Repeats(x) => key'.held /\ key'.payload = [say |-> x.say, at |-> 0]
                                               /\ key'.id = x.id
        BY <1>8 DEF TurnIsKept
    <2>1. CASE x = new
        BY <1>3, <1>5, <1>7, <1>9, <2>1
    <2>2. CASE x \in Said
        <3>1. x.turn <= form.turn /\ x.turn \in Nat
            BY <1>1, <1>5, <2>2 DEF DeskInv, SayInv, TurnIsKept, Counted
        <3>2. x.turn <= form'.turn
            BY <1>3, <1>5, <1>7, <3>1
        <3>3. x.turn = form'.turn => x.say = say /\ Repeats(x) = Repeats(new) /\ (Repeats(x) => x.id = id)
            BY <1>5, <1>10, <2>2
        <3> QED BY <1>5, <1>9, <3>2, <3>3
    <2> QED BY <1>4, <2>1, <2>2
<1>13. MarksAreKeyless'
    BY <1>1, <1>3, <1>4 DEF DeskInv, SayInv, MarksAreKeyless
<1>14. KeysOfTurns'
    <2>1. key'.held => key'.id # None
        <3>1. CASE ~keyed
            BY <1>2, <3>1 DEF NoKey
        <3>2. CASE keyed
            BY <1>2, <1>3, <3>2, DeskAssumption DEF forPayload, DeskInv, SayInv, KeysOfTurns
        <3> QED BY <3>1, <3>2
    <2>2. \A x \in Said' : Repeats(x) => x.id # None
        BY <1>4, <1>9 DEF DeskInv, SayInv, KeysOfTurns
    <2>3. \A x, y \in Said' : SameTurn(x, y) => x.say = y.say /\ (Repeats(x) => x.id = y.id)
        <3> SUFFICES ASSUME NEW x \in Said', NEW y \in Said', SameTurn(x, y)
                     PROVE  x.say = y.say /\ (Repeats(x) => x.id = y.id)
            OBVIOUS
        <3>1. CASE x \in Said /\ y \in Said
            BY <3>1 DEF DeskInv, SayInv, KeysOfTurns
        <3>2. CASE x \in Said /\ y = new
            BY <1>10, <3>2 DEF SameTurn
        <3>3. CASE x = new /\ y \in Said
            BY <1>10, <3>3 DEF SameTurn
        <3>4. CASE x = new /\ y = new
            BY <3>4
        <3> QED BY <1>4, <3>1, <3>2, <3>3, <3>4
    <2> QED BY <1>8, <2>1, <2>2, <2>3 DEF KeysOfTurns, SameTurn
<1>15. Shapes'
    BY <1>2, <1>5, NewRequestShape DEF DeskInv, Shapes
<1>16. KeyIsKept'
    BY <1>1 DEF DeskInv, KeyIsKept
<1> QED BY <1>11, <1>12, <1>13, <1>14, <1>15, <1>16 DEF DeskInv, SayInv

\* The server carries out what it keeps no key of, and keeps its key.
LEMMA PerformingKeeps == ASSUME DeskInv, NEW q \in wire, Perform(q) PROVE DeskInv'
<1> DEFINE did == [n |-> q.n, try |-> q.try, turn |-> q.turn, say |-> q.say, id |-> q.id]
<1>1. PICK r : /\ wire' = Answer(q, "done", srv, r)
               /\ kept' = IF q.id = None THEN kept
                          ELSE [id \in DOMAIN kept \cup {q.id} |->
                                  IF id = q.id THEN [found |-> srv, result |-> r] ELSE kept[id]]
    BY DEF Perform
<1>2. /\ q.id \notin DOMAIN kept /\ acted' = acted \cup {did}
      /\ UNCHANGED <<kind, form, key, opened>>
    BY DEF Perform, dialog
<1> DEFINE e == [q EXCEPT !.stage = "done", !.found = srv, !.result = r]
<1>3. \A x \in wire' : x \in wire \/ x = e
    BY <1>1 DEF Answer, If
<1>4. DOMAIN q = RequestFields
    BY DEF DeskInv, Shapes
<1>5. Fields(e) = Fields(q) /\ DOMAIN e = RequestFields
    BY <1>4 DEF Fields, RequestFields
<1>6. did \in Said
    BY DEF Said, Fields
<1>7. Said' \subseteq Said
    BY <1>2, <1>3, <1>5, <1>6 DEF Said
<1>8. SayInv'
    BY <1>2, <1>7, SayingsSurvive DEF DeskInv
<1>9. Shapes'
    BY <1>2, <1>3, <1>5 DEF DeskInv, Shapes
<1>10. KeyIsKept'
    <2>1. q.id # None => DOMAIN kept' = DOMAIN kept \cup {q.id}
        BY <1>1
    <2>2. DOMAIN kept \subseteq DOMAIN kept'
        BY <1>1
    <2>3. \A a \in acted : a.id # None => a.id # did.id
        BY <1>2 DEF DeskInv, KeyIsKept
    <2>4. \A a \in acted' : a.id # None => a.id \in DOMAIN kept'
        BY <1>2, <2>1, <2>2 DEF DeskInv, KeyIsKept
    <2>5. \A a, b \in acted' : a.id # None /\ a.id = b.id => a = b
        BY <1>2, <2>3 DEF DeskInv, KeyIsKept
    <2> QED BY <2>4, <2>5 DEF KeyIsKept
<1> QED BY <1>8, <1>9, <1>10 DEF DeskInv

\* Replays, refusals and the arrival of answers carry nothing out and say nothing new.
LEMMA OtherRequestStepsKeep ==
    ASSUME DeskInv, NEW q \in wire, Replay(q) \/ Refuse(q) \/ Succeeded(q) \/ Refused(q) \/ GiveUp(q)
    PROVE  DeskInv'
<1>1. CASE Replay(q)
    <2>1. /\ wire' = Answer(q, "done", kept[q.id].found, kept[q.id].result)
          /\ UNCHANGED <<kind, form, key, opened, acted, kept>>
        BY <1>1 DEF Replay, dialog, server
    <2> QED BY <2>1, AnsweredKeeps
<1>2. CASE Refuse(q)
    <2>1. wire' = Answer(q, "refused", srv, None) /\ UNCHANGED <<kind, form, key, opened, acted, kept>>
        BY <1>2 DEF Refuse, dialog, server
    <2> QED BY <2>1, AnsweredKeeps
<1>3. CASE Succeeded(q)
    <2>1. /\ wire' \subseteq wire
          /\ UNCHANGED <<kind, opened, acted, kept>>
          /\ (form' = form /\ key' = key) \/ (form' = None /\ key' = NoKey)
        BY <1>3 DEF Succeeded, server
    <2> QED BY <2>1, ForgettingKeeps
<1>4. CASE Refused(q)
    <2>1. wire' \subseteq wire /\ UNCHANGED <<kind, form, key, opened, acted, kept>>
        BY <1>4 DEF Refused, dialog, server
    <2> QED BY <2>1, ForgettingKeeps
<1>5. CASE GiveUp(q)
    <2>1. UNCHANGED <<kind, form, key, opened, acted, kept>>
        BY <1>5 DEF GiveUp, dialog, server
    <2>2. CASE wire' = wire \ {q}
        BY <2>1, <2>2, ForgettingKeeps
    <2>3. CASE wire' = (wire \ {q}) \cup {[q EXCEPT !.awaited = FALSE]}
        BY <2>1, <2>3, AbandoningKeeps
    <2> QED BY <1>5, <2>2, <2>3 DEF GiveUp
<1> QED BY <1>1, <1>2, <1>3, <1>4, <1>5

\* A form that is opened is a new one, of which nothing has been said.
LEMMA DecidingKeeps == DeskInv /\ Decide => DeskInv'
<1> SUFFICES ASSUME DeskInv, Decide PROVE DeskInv'
    OBVIOUS
<1>1. PICK act : form' = [n |-> opened + 1, act |-> act, on |-> shown, tries |-> 0, turn |-> 0, sent |-> None]
    BY DEF Decide
<1>2. opened' = opened + 1 /\ UNCHANGED <<kind, key, wire, acted, kept>>
    BY DEF Decide, server
<1>3. Said' = Said
    BY <1>2 DEF Said, Fields
<1>4. opened \in Nat /\ \A x \in Said : x.n \in 0..opened /\ x.turn \in Nat
    BY DEF DeskInv, SayInv, Counted
<1>5. \A x \in Said : x.n # form'.n
    BY <1>1, <1>4
<1>6. Counted'
    BY <1>1, <1>2, <1>3, <1>4 DEF Counted
<1>7. TurnIsKept'
    BY <1>3, <1>5 DEF TurnIsKept
<1>8. MarksAreKeyless'
    BY <1>2, <1>3 DEF DeskInv, SayInv, MarksAreKeyless
<1>9. KeysOfTurns'
    BY <1>2, <1>3 DEF DeskInv, SayInv, KeysOfTurns, Repeats, SameTurn
<1>10. Shapes'
    BY <1>1, <1>2 DEF DeskInv, Shapes
<1>11. KeyIsKept'
    BY <1>2 DEF DeskInv, KeyIsKept
<1> QED BY <1>6, <1>7, <1>8, <1>9, <1>10, <1>11 DEF DeskInv, SayInv

\* Every step, action by action.
LEMMA StepsKeep == DeskInv /\ [Next]_vars => DeskInv'
<1> SUFFICES ASSUME DeskInv, [Next]_vars PROVE DeskInv'
    OBVIOUS
<1>1. ASSUME Poll \/ Revisit \/ ServeGet \/ FetchFails \/ Elsewhere \/ UNCHANGED vars PROVE DeskInv'
    <2>1. wire' = wire /\ UNCHANGED <<kind, form, key, opened, acted, kept>>
        BY <1>1 DEF Poll, Revisit, ServeGet, FetchFails, Elsewhere, vars, dialog, server
    <2> QED BY <2>1, ForgettingKeeps
<1>2. ASSUME Arrive \/ Close PROVE DeskInv'
    <2>1. /\ wire' = wire /\ UNCHANGED <<kind, opened, acted, kept>>
          /\ (form' = form /\ key' = key) \/ (form' = None /\ key' = NoKey)
        BY <1>2 DEF Arrive, Close, server
    <2> QED BY <2>1, ForgettingKeeps
<1>3. ASSUME Decide PROVE DeskInv'
    BY <1>3, DecidingKeeps
<1>4. CASE Submit
    BY <1>4, SubmittingKeeps
<1>5. CASE MarkViewed
    BY <1>5, MarkingKeeps
<1>6. ASSUME NEW q \in wire, Perform(q) PROVE DeskInv'
    BY <1>6, PerformingKeeps
<1>7. ASSUME NEW q \in wire, Replay(q) \/ Refuse(q) \/ Succeeded(q) \/ Refused(q) \/ GiveUp(q) PROVE DeskInv'
    BY <1>7, OtherRequestStepsKeep
<1> QED BY <1>1, <1>2, <1>3, <1>4, <1>5, <1>6, <1>7 DEF Next

\* At the start nothing has been said.
LEMMA BeginsWell == Init => DeskInv
<1> SUFFICES ASSUME Init PROVE DeskInv
    OBVIOUS
<1>1. form = None /\ key = NoKey /\ opened = 0 /\ wire = {} /\ acted = {}
    BY DEF Init
<1>2. Said = {}
    BY <1>1 DEF Said
<1> QED BY <1>1, <1>2 DEF DeskInv, Shapes, SayInv, Counted, TurnIsKept, MarksAreKeyless, KeysOfTurns,
                          KeyIsKept, NoKey

\* Sayings of one turn that were carried out under a key are one: the key is the turn's.
LEMMA OneOfATurn == DeskInv => KeyedActsOnce
<1> SUFFICES ASSUME DeskInv, NEW a \in acted, NEW b \in acted, SameTurn(a, b), Repeats(a)
             PROVE  a = b
    BY DEF KeyedActsOnce, Repeats
<1>1. a \in Said /\ b \in Said
    BY DEF Said
<1>2. a.id # None /\ a.id = b.id
    BY <1>1 DEF DeskInv, SayInv, KeysOfTurns
<1> QED BY <1>2 DEF DeskInv, KeyIsKept

\* Whatever is lost, late or pressed again, an unchanged submission that sends a key is carried out once
\* (shared/api/idempotency.ts with core/idempotency.py): for any screens that send as these do.
THEOREM UnchangedSubmissionsActOnce == Spec => []KeyedActsOnce
<1>1. DeskInv /\ [Next]_vars => DeskInv'
    BY StepsKeep
<1>2. Spec => []DeskInv
    BY BeginsWell, <1>1, PTL DEF Spec
<1> QED BY <1>2, OneOfATurn, PTL

(***************************************************************************)
(* The records.  Of a record that nobody edits underfoot there is one for  *)
(* each version: whatever a page, a request or a key still holds is what   *)
(* the server had at that version.                                         *)
(***************************************************************************)
IsRecord(r) == DOMAIN r = {"status", "by", "version"} /\ r.version \in Nat

\* Nothing is done, a new version is made, or what a kind edits underfoot is another under its version.
Bumped(r, x) == IsRecord(x) /\ x.version = r.version + 1
Moved(r, x) == x = r \/ Bumped(r, x)

Underfoot == {"run", "category"}

\* An act some page of this kind offers to somebody.
Offered(k, act) == \E u, r : act \in Offers(k, u, r)

LEMMA ToBumps == \A r, status : IsRecord(r) => \A x \in To(r, status) : Bumped(r, x)
<1> SUFFICES ASSUME NEW r, NEW status, IsRecord(r), NEW x \in To(r, status) PROVE Bumped(r, x)
    OBVIOUS
<1>1. x = [r EXCEPT !.status = status, !.version = r.version + 1]
    BY DEF To, IsRecord
<1>2. DOMAIN x = DOMAIN r /\ x.version = r.version + 1
    BY <1>1 DEF IsRecord
<1> QED BY <1>2 DEF IsRecord, Bumped

LEMMA OrdersMove ==
    ASSUME NEW r, IsRecord(r), NEW u, NEW act, NEW in, NEW x
    PROVE  /\ x \in OrderTakes(u, r, act, in) => Moved(r, x)
           /\ x \in CartTakes(u, r, act, in) => Moved(r, x) \/ act \notin {"add", "set", "clear", "checkout"}
           /\ x \in OnBehalfTakes(u, r) => Moved(r, x)
           /\ x \in OrderEvents(r) => Moved(r, x)
<1>1. x \in OrderTakes(u, r, act, in) => Moved(r, x)
    BY ToBumps DEF OrderTakes, OrderConfirms, OrderMarkedViewed, OrderActs, If, Moved
<1>2. x \in CartTakes(u, r, act, in) => Moved(r, x) \/ act \notin {"add", "set", "clear", "checkout"}
    BY ToBumps DEF CartTakes, If, Moved
<1>3. x \in OnBehalfTakes(u, r) => Moved(r, x)
    BY ToBumps DEF OnBehalfTakes, If, Moved
<1>4. x \in OrderEvents(r) => Moved(r, x)
    BY ToBumps DEF OrderEvents, Moved
<1> QED BY <1>1, <1>2, <1>3, <1>4

LEMMA ReturnsMove ==
    ASSUME NEW r, IsRecord(r), NEW u, NEW act, NEW in, NEW x, NEW target
    PROVE  /\ x \in OrderReturnTakes(u, r, act) \cup OrderReturnEvents(r) => Moved(r, x)
           /\ x \in ReturnTakes(u, r, act, in) => Moved(r, x)
           /\ x \in DisputeTakes(u, r, target, act, in) =>
                 Moved(r, x) \/ act \notin {"start-review", "resolve", "reject", "withdraw", "message"}
<1>1. x \in OrderReturnTakes(u, r, act) \cup OrderReturnEvents(r) => Moved(r, x)
    BY ToBumps DEF OrderReturnTakes, ReturnRequested, DisputeOpened, OrderReturnEvents, If, Moved
<1>2. x \in ReturnTakes(u, r, act, in) => Moved(r, x)
    BY ToBumps DEF ReturnTakes, If, Moved
<1>3. x \in DisputeTakes(u, r, target, act, in) =>
         Moved(r, x) \/ act \notin {"start-review", "resolve", "reject", "withdraw", "message"}
    BY ToBumps DEF DisputeTakes, DisputeResolved, If, Moved
<1> QED BY <1>1, <1>2, <1>3

LEMMA MoneyMoves ==
    ASSUME NEW r, IsRecord(r), NEW u, NEW act, NEW in, NEW x
    PROVE  /\ x \in PaymentRecorded(u, r, in) => Moved(r, x)
           /\ x \in PaymentTakes(u, r, act) => Moved(r, x)
           /\ x \in AdjustmentCreated(u, r, in) => Moved(r, x)
           /\ x \in AdjustmentTakes(u, r, act, in) => Moved(r, x)
           /\ x \in PlanTakes(u, r, in) \cup RequestTakes(u, r, in)
                    \cup SubscriptionTakes(u, r, act, in) => Moved(r, x)
           /\ x \in BillingTakes(u, r, act) => Moved(r, x) \/ act \notin {"pay", "change plan", "extend trial"}
<1>1. x \in PaymentRecorded(u, r, in) => Moved(r, x)
    BY ToBumps DEF PaymentRecorded, If, Moved
<1>2. x \in PaymentTakes(u, r, act) => Moved(r, x)
    BY ToBumps DEF PaymentTakes, If, Moved
<1>3. x \in AdjustmentCreated(u, r, in) => Moved(r, x)
    BY ToBumps DEF AdjustmentCreated, If, Moved
<1>4. x \in AdjustmentTakes(u, r, act, in) => Moved(r, x)
    BY ToBumps DEF AdjustmentTakes, If, Moved
<1>5. x \in PlanTakes(u, r, in) \cup RequestTakes(u, r, in) \cup SubscriptionTakes(u, r, act, in) => Moved(r, x)
    BY ToBumps DEF PlanTakes, RequestTakes, SubscriptionTakes, If, Moved
<1>6. x \in BillingTakes(u, r, act) => Moved(r, x) \/ act \notin {"pay", "change plan", "extend trial"}
    BY ToBumps DEF BillingTakes, PaymentTaken, If, Moved
<1> QED BY <1>1, <1>2, <1>3, <1>4, <1>5, <1>6

LEMMA PartnersMove ==
    ASSUME NEW r, IsRecord(r), NEW u, NEW act, NEW in, NEW x
    PROVE  /\ x \in NewPartnerTakes(u, r, act, in) => Moved(r, x)
           /\ x \in PartnerTakes(u, r, act, in) => Moved(r, x)
           /\ x \in TermsTakes(u, r, in) => Moved(r, x)
<1>1. x \in NewPartnerTakes(u, r, act, in) => Moved(r, x)
    BY ToBumps DEF NewPartnerTakes, If, Moved, Bumped, IsRecord
<1>2. x \in PartnerTakes(u, r, act, in) => Moved(r, x)
    BY ToBumps DEF PartnerTakes, CodePatched, PartnerTransition, If, Moved
<1>3. x \in TermsTakes(u, r, in) => Moved(r, x)
    BY ToBumps DEF TermsTakes, If, Moved
<1> QED BY <1>1, <1>2, <1>3

LEMMA DeliveriesMove ==
    ASSUME NEW r, IsRecord(r), NEW u, NEW act, NEW in, NEW x
    PROVE  /\ x \in BoardTakes(u, r) => Moved(r, x)
           /\ x \in RunTakes(u, r, act, in) => Moved(r, x) \/ act \notin {"start", "cancel", "edit", "finish"}
           /\ x \in DeliveryTakes(u, r, act) =>
                 \/ Moved(r, x)
                 \/ act \notin {"assign", "unassign", "dispatch", "cancel", "regenerate-code", "manual-confirm"}
           /\ x \in DeliveryEvents(r) => Moved(r, x)
           /\ x \in RunEvents(r) => IsRecord(x) /\ x.version = r.version
<1>1. x \in BoardTakes(u, r) => Moved(r, x)
    BY ToBumps DEF BoardTakes, If, Moved
<1>2. x \in RunTakes(u, r, act, in) => Moved(r, x) \/ act \notin {"start", "cancel", "edit", "finish"}
    BY ToBumps DEF RunTakes, If, Moved
<1>3. x \in DeliveryTakes(u, r, act) =>
         \/ Moved(r, x)
         \/ act \notin {"assign", "unassign", "dispatch", "cancel", "regenerate-code", "manual-confirm"}
    BY ToBumps DEF DeliveryTakes, If, Moved
<1>4. x \in DeliveryEvents(r) => Moved(r, x)
    BY ToBumps DEF DeliveryEvents, Moved
<1>5. x \in RunEvents(r) => IsRecord(x) /\ x.version = r.version
    BY DEF RunEvents, IsRecord
<1> QED BY <1>1, <1>2, <1>3, <1>4, <1>5

LEMMA GoodsMove ==
    ASSUME NEW r, IsRecord(r), NEW u, NEW act, NEW in, NEW x
    PROVE  /\ x \in StockTakes(u, r, act, in) \cup ReceiptTakes(u, r) \cup StockEvents(r) => Moved(r, x)
           /\ x \in ProductTakes(u, r, act, in) \cup ListTakes(u, r, act) \cup PriceEvents(r) => Moved(r, x)
           /\ x \in CategoryTakes(u, r, act, in) => Moved(r, x) \/ act \notin {"add", "edit", "toggle", "move"}
           /\ x \in UnitTakes(u, r, act) => Moved(r, x) \/ act \notin {"add", "deactivate"}
           /\ x \in PriceTakes(u, r, act, in) => Moved(r, x) \/ act \notin {"price", "cancel"}
           /\ x \in ImportTakes(u, r, act) => Moved(r, x) \/ act \notin {"upload", "confirm", "cancel"}
           /\ x \in ImportEvents(r) => Moved(r, x)
           /\ x \in CategoryEvents(r) => IsRecord(x) /\ x.version = r.version
<1>1. x \in StockTakes(u, r, act, in) \cup ReceiptTakes(u, r) \cup StockEvents(r) => Moved(r, x)
    BY ToBumps DEF StockTakes, ThresholdSet, StockMoved, ReceiptTakes, StockEvents, If, Moved
<1>2. x \in ProductTakes(u, r, act, in) \cup ListTakes(u, r, act) \cup PriceEvents(r) => Moved(r, x)
    BY ToBumps DEF ProductTakes, ListTakes, PriceEvents, If, Moved
<1>3. x \in UnitTakes(u, r, act) => Moved(r, x) \/ act \notin {"add", "deactivate"}
    BY ToBumps DEF UnitTakes, If, Moved
<1>4. x \in PriceTakes(u, r, act, in) => Moved(r, x) \/ act \notin {"price", "cancel"}
    BY ToBumps DEF PriceTakes, If, Moved
<1>5. x \in ImportTakes(u, r, act) => Moved(r, x) \/ act \notin {"upload", "confirm", "cancel"}
    BY ToBumps DEF ImportTakes, If, Moved
<1>6. x \in ImportEvents(r) => Moved(r, x)
    BY ToBumps DEF ImportEvents, Moved
<1>7. x \in CategoryEvents(r) => IsRecord(x) /\ x.version = r.version
    BY DEF CategoryEvents, IsRecord
<1>8. x \in CategoryTakes(u, r, act, in) => Moved(r, x) \/ act \notin {"add", "edit", "toggle", "move"}
    <2>1. x \in CategoryToggled(r) => Bumped(r, x)
        BY ToBumps DEF CategoryToggled
    <2> QED BY <2>1, ToBumps DEF CategoryTakes, If, Moved
<1> QED BY <1>1, <1>2, <1>3, <1>4, <1>5, <1>6, <1>7, <1>8

LEMMA TeamsMove ==
    ASSUME NEW r, IsRecord(r), NEW u, NEW act, NEW in, NEW x
    PROVE  /\ x \in MemberTakes(u, r, act) =>
                  Moved(r, x) \/ act \notin {"role", "suspend", "reactivate", "revoke"}
           /\ x \in InvitationTakes(u, r, act) \cup InvitationEvents(r) => Moved(r, x)
           /\ x \in respond(u, r, act) => Moved(r, x)
           /\ x \in LeaveTakes(u, r) \cup SeatEvents(r) => Moved(r, x)
           /\ x \in ProfileTakes(u, r, act, in) \cup ProfileEvents(r) => Moved(r, x)
<1>1. x \in MemberTakes(u, r, act) => Moved(r, x) \/ act \notin {"role", "suspend", "reactivate", "revoke"}
    BY ToBumps DEF MemberTakes, change_role, transition_member, If, Moved
<1>2. x \in InvitationTakes(u, r, act) \cup InvitationEvents(r) => Moved(r, x)
    BY ToBumps DEF InvitationTakes, invite, revoke_invitation, InvitationEvents, If, Moved
<1>3. x \in respond(u, r, act) => Moved(r, x)
    BY ToBumps DEF respond, If, Moved
<1>4. x \in LeaveTakes(u, r) \cup SeatEvents(r) => Moved(r, x)
    BY ToBumps DEF LeaveTakes, SeatEvents, If, Moved
<1>5. x \in ProfileTakes(u, r, act, in) \cup ProfileEvents(r) => Moved(r, x)
    BY ToBumps DEF ProfileTakes, update_profile, change_logo, ProfileEvents, If, Moved
<1> QED BY <1>1, <1>2, <1>3, <1>4, <1>5

LEMMA PlatformMoves ==
    ASSUME NEW r, IsRecord(r), NEW u, NEW act, NEW in, NEW x
    PROVE  /\ x \in VerificationTakes(u, r) \cup VerificationEvents(r) => Moved(r, x)
           /\ x \in ReviewTakes(u, r, act) => Moved(r, x) \/ act \notin {"start-review", "approve", "reject"}
           /\ x \in UserTakes(u, r, act) => Moved(r, x)
           /\ x \in OrganizationTakes(u, r, act) => Moved(r, x)
           /\ x \in OutboxTakes(u, r) \cup OutboxEvents(r) \cup IssueTakes(u, r)
                    \cup TicketTakes(u, r, in) => Moved(r, x)
<1>1. x \in VerificationTakes(u, r) \cup VerificationEvents(r) => Moved(r, x)
    BY ToBumps DEF VerificationTakes, VerificationEvents, If, Moved
<1>2. x \in ReviewTakes(u, r, act) => Moved(r, x) \/ act \notin {"start-review", "approve", "reject"}
    BY ToBumps DEF ReviewTakes, If, Moved, Bumped, IsRecord
<1>3. x \in UserTakes(u, r, act) => Moved(r, x)
    BY ToBumps DEF UserTakes, If, Moved
<1>4. x \in OrganizationTakes(u, r, act) => Moved(r, x)
    BY ToBumps DEF OrganizationTakes, OrganizationStatusSet, If, Moved
<1>5. x \in OutboxTakes(u, r) \cup OutboxEvents(r) \cup IssueTakes(u, r)
            \cup TicketTakes(u, r, in) => Moved(r, x)
    BY ToBumps DEF OutboxTakes, OutboxEvents, IssueTakes, TicketTakes, If, Moved
<1> QED BY <1>1, <1>2, <1>3, <1>4, <1>5

\* Whatever the server makes of a record, it keeps it as it is or makes a new version of it.
LEMMA TakesMove ==
    ASSUME NEW k \in AllKinds, NEW u, NEW r, IsRecord(r), NEW act, Offered(k, act), NEW in,
           NEW x \in Takes(k, u, r, act, in)
    PROVE  Moved(r, x)
<1> PICK v, s : act \in Offers(k, v, s)
    BY DEF Offered
<1>1. CASE k \in {"order", "cart", "on behalf"}
    BY <1>1, OrdersMove DEF Takes, Offers, CartOffers
<1>2. CASE k \in {"order return", "return"}
    BY <1>2, ReturnsMove DEF Takes
<1>3. CASE k \in {"order dispute", "payment dispute"}
    BY <1>3, ReturnsMove DEF Takes, Offers, DisputeOffers
<1>4. CASE k \in {"payment form", "payment", "adjustment form", "adjustment"}
    BY <1>4, MoneyMoves DEF Takes
<1>5. CASE k \in {"new partner", "partner", "terms"}
    BY <1>5, PartnersMove DEF Takes
<1>6. CASE k \in {"board", "run", "delivery"}
    BY <1>6, DeliveriesMove DEF Takes, Offers, RunOffers, DeliveryOffers, If
<1>7. CASE k \in {"stock", "receipt", "product", "price list"}
    BY <1>7, GoodsMove DEF Takes
<1>8. CASE k \in {"unit", "category", "price", "import"}
    BY <1>8, GoodsMove DEF Takes, Offers, UnitOffers, CategoryOffers, PriceOffers, ImportOffers, If
<1>9. CASE k \in {"subscription", "plan", "plan request"}
    BY <1>9, MoneyMoves DEF Takes
<1>10. CASE k = "billing"
    BY <1>10, MoneyMoves DEF Takes, Offers, BillingOffers, If
<1>11. CASE k \in {"verification", "user", "organization", "event", "issue", "ticket"}
    BY <1>11, PlatformMoves DEF Takes
<1>12. CASE k = "ticket form"
    BY <1>12 DEF Takes, Moved
<1>13. CASE k = "review"
    BY <1>13, PlatformMoves DEF Takes, Offers, ReviewOffers, If
<1>14. CASE k = "member"
    BY <1>14, TeamsMove DEF Takes, Offers, MemberOffers, If
<1>15. CASE k \in {"invitation", "inbox", "seat", "profile"}
    BY <1>15, TeamsMove DEF Takes
<1> QED
    BY <1>1, <1>2, <1>3, <1>4, <1>5, <1>6, <1>7, <1>8, <1>9, <1>10, <1>11, <1>12, <1>13, <1>14, <1>15
       DEF AllKinds

\* What moves by itself makes a new version, but for what a kind edits underfoot.
LEMMA EventsMove ==
    ASSUME NEW k \in AllKinds, NEW r, IsRecord(r), NEW x \in Events(k, r)
    PROVE  Moved(r, x) \/ (k \in Underfoot /\ IsRecord(x) /\ x.version = r.version)
<1>1. CASE k \in {"order", "order return"}
    BY <1>1, OrdersMove, ReturnsMove DEF Events
<1>2. CASE k \in {"run", "delivery"}
    BY <1>2, DeliveriesMove DEF Events, Underfoot
<1>3. CASE k \in {"stock", "category", "price", "import"}
    BY <1>3, GoodsMove DEF Events, Underfoot
<1>4. CASE k \in {"verification", "event"}
    BY <1>4, PlatformMoves DEF Events
<1>5. CASE k \in {"invitation", "seat", "profile"}
    BY <1>5, TeamsMove DEF Events
<1>6. CASE k \notin {"order", "order return", "run", "delivery", "stock", "category", "price", "import",
                     "verification", "event", "invitation", "seat", "profile"}
    BY <1>6 DEF Events
<1> QED BY <1>1, <1>2, <1>3, <1>4, <1>5, <1>6

(***************************************************************************)
(* What a desk rests on beside DeskInv: the records it knows, by version;  *)
(* the version and the record a request was made with, which its answer    *)
(* has found, also when the answer is that of its key; and the versions    *)
(* its page was told of.                                                   *)
(***************************************************************************)
Done == {q \in wire : q.stage = "done"}

KnownRecords ==
    {srv} \cup If(shown # None \/ form # None, {shown}) \cup If(fetch.at = "answered", {fetch.rec})
    \cup If(form # None, {form.on}) \cup {q.on : q \in wire}
    \cup {q.found : q \in Done} \cup {q.result : q \in Done}
    \cup {kept[id].found : id \in DOMAIN kept} \cup {kept[id].result : id \in DOMAIN kept}

OneRecordPerVersion ==
    /\ \A r \in KnownRecords : IsRecord(r) /\ r.version <= srv.version
    /\ kind \notin Underfoot => \A r, s \in KnownRecords : r.version = s.version => r = s

\* A page sends what some page offers.
ActsAreOffered ==
    /\ kind \in Kinds
    /\ form # None => Offered(kind, form.act) /\ form.act # "mark-viewed"
    /\ \A q \in wire : Offered(kind, q.say.act) /\ (q.say.act = "mark-viewed" => q.n = 0)

\* A request says the version it was made with, and was answered on that version.
AnsweredOnItsVersion ==
    \A q \in wire : Versioned(q.say.act) =>
        /\ q.say.version = q.on.version
        /\ q.stage = "done" => q.found.version = q.say.version

\* Keys are made by the tries of forms; the next try of the open form has made none yet.
Tried(id) ==
    /\ id \in Nat \X Nat /\ id[1] <= opened
    /\ form # None /\ id[1] = form.n => id[2] <= form.tries

KeysSayOne ==
    /\ key.held => Tried(key.id) /\ \A x \in Said : x.id = key.id => x.say = key.payload.say
    /\ \A x \in Said : x.id # None => Tried(x.id)
    /\ \A x, y \in Said : x.id # None /\ x.id = y.id => x.say = y.say

\* What is kept under a key was carried out on the version its sayings say.
KeptOnItsVersion ==
    /\ None \notin DOMAIN kept
    /\ \A id \in DOMAIN kept : \E a \in acted : a.id = id
    /\ \A x \in Said : x.id \in DOMAIN kept /\ Versioned(x.say.act) => kept[x.id].found.version = x.say.version

KeysInv == KeysSayOne /\ KeptOnItsVersion

\* Only a page that reads after every success is promised to rest on nothing older than it was told.
ReadsAgain == kind \notin AdoptOnly /\ ~marked

RestInv ==
    /\ fetch.at \in {"idle", "sent", "answered"}
    /\ seen \in Nat /\ seen <= srv.version
    /\ \A q \in wire : q.n = 0 => marked
    /\ ReadsAgain =>
          /\ fetch.at = "answered" => fetch.rec.version >= seen
          /\ shown # None /\ fetch.at = "idle" /\ ~trouble => shown.version >= seen

VersionsInv == OneRecordPerVersion /\ ActsAreOffered /\ AnsweredOnItsVersion /\ KeysInv /\ RestInv

(***************************************************************************)
(* What the steps have in common.                                          *)
(***************************************************************************)
LEMMA SrvIsKnown == VersionsInv => IsRecord(srv)
BY DEF VersionsInv, OneRecordPerVersion, KnownRecords

\* No record is known that was not known, but for what the server has now.
LEMMA RecordsStand ==
    ASSUME OneRecordPerVersion, kind' = kind, KnownRecords' \subseteq KnownRecords \cup {srv'},
           \/ srv' = srv
           \/ Bumped(srv, srv')
           \/ kind \in Underfoot /\ IsRecord(srv') /\ srv'.version = srv.version
    PROVE  OneRecordPerVersion'
<1>1. srv \in KnownRecords /\ IsRecord(srv) /\ srv.version \in Nat
    BY DEF OneRecordPerVersion, KnownRecords, IsRecord
<1>2. IsRecord(srv') /\ srv'.version \in Nat /\ srv.version <= srv'.version
    BY <1>1 DEF Bumped, IsRecord
<1>3. \A r \in KnownRecords : IsRecord(r) /\ r.version \in Nat /\ r.version <= srv.version
    BY DEF OneRecordPerVersion, IsRecord
<1>4. \A r \in KnownRecords' : IsRecord(r) /\ r.version <= srv'.version
    BY <1>1, <1>2, <1>3
<1>5. ASSUME kind \notin Underfoot, NEW r \in KnownRecords', NEW s \in KnownRecords', r.version = s.version
      PROVE  r = s
    <2>1. CASE srv' = srv
        BY <1>1, <1>5, <2>1 DEF OneRecordPerVersion
    <2>2. CASE Bumped(srv, srv')
        <3>1. \A t \in KnownRecords : t.version # srv'.version
            BY <1>1, <1>3, <2>2 DEF Bumped
        <3> QED BY <1>5, <3>1 DEF OneRecordPerVersion
    <2> QED BY <1>5, <2>1, <2>2
<1> QED BY <1>4, <1>5 DEF OneRecordPerVersion

\* Nothing new is said, and the form stays or closes.
LEMMA KeysStand ==
    ASSUME KeysInv, Said' \subseteq Said, UNCHANGED <<kind, opened, acted, kept>>,
           (form' = form /\ key' = key) \/ (form' = None /\ key' = NoKey)
    PROVE  KeysInv'
<1>1. \A id : Tried(id) => Tried(id)'
    BY DEF Tried
<1>2. KeysSayOne'
    BY <1>1 DEF KeysInv, KeysSayOne, NoKey
<1>3. KeptOnItsVersion'
    BY DEF KeysInv, KeptOnItsVersion, Versioned
<1> QED BY <1>2, <1>3 DEF KeysInv

LEMMA LessIsSaid == ASSUME wire' \subseteq wire, acted' = acted PROVE Said' \subseteq Said
BY DEF Said, Fields

\* Requests that are gone, and a form that stays or closes.
LEMMA FewerRequests ==
    ASSUME VersionsInv, wire' \subseteq wire, UNCHANGED <<kind, opened, acted, kept>>,
           (form' = form /\ key' = key) \/ (form' = None /\ key' = NoKey)
    PROVE  ActsAreOffered' /\ AnsweredOnItsVersion' /\ KeysInv'
<1>1. ActsAreOffered'
    BY DEF VersionsInv, ActsAreOffered
<1>2. AnsweredOnItsVersion'
    BY DEF VersionsInv, AnsweredOnItsVersion, Versioned
<1>3. KeysInv'
    BY KeysStand, LessIsSaid DEF VersionsInv
<1> QED BY <1>1, <1>2, <1>3

(***************************************************************************)
(* Reading.                                                                *)
(***************************************************************************)
LEMMA AskingKeepsVersions == VersionsInv /\ (Poll \/ Revisit \/ FetchFails) => VersionsInv'
<1> SUFFICES ASSUME VersionsInv, Poll \/ Revisit \/ FetchFails PROVE VersionsInv'
    OBVIOUS
<1>1. /\ UNCHANGED <<kind, shown, seen, form, key, opened, marked, srv, kept, acted, wire>>
      /\ fetch' = Sent \/ (fetch' = Idle /\ trouble' = TRUE)
    BY DEF Poll, Revisit, FetchFails, dialog, server
<1>2. fetch'.at # "answered" /\ fetch'.at \in {"idle", "sent"} /\ (fetch'.at = "idle" => trouble')
    BY <1>1 DEF Sent, Idle
<1>3. KnownRecords' \subseteq KnownRecords
    BY <1>1, <1>2 DEF KnownRecords, Done, If
<1>4. OneRecordPerVersion'
    BY <1>1, <1>3, RecordsStand DEF VersionsInv
<1>5. ActsAreOffered' /\ AnsweredOnItsVersion' /\ KeysInv'
    BY <1>1, FewerRequests
<1>6. RestInv'
    BY <1>1, <1>2 DEF VersionsInv, RestInv, ReadsAgain
<1> QED BY <1>4, <1>5, <1>6 DEF VersionsInv

LEMMA ServingKeepsVersions == VersionsInv /\ ServeGet => VersionsInv'
<1> SUFFICES ASSUME VersionsInv, ServeGet PROVE VersionsInv'
    OBVIOUS
<1>1. /\ UNCHANGED <<kind, shown, seen, form, key, opened, marked, srv, kept, acted, wire>>
      /\ \/ fetch' = Read(srv)
         \/ fetch' = Idle /\ trouble' = TRUE
    BY DEF ServeGet, dialog, server
<1>2. \/ fetch'.at = "answered" /\ fetch'.rec = srv
      \/ fetch'.at = "idle" /\ trouble'
    BY <1>1 DEF Read, Idle
<1>3. KnownRecords' \subseteq KnownRecords
    BY <1>1, <1>2 DEF KnownRecords, Done, If
<1>4. OneRecordPerVersion'
    BY <1>1, <1>3, RecordsStand DEF VersionsInv
<1>5. ActsAreOffered' /\ AnsweredOnItsVersion' /\ KeysInv'
    BY <1>1, FewerRequests
<1>6. IsRecord(srv)
    BY SrvIsKnown
<1>7. RestInv'
    BY <1>1, <1>2, <1>6 DEF VersionsInv, RestInv, ReadsAgain, IsRecord
<1> QED BY <1>4, <1>5, <1>7 DEF VersionsInv

\* What was read is shown.
LEMMA ArrivingKeepsVersions == VersionsInv /\ Arrive => VersionsInv'
<1> SUFFICES ASSUME VersionsInv, Arrive PROVE VersionsInv'
    OBVIOUS
<1>1. /\ fetch.at = "answered" /\ shown' = fetch.rec /\ fetch' = Idle
      /\ UNCHANGED <<kind, seen, opened, marked, srv, kept, acted, wire>>
      /\ (form' = form /\ key' = key) \/ (form' = None /\ key' = NoKey)
    BY DEF Arrive, server
<1>2. fetch'.at = "idle" /\ fetch.rec \in KnownRecords
    BY <1>1 DEF Idle, KnownRecords, If
<1>3. KnownRecords' \subseteq KnownRecords
    BY <1>1, <1>2 DEF KnownRecords, Done, If
<1>4. OneRecordPerVersion'
    BY <1>1, <1>3, RecordsStand DEF VersionsInv
<1>5. ActsAreOffered' /\ AnsweredOnItsVersion' /\ KeysInv'
    BY <1>1, FewerRequests
<1>6. RestInv'
    BY <1>1, <1>2 DEF VersionsInv, RestInv, ReadsAgain
<1> QED BY <1>4, <1>5, <1>6 DEF VersionsInv

(***************************************************************************)
(* Submitting.                                                             *)
(***************************************************************************)
LEMMA ClosingKeepsVersions == VersionsInv /\ Close => VersionsInv'
<1> SUFFICES ASSUME VersionsInv, Close PROVE VersionsInv'
    OBVIOUS
<1>1. /\ form' = None /\ key' = NoKey
      /\ UNCHANGED <<kind, shown, fetch, trouble, seen, opened, marked, srv, kept, acted, wire>>
    BY DEF Close, page, server
<1>2. KnownRecords' \subseteq KnownRecords
    BY <1>1 DEF KnownRecords, Done, If
<1>3. OneRecordPerVersion'
    BY <1>1, <1>2, RecordsStand DEF VersionsInv
<1>4. ActsAreOffered' /\ AnsweredOnItsVersion' /\ KeysInv'
    BY <1>1, FewerRequests
<1>5. RestInv'
    BY <1>1 DEF VersionsInv, RestInv, ReadsAgain
<1> QED BY <1>3, <1>4, <1>5 DEF VersionsInv

\* A form is opened on what is shown, and has no key yet.
LEMMA DecidingKeepsVersions == DeskInv /\ VersionsInv /\ Decide => VersionsInv'
<1> SUFFICES ASSUME DeskInv, VersionsInv, Decide PROVE VersionsInv'
    OBVIOUS
<1>1. PICK act \in Offers(kind, me, shown) \ {"mark-viewed"} :
        form' = [n |-> opened + 1, act |-> act, on |-> shown, tries |-> 0, turn |-> 0, sent |-> None]
    BY DEF Decide
<1>2. /\ shown # None /\ form = None /\ opened' = opened + 1
      /\ UNCHANGED <<kind, shown, fetch, trouble, seen, key, marked, srv, kept, acted, wire>>
    BY DEF Decide, page, server
<1>3. form'.n = opened + 1 /\ form'.act = act /\ form'.on = shown /\ form'.tries = 0
    BY <1>1
<1>4. KnownRecords' \subseteq KnownRecords
    BY <1>2, <1>3 DEF KnownRecords, Done, If
<1>5. OneRecordPerVersion'
    BY <1>2, <1>4, RecordsStand DEF VersionsInv
<1>6. Offered(kind, act) /\ act # "mark-viewed"
    BY <1>1 DEF Offered
<1>7. ActsAreOffered'
    BY <1>2, <1>3, <1>6 DEF VersionsInv, ActsAreOffered
<1>8. AnsweredOnItsVersion'
    BY <1>2 DEF VersionsInv, AnsweredOnItsVersion, Versioned
<1>9. KeysInv'
    <2>1. Said' = Said /\ opened \in Nat
        BY <1>2 DEF Said, Fields, DeskInv, SayInv, Counted
    <2>2. ASSUME NEW i, Tried(i) PROVE Tried(i)'
        BY <1>2, <1>3, <2>1, <2>2 DEF Tried
    <2>3. KeysSayOne'
        BY <1>2, <2>1, <2>2 DEF VersionsInv, KeysInv, KeysSayOne
    <2>5. KeptOnItsVersion'
        BY <1>2, <2>1 DEF VersionsInv, KeysInv, KeptOnItsVersion, Versioned
    <2> QED BY <2>3, <2>5 DEF KeysInv
<1>10. RestInv'
    BY <1>2 DEF VersionsInv, RestInv, ReadsAgain
<1> QED BY <1>5, <1>7, <1>8, <1>9, <1>10 DEF VersionsInv

LEMMA RequestIs ==
    ASSUME NEW n, NEW try, NEW turn, NEW say, NEW on, NEW id, NEW q,
           q = Request(n, try, turn, say, on, id)
    PROVE  /\ q.n = n /\ q.say = say /\ q.on = on /\ q.id = id /\ q.stage = "out"
           /\ Fields(q) = [n |-> n, try |-> try, turn |-> turn, say |-> say, id |-> id]
BY DEF Request, Fields

\* A new request names a record the page knows, and no record is known by it that was not.
LEMMA RequestsKnowNoMore ==
    ASSUME NEW q, q.stage = "out", q.on \in KnownRecords, wire' = wire \cup {q},
           UNCHANGED <<srv, shown, fetch, kept>>, (form' # None) => (form # None /\ form'.on = form.on)
    PROVE  KnownRecords' \subseteq KnownRecords
BY DEF KnownRecords, Done, If

\* The page of a new order sends what its person may, without a version and without a key.
LEMMA MarkingKeepsVersions == DeskInv /\ VersionsInv /\ MarkViewed => VersionsInv'
<1> SUFFICES ASSUME DeskInv, VersionsInv, MarkViewed PROVE VersionsInv'
    OBVIOUS
<1>1. /\ kind = "order" /\ shown # None /\ MarksViewed(me, shown) /\ marked'
      /\ wire' = wire \cup {Request(0, 1, 1, MarkSaid, shown, None)}
      /\ UNCHANGED <<kind, shown, fetch, trouble, seen, form, key, opened, srv, kept, acted>>
    BY DEF MarkViewed, MarkSaid, page, server
<1>2. PICK q : q = Request(0, 1, 1, MarkSaid, shown, None)
    OBVIOUS
<1>3. /\ q.n = 0 /\ q.say = MarkSaid /\ q.on = shown /\ q.id = None /\ q.stage = "out"
      /\ Fields(q) = [n |-> 0, try |-> 1, turn |-> 1, say |-> MarkSaid, id |-> None]
    BY <1>2, RequestIs
<1>4. wire' = wire \cup {q}
    BY <1>1, <1>2
<1>5. shown \in KnownRecords
    BY <1>1 DEF KnownRecords, If
<1>6. OneRecordPerVersion'
    BY <1>1, <1>3, <1>4, <1>5, RequestsKnowNoMore, RecordsStand DEF VersionsInv
<1>7. Offered("order", "mark-viewed")
    <2>1. "mark-viewed" \in OrderOffers(me, shown)
        BY <1>1 DEF OrderOffers
    <2>2. "mark-viewed" \in Offers("order", me, shown)
        BY <2>1 DEF Offers
    <2> QED BY <2>2 DEF Offered
<1>8. ActsAreOffered'
    BY <1>1, <1>3, <1>4, <1>7 DEF VersionsInv, ActsAreOffered, MarkSaid
<1>9. Sends("order", "mark-viewed").version = "none"
    BY DEF Sends, OrderSends, Blind, Sending
<1>10. \A act : Versioned(act)' = Versioned(act)
    BY <1>1 DEF Versioned
<1>11. ~Versioned(q.say.act)
    BY <1>1, <1>3, <1>9 DEF Versioned, MarkSaid
<1>12. AnsweredOnItsVersion'
    BY <1>4, <1>10, <1>11 DEF VersionsInv, AnsweredOnItsVersion
<1>13. KeysInv'
    <2>1. Said' = Said \cup {Fields(q)} /\ Fields(q).id = None /\ Fields(q).say = MarkSaid
        BY <1>1, <1>3, <1>4 DEF Said
    <2>2. key.held => key.id # None
        BY DEF DeskInv, SayInv, KeysOfTurns
    <2>3. \A i : Tried(i)' = Tried(i)
        BY <1>1 DEF Tried
    <2>4. KeysSayOne'
        BY <1>1, <2>1, <2>2, <2>3 DEF VersionsInv, KeysInv, KeysSayOne
    <2>5. KeptOnItsVersion'
        BY <1>1, <1>10, <2>1 DEF VersionsInv, KeysInv, KeptOnItsVersion
    <2> QED BY <2>4, <2>5 DEF KeysInv
<1>14. RestInv'
    BY <1>1, <1>3, <1>4 DEF VersionsInv, RestInv, ReadsAgain
<1> QED BY <1>6, <1>8, <1>12, <1>13, <1>14 DEF VersionsInv

\* A submission is of what its form was opened on or of what the page shows, and says its version.
LEMMA SubmittingKeepsVersions == DeskInv /\ VersionsInv /\ Submit => VersionsInv'
<1> SUFFICES ASSUME DeskInv, VersionsInv, Submit PROVE VersionsInv'
    OBVIOUS
<1>1. /\ form # None
      /\ UNCHANGED <<kind, shown, fetch, trouble, seen, opened, marked, srv, kept, acted>>
    BY DEF Submit, page, server
<1>2. PICK in \in Inputs(kind, me, Basis(form), form.act) :
        LET say   == Saying(form, in)
            keyed == Sends(kind, form.act).keyed
        IN /\ key' = IF keyed THEN forPayload(form, say) ELSE NoKey
           /\ wire' = wire \cup {Request(form.n, form.tries + 1, Turn(form, say), say, Basis(form),
                                         IF keyed THEN forPayload(form, say).id ELSE None)}
           /\ form' = [form EXCEPT !.tries = @ + 1, !.turn = Turn(form, say), !.sent = say]
    BY DEF Submit
<1> DEFINE keyed == Sends(kind, form.act).keyed
<1>3. PICK say, id, q : /\ say = Saying(form, in)
                        /\ id = IF keyed THEN forPayload(form, say).id ELSE None
                        /\ q = Request(form.n, form.tries + 1, Turn(form, say), say, Basis(form), id)
    OBVIOUS
<1>4. /\ wire' = wire \cup {q}
      /\ q.n = form.n /\ q.say = say /\ q.on = Basis(form) /\ q.id = id /\ q.stage = "out"
      /\ Fields(q).say = say /\ Fields(q).id = id
    BY <1>2, <1>3, RequestIs
<1>5. /\ opened \in Nat /\ form.n = opened /\ form.n >= 1 /\ form.tries \in Nat
      /\ DOMAIN form = {"n", "act", "on", "tries", "turn", "sent"}
    BY <1>1 DEF DeskInv, SayInv, Counted, Shapes
<1>6. form'.n = form.n /\ form'.act = form.act /\ form'.on = form.on /\ form'.tries = form.tries + 1
    BY <1>2, <1>5
<1>7. /\ say.act = form.act
      /\ Versioned(say.act) => say.version = Basis(form).version
    BY <1>3 DEF Saying
<1>8. key' = IF keyed THEN forPayload(form, say) ELSE NoKey
    BY <1>2, <1>3
<1>9. Basis(form) \in KnownRecords
    BY <1>1 DEF Basis, KnownRecords, If
<1>10. \A act : Versioned(act)' = Versioned(act)
    BY <1>1 DEF Versioned
<1>11. Said' = Said \cup {Fields(q)}
    BY <1>1, <1>4 DEF Said
<1>12. keyed => /\ key'.held /\ key'.id = id
                /\ key'.payload.say = say
                /\ \/ key.held /\ key.payload.say = say /\ id = key.id
                   \/ id = <<form.n, form.tries + 1>>
    BY <1>3, <1>8 DEF forPayload
<1>13. ~keyed => id = None /\ ~key'.held
    BY <1>3, <1>8 DEF NoKey
<1> HIDE DEF keyed
<1>14. OneRecordPerVersion'
    BY <1>1, <1>4, <1>6, <1>9, RequestsKnowNoMore, RecordsStand DEF VersionsInv
<1>15. ActsAreOffered'
    BY <1>1, <1>4, <1>6, <1>7 DEF VersionsInv, ActsAreOffered
<1>16. AnsweredOnItsVersion'
    BY <1>4, <1>7, <1>10 DEF VersionsInv, AnsweredOnItsVersion
<1>17. ASSUME NEW i, Tried(i) PROVE Tried(i)'
    BY <1>1, <1>5, <1>6, <1>17 DEF Tried
<1>18. ASSUME keyed
       PROVE  /\ Tried(id)'
              /\ \A x \in Said : x.id = id => x.say = say
              /\ id \in DOMAIN kept => key.held /\ key.payload.say = say /\ id = key.id
    <2>1. CASE key.held /\ key.payload.say = say /\ id = key.id
        BY <1>17, <2>1 DEF VersionsInv, KeysInv, KeysSayOne
    <2>2. CASE id = <<form.n, form.tries + 1>>
        <3>1. id \in Nat \X Nat /\ id[1] = form.n /\ id[2] = form.tries + 1 /\ id # None
            BY <1>5, <2>2, DeskAssumption
        <3>2. ~Tried(id) /\ Tried(id)'
            BY <1>1, <1>5, <1>6, <3>1 DEF Tried
        <3>3. \A x \in Said : x.id # id
            BY <3>1, <3>2 DEF VersionsInv, KeysInv, KeysSayOne
        <3>4. id \notin DOMAIN kept
            <4> SUFFICES ASSUME NEW a \in acted PROVE a.id # id
                BY DEF VersionsInv, KeysInv, KeptOnItsVersion
            <4> QED BY <3>3 DEF Said
        <3> QED BY <3>2, <3>3, <3>4
    <2> QED BY <1>12, <1>18, <2>1, <2>2
<1>19. KeysSayOne'
    <2>1. key'.held => Tried(key.id)' /\ \A x \in Said' : x.id = key'.id => x.say = key'.payload.say
        BY <1>4, <1>11, <1>12, <1>13, <1>18
    <2>2. \A x \in Said' : x.id # None => Tried(x.id)'
        BY <1>4, <1>11, <1>13, <1>17, <1>18 DEF VersionsInv, KeysInv, KeysSayOne
    <2>3. \A x, y \in Said : x.id # None /\ x.id = y.id => x.say = y.say
        BY DEF VersionsInv, KeysInv, KeysSayOne
    <2>4. \A x \in Said : x.id # None /\ x.id = id => x.say = say
        BY <1>13, <1>18
    <2>5. \A x, y \in Said' : x.id # None /\ x.id = y.id => x.say = y.say
        BY <1>4, <1>11, <2>3, <2>4
    <2> QED BY <2>1, <2>2, <2>5 DEF KeysSayOne
<1>20. KeptOnItsVersion'
    <2>1. ASSUME id \in DOMAIN kept, Versioned(say.act) PROVE kept[id].found.version = say.version
        <3>1. id # None
            BY <2>1 DEF VersionsInv, KeysInv, KeptOnItsVersion
        <3>2. key.held /\ key.payload.say = say /\ id = key.id
            BY <1>13, <1>18, <2>1, <3>1
        <3>3. PICK a \in acted : a.id = id
            BY <2>1 DEF VersionsInv, KeysInv, KeptOnItsVersion
        <3>4. a \in Said
            BY DEF Said
        <3>5. a.say = say
            BY <1>13, <1>18, <3>1, <3>3, <3>4
        <3> QED BY <2>1, <3>3, <3>4, <3>5 DEF VersionsInv, KeysInv, KeptOnItsVersion
    <2> QED BY <1>1, <1>4, <1>10, <1>11, <2>1 DEF VersionsInv, KeysInv, KeptOnItsVersion
<1>21. KeysInv'
    BY <1>19, <1>20 DEF KeysInv
<1>22. RestInv'
    BY <1>1, <1>4, <1>5, <1>6 DEF VersionsInv, RestInv, ReadsAgain
<1> QED BY <1>14, <1>15, <1>16, <1>21, <1>22 DEF VersionsInv

(***************************************************************************)
(* The server.                                                             *)
(***************************************************************************)
\* An answered request is the request, with its answer.
LEMMA AnsweredRequests ==
    ASSUME DeskInv, VersionsInv, NEW q \in wire, NEW stage, NEW found, NEW result,
           wire' = Answer(q, stage, found, result), UNCHANGED <<kind, form, marked>>,
           stage = "done" /\ Versioned(q.say.act) => found.version = q.say.version
    PROVE  /\ ActsAreOffered' /\ AnsweredOnItsVersion'
           /\ \A x \in wire' : Fields(x) \in Said /\ (x.n = 0 => marked)
           /\ \A x \in wire' :
                 x \in wire \/ (x.on = q.on /\ x.stage = stage /\ x.found = found /\ x.result = result)
<1>1. DOMAIN q = RequestFields
    BY DEF DeskInv, Shapes
<1>2. PICK e : e = [q EXCEPT !.stage = stage, !.found = found, !.result = result]
    OBVIOUS
<1>3. /\ e.n = q.n /\ e.say = q.say /\ e.on = q.on
      /\ e.stage = stage /\ e.found = found /\ e.result = result
      /\ Fields(e) = Fields(q)
    BY <1>1, <1>2 DEF RequestFields, Fields
<1>4. \A x \in wire' : x \in wire \/ x = e
    BY <1>2 DEF Answer, If
<1>5. \A act : Versioned(act)' = Versioned(act)
    BY DEF Versioned
<1>6. ActsAreOffered'
    BY <1>3, <1>4 DEF VersionsInv, ActsAreOffered
<1>7. AnsweredOnItsVersion'
    BY <1>3, <1>4, <1>5 DEF VersionsInv, AnsweredOnItsVersion
<1>8. \A x \in wire' : Fields(x) \in Said /\ (x.n = 0 => marked)
    BY <1>3, <1>4 DEF Said, VersionsInv, RestInv
<1> QED BY <1>3, <1>4, <1>6, <1>7, <1>8

\* The answer of a key is what was found and made when it was carried out.
LEMMA ReplayingKeepsVersions == ASSUME DeskInv, VersionsInv, NEW q \in wire, Replay(q) PROVE VersionsInv'
<1>1. /\ q.id \in DOMAIN kept
      /\ wire' = Answer(q, "done", kept[q.id].found, kept[q.id].result)
      /\ UNCHANGED <<kind, shown, fetch, trouble, seen, form, key, opened, marked, srv, kept, acted>>
    BY DEF Replay, page, dialog, server
<1>2. Fields(q) \in Said /\ Fields(q).id = q.id /\ Fields(q).say = q.say
    BY DEF Said, Fields
<1>3. Versioned(q.say.act) => kept[q.id].found.version = q.say.version
    BY <1>1, <1>2 DEF VersionsInv, KeysInv, KeptOnItsVersion
<1>4. /\ ActsAreOffered' /\ AnsweredOnItsVersion'
      /\ \A x \in wire' : Fields(x) \in Said /\ (x.n = 0 => marked)
      /\ \A x \in wire' : \/ x \in wire
                          \/ x.on = q.on /\ x.found = kept[q.id].found /\ x.result = kept[q.id].result
    BY <1>1, <1>3, AnsweredRequests
<1>5. KnownRecords' \subseteq KnownRecords
    BY <1>1, <1>4 DEF KnownRecords, Done, If
<1>6. OneRecordPerVersion'
    BY <1>1, <1>5, RecordsStand DEF VersionsInv
<1>7. Said' \subseteq Said
    BY <1>1, <1>4 DEF Said, Fields
<1>8. KeysInv'
    BY <1>1, <1>7, KeysStand DEF VersionsInv
<1>9. RestInv'
    BY <1>1, <1>4 DEF VersionsInv, RestInv, ReadsAgain
<1> QED BY <1>4, <1>6, <1>8, <1>9 DEF VersionsInv

LEMMA RefusingKeepsVersions == ASSUME DeskInv, VersionsInv, NEW q \in wire, Refuse(q) PROVE VersionsInv'
<1>1. /\ wire' = Answer(q, "refused", srv, None)
      /\ UNCHANGED <<kind, shown, fetch, trouble, seen, form, key, opened, marked, srv, kept, acted>>
    BY DEF Refuse, page, dialog, server
<1>2. /\ ActsAreOffered' /\ AnsweredOnItsVersion'
      /\ \A x \in wire' : Fields(x) \in Said /\ (x.n = 0 => marked)
      /\ \A x \in wire' : x \in wire \/ (x.on = q.on /\ x.stage = "refused")
    BY <1>1, AnsweredRequests
<1>3. KnownRecords' \subseteq KnownRecords
    BY <1>1, <1>2 DEF KnownRecords, Done, If
<1>4. OneRecordPerVersion'
    BY <1>1, <1>3, RecordsStand DEF VersionsInv
<1>5. Said' \subseteq Said
    BY <1>1, <1>2 DEF Said, Fields
<1>6. KeysInv'
    BY <1>1, <1>5, KeysStand DEF VersionsInv
<1>7. RestInv'
    BY <1>1, <1>2 DEF VersionsInv, RestInv, ReadsAgain
<1> QED BY <1>2, <1>4, <1>6, <1>7 DEF VersionsInv

\* What is carried out was meant for the version the record has, and what is kept of it is that.
LEMMA PerformingKeepsVersions == ASSUME DeskInv, VersionsInv, NEW q \in wire, Perform(q) PROVE VersionsInv'
<1> DEFINE did == [n |-> q.n, try |-> q.try, turn |-> q.turn, say |-> q.say, id |-> q.id]
<1>1. PICK r \in Taken(q) :
         /\ srv' = r
         /\ wire' = Answer(q, "done", srv, r)
         /\ kept' = IF q.id = None THEN kept
                    ELSE [id \in DOMAIN kept \cup {q.id} |->
                            IF id = q.id THEN [found |-> srv, result |-> r] ELSE kept[id]]
    BY DEF Perform
<1>2. /\ q.id \notin DOMAIN kept /\ acted' = acted \cup {did}
      /\ UNCHANGED <<kind, shown, fetch, trouble, seen, form, key, opened, marked>>
    BY DEF Perform, page, dialog
<1>3. /\ Versioned(q.say.act) => q.say.version = srv.version
      /\ r \in Takes(kind, me, srv, q.say.act, q.say.in)
    BY DEF Taken, If, CurrentVersion
<1>4. Moved(srv, srv')
    BY <1>1, <1>3, SrvIsKnown, TakesMove, DeskAssumption DEF VersionsInv, ActsAreOffered
<1>5. /\ ActsAreOffered' /\ AnsweredOnItsVersion'
      /\ \A x \in wire' : Fields(x) \in Said /\ (x.n = 0 => marked)
      /\ \A x \in wire' : x \in wire \/ (x.on = q.on /\ x.found = srv /\ x.result = r)
    BY <1>1, <1>2, <1>3, AnsweredRequests
<1>6. /\ DOMAIN kept \subseteq DOMAIN kept' /\ DOMAIN kept' \subseteq DOMAIN kept \cup {q.id}
      /\ q.id # None <=> q.id \in DOMAIN kept'
      /\ \A id \in DOMAIN kept : kept'[id] = kept[id]
      /\ q.id # None => kept'[q.id].found = srv /\ kept'[q.id].result = r
    BY <1>1, <1>2 DEF VersionsInv, KeysInv, KeptOnItsVersion
<1>7. \A id \in DOMAIN kept' :
          \/ id \in DOMAIN kept /\ kept'[id] = kept[id]
          \/ kept'[id].found = srv /\ kept'[id].result = r
    BY <1>6
<1>8. KnownRecords' \subseteq KnownRecords \cup {srv'}
    <2>1. PICK after : after = KnownRecords \cup {srv'}
        OBVIOUS
    <2>2. {srv'} \cup If(shown # None \/ form # None, {shown})' \cup If(fetch.at = "answered", {fetch.rec})'
          \cup If(form # None, {form.on})' \subseteq after
        BY <1>2, <2>1 DEF KnownRecords, If
    <2>3. {x.on : x \in wire'} \cup {x.found : x \in Done'} \cup {x.result : x \in Done'} \subseteq after
        BY <1>1, <1>5, <2>1 DEF KnownRecords, Done
    <2>4. {kept'[id].found : id \in DOMAIN kept'} \cup {kept'[id].result : id \in DOMAIN kept'} \subseteq after
        <3>1. ASSUME NEW id \in DOMAIN kept' PROVE {kept'[id].found, kept'[id].result} \subseteq after
            BY <1>1, <1>7, <2>1 DEF KnownRecords
        <3> QED BY <3>1
    <2>5. KnownRecords' \subseteq after
        BY <2>2, <2>3, <2>4 DEF KnownRecords
    <2> QED BY <2>1, <2>5
<1>9. OneRecordPerVersion'
    BY <1>2, <1>4, <1>8, RecordsStand DEF VersionsInv, Moved
<1>10. did = Fields(q) /\ did \in Said
    BY DEF Said, Fields
<1>11. Said' \subseteq Said
    BY <1>2, <1>5, <1>10 DEF Said, Fields
<1>12. KeysSayOne'
    <2>1. \A id : Tried(id)' = Tried(id)
        BY <1>2 DEF Tried
    <2> QED BY <1>2, <1>11, <2>1 DEF VersionsInv, KeysInv, KeysSayOne
<1>13. KeptOnItsVersion'
    <2>1. None \notin DOMAIN kept'
        BY <1>6 DEF VersionsInv, KeysInv, KeptOnItsVersion
    <2>2. \A id \in DOMAIN kept' : \E a \in acted' : a.id = id
        <3>1. \A id \in DOMAIN kept : \E a \in acted : a.id = id
            BY DEF VersionsInv, KeysInv, KeptOnItsVersion
        <3>2. did.id = q.id /\ did \in acted' /\ acted \subseteq acted'
            BY <1>2
        <3> QED BY <1>6, <3>1, <3>2
    <2>3. \A act : Versioned(act)' = Versioned(act)
        BY <1>2 DEF Versioned
    <2>4. ASSUME NEW x \in Said, x.id \in DOMAIN kept', Versioned(x.say.act)
          PROVE  kept'[x.id].found.version = x.say.version
        <3>1. CASE x.id \in DOMAIN kept
            BY <1>6, <2>4, <3>1 DEF VersionsInv, KeysInv, KeptOnItsVersion
        <3>2. CASE x.id = q.id
            <4>1. q.id # None
                BY <1>6, <2>4, <3>2
            <4>2. x.say = q.say
                BY <1>10, <3>2, <4>1 DEF VersionsInv, KeysInv, KeysSayOne
            <4> QED BY <1>3, <1>6, <2>4, <3>2, <4>1, <4>2
        <3> QED BY <1>6, <2>4, <3>1, <3>2
    <2> QED BY <1>11, <2>1, <2>2, <2>3, <2>4 DEF KeptOnItsVersion
<1>14. KeysInv'
    BY <1>12, <1>13 DEF KeysInv
<1>15. RestInv'
    <2>1. srv.version \in Nat /\ srv'.version \in Nat /\ srv.version <= srv'.version
        BY <1>4, SrvIsKnown DEF Moved, Bumped, IsRecord
    <2> QED BY <1>2, <1>5, <2>1 DEF VersionsInv, RestInv, ReadsAgain
<1> QED BY <1>5, <1>9, <1>14, <1>15 DEF VersionsInv

\* Others make new versions of the record, or edit it underfoot.
LEMMA OthersKeepVersions == ASSUME VersionsInv, Elsewhere PROVE VersionsInv'
<1>1. /\ srv' \in MovedByOthers
      /\ UNCHANGED <<kind, shown, fetch, trouble, seen, form, key, opened, marked, kept, acted, wire>>
    BY DEF Elsewhere, page, dialog
<1>2. IsRecord(srv) /\ kind \in AllKinds
    BY SrvIsKnown, DeskAssumption DEF VersionsInv, ActsAreOffered
<1>3. Moved(srv, srv') \/ (kind \in Underfoot /\ IsRecord(srv') /\ srv'.version = srv.version)
    <2>1. CASE srv' \in Events(kind, srv)
        BY <1>2, <2>1, EventsMove
    <2>2. CASE srv' \notin Events(kind, srv)
        <3>1. PICK u \in Cast : \E act \in Offers(kind, u, srv) : srv' \in MovedBy(u, act)
            BY <1>1, <2>2 DEF MovedByOthers
        <3>2. PICK act \in Offers(kind, u, srv) : srv' \in MovedBy(u, act)
            BY <3>1
        <3>3. PICK in \in Inputs(kind, u, srv, act) : srv' \in Takes(kind, u, srv, act, in)
            BY <3>2 DEF MovedBy
        <3>4. Offered(kind, act)
            BY DEF Offered
        <3> QED BY <1>2, <3>3, <3>4, TakesMove
    <2> QED BY <2>1, <2>2
<1>4. KnownRecords' \subseteq KnownRecords \cup {srv'}
    BY <1>1 DEF KnownRecords, Done, If
<1>5. OneRecordPerVersion'
    BY <1>1, <1>3, <1>4, RecordsStand DEF VersionsInv, Moved
<1>6. ActsAreOffered' /\ AnsweredOnItsVersion' /\ KeysInv'
    BY <1>1, FewerRequests
<1>7. RestInv'
    <2>1. srv.version \in Nat /\ srv'.version \in Nat /\ srv.version <= srv'.version
        BY <1>2, <1>3 DEF Moved, Bumped, IsRecord
    <2> QED BY <1>1, <2>1 DEF VersionsInv, RestInv, ReadsAgain
<1> QED BY <1>5, <1>6, <1>7 DEF VersionsInv

(***************************************************************************)
(* The answers.                                                            *)
(***************************************************************************)
\* The pages that only adopt an answer are those of AdoptOnly; and the mark of a viewed order is adopted.
LEMMA OthersReadAgain ==
    ASSUME NEW k \in AllKinds \ AdoptOnly, NEW act, Offered(k, act), act # "mark-viewed"
    PROVE  Sends(k, act).after # "adopt"
<1> PICK v, s : act \in Offers(k, v, s)
    BY DEF Offered
<1> USE DEF Sending, Panel, Live, Row, Blind
<1>1. CASE k \in {"order", "order return", "cart", "on behalf"}
    BY <1>1 DEF Sends, OrderSends, ActionDialog, ConfirmationPanel, ReturnDialog, DisputeDialog,
                CartSends, OnBehalfSends
<1>2. CASE k = "return"
    BY <1>2 DEF Sends, ReturnSends, StepPanel, CompletionPanel, ReasonDialog
<1>3. CASE k \in {"order dispute", "payment dispute"}
    <2>1. act \in {"start-review", "resolve", "reject", "withdraw", "message"}
        BY <1>3 DEF Offers, DisputeOffers
    <2> QED
        BY <1>3, <2>1
        DEF Sends, DisputeSends, StartReview, ResolveDialog, RejectDialog, WithdrawDialog, Chat
<1>4. CASE k \in {"payment form", "payment", "adjustment form", "adjustment"}
    BY <1>4 DEF Sends, PaymentFormSends, PaymentSends, AdjustmentFormSends, AdjustmentSends
<1>5. CASE k \in {"new partner", "partner", "terms"}
    BY <1>5 DEF Sends, InviteForm, RequestForm, PartnerSends, TermsForm
<1>6. CASE k \in {"board", "run", "delivery"}
    BY <1>6 DEF Sends, RunSends, RunEditor, DeliverySends
<1>7. CASE k \in {"stock", "receipt", "product", "unit", "category"}
    BY <1>7 DEF Sends, StockSends, ThresholdSends, StockAction, ReceiptSends, ProductForm, UnitPanel,
                CategorySends, CategoryForm, CategoryLine
<1>8. CASE k \in {"price list", "price", "import"}
    BY <1>8 DEF Sends, ListEdit, MatrixEditor, CancelPrice, Wizard
<1>9. CASE k \in {"subscription", "billing", "plan", "plan request"}
    BY <1>9 DEF Sends, SubscriptionSends, BillingSends, ManualPayment, PlanForm, RequestAction
<1>10. CASE k \in {"event", "issue", "ticket form", "ticket"}
    BY <1>10 DEF Sends, OperationsSend, TicketForm, TicketEditor
<1>11. CASE k \in {"member", "invitation", "inbox", "seat"}
    BY <1>11 DEF Sends, TeamAction, InvitationSends, InboxSends, LeaveSends
<1> QED
    BY <1>1, <1>2, <1>3, <1>4, <1>5, <1>6, <1>7, <1>8, <1>9, <1>10, <1>11 DEF AllKinds, AdoptOnly

\* A success is told, and begins a reading that will find no less.
LEMMA SucceedingKeepsVersions == ASSUME VersionsInv, NEW q \in wire, Succeeded(q) PROVE VersionsInv'
<1>1. /\ q.stage = "done" /\ wire' = wire \ {q} /\ seen' = Later(seen, q.result.version)
      /\ UNCHANGED <<kind, opened, marked, srv, kept, acted>>
      /\ (form' = form /\ key' = key) \/ (form' = None /\ key' = NoKey)
      /\ shown' \in {q.result, shown}
      /\ fetch' = IF After(q) # "adopt" THEN Sent ELSE fetch
      /\ trouble' = trouble
    BY DEF Succeeded, server, refetched
<1>2. q.result \in KnownRecords
    BY <1>1 DEF KnownRecords, Done
<1>3. fetch' = fetch \/ fetch'.at = "sent"
    BY <1>1 DEF Sent
<1>4. KnownRecords' \subseteq KnownRecords
    <2> SUFFICES ASSUME NEW r \in KnownRecords' PROVE r \in KnownRecords
        OBVIOUS
    <2>1. CASE r = shown' /\ (shown' # None \/ form' # None)
        BY <1>1, <1>2, <2>1 DEF KnownRecords, If
    <2>2. CASE ~(r = shown' /\ (shown' # None \/ form' # None))
        BY <1>1, <1>3, <2>2 DEF KnownRecords, Done, If
    <2> QED BY <2>1, <2>2
<1>5. OneRecordPerVersion'
    BY <1>1, <1>4, RecordsStand DEF VersionsInv
<1>6. ActsAreOffered' /\ AnsweredOnItsVersion' /\ KeysInv'
    BY <1>1, FewerRequests
<1>7. q.result.version \in Nat /\ q.result.version <= srv.version
    BY <1>2 DEF VersionsInv, OneRecordPerVersion, IsRecord
<1>8. seen' \in Nat /\ seen' <= srv.version
    BY <1>1, <1>7 DEF VersionsInv, RestInv, Later
<1>9. ReadsAgain => fetch'.at = "sent"
    <2> SUFFICES ASSUME ReadsAgain PROVE After(q) # "adopt"
        BY <1>1 DEF Sent
    <2>1. q.n # 0
        BY DEF VersionsInv, RestInv, ReadsAgain
    <2>2. Offered(kind, q.say.act) /\ q.say.act # "mark-viewed" /\ kind \in AllKinds \ AdoptOnly
        BY <2>1, DeskAssumption DEF VersionsInv, ActsAreOffered, ReadsAgain
    <2> QED BY <2>2, OthersReadAgain DEF After
<1>10. RestInv'
    BY <1>1, <1>3, <1>8, <1>9 DEF VersionsInv, RestInv, ReadsAgain
<1> QED BY <1>5, <1>6, <1>10 DEF VersionsInv

LEMMA BeingRefusedKeepsVersions == ASSUME VersionsInv, NEW q \in wire, Refused(q) PROVE VersionsInv'
<1>1. /\ wire' = wire \ {q}
      /\ UNCHANGED <<kind, shown, trouble, seen, form, key, opened, marked, srv, kept, acted>>
      /\ fetch' = fetch \/ fetch' = Sent
    BY DEF Refused, dialog, server, refetched
<1>2. fetch' = fetch \/ fetch'.at = "sent"
    BY <1>1 DEF Sent
<1>3. KnownRecords' \subseteq KnownRecords
    BY <1>1, <1>2 DEF KnownRecords, Done, If
<1>4. OneRecordPerVersion'
    BY <1>1, <1>3, RecordsStand DEF VersionsInv
<1>5. ActsAreOffered' /\ AnsweredOnItsVersion' /\ KeysInv'
    BY <1>1, FewerRequests
<1>6. RestInv'
    BY <1>1, <1>2 DEF VersionsInv, RestInv, ReadsAgain
<1> QED BY <1>4, <1>5, <1>6 DEF VersionsInv

LEMMA GivingUpKeepsVersions == ASSUME DeskInv, VersionsInv, NEW q \in wire, GiveUp(q) PROVE VersionsInv'
<1>1. /\ UNCHANGED <<kind, shown, fetch, trouble, seen, form, key, opened, marked, srv, kept, acted>>
      /\ wire' \subseteq wire \cup {[q EXCEPT !.awaited = FALSE]}
    BY DEF GiveUp, page, dialog, server
<1>2. PICK e : e = [q EXCEPT !.awaited = FALSE]
    OBVIOUS
<1>3. DOMAIN q = RequestFields
    BY DEF DeskInv, Shapes
<1>4. /\ e.n = q.n /\ e.say = q.say /\ e.on = q.on /\ e.stage = q.stage
      /\ e.found = q.found /\ e.result = q.result /\ Fields(e) = Fields(q)
    BY <1>2, <1>3 DEF RequestFields, Fields
<1>5. \A x \in wire' : \E y \in wire : /\ x.n = y.n /\ x.say = y.say /\ x.on = y.on /\ x.stage = y.stage
                                       /\ x.found = y.found /\ x.result = y.result /\ Fields(x) = Fields(y)
    BY <1>1, <1>2, <1>4
<1>6. KnownRecords' \subseteq KnownRecords
    BY <1>1, <1>5 DEF KnownRecords, Done, If
<1>7. OneRecordPerVersion'
    BY <1>1, <1>6, RecordsStand DEF VersionsInv
<1>8. ActsAreOffered'
    BY <1>1, <1>5 DEF VersionsInv, ActsAreOffered
<1>9. AnsweredOnItsVersion'
    <2>1. \A act : Versioned(act)' = Versioned(act)
        BY <1>1 DEF Versioned
    <2> QED BY <1>5, <2>1 DEF VersionsInv, AnsweredOnItsVersion
<1>10. Said' \subseteq Said
    BY <1>1, <1>5 DEF Said
<1>11. KeysInv'
    BY <1>1, <1>10, KeysStand DEF VersionsInv
<1>12. RestInv'
    BY <1>1, <1>5 DEF VersionsInv, RestInv, ReadsAgain
<1> QED BY <1>7, <1>8, <1>9, <1>11, <1>12 DEF VersionsInv

(***************************************************************************)
(* Every step, action by action.                                           *)
(***************************************************************************)
LEMMA StepsKeepVersions == DeskInv /\ VersionsInv /\ [Next]_vars => VersionsInv'
<1> SUFFICES ASSUME DeskInv, VersionsInv, [Next]_vars PROVE VersionsInv'
    OBVIOUS
<1>1. CASE UNCHANGED vars
    <2>1. UNCHANGED <<kind, shown, fetch, trouble, seen, form, key, opened, marked, srv, kept, acted, wire>>
        BY <1>1 DEF vars
    <2>2. KnownRecords' \subseteq KnownRecords
        BY <2>1 DEF KnownRecords, Done, If
    <2>3. OneRecordPerVersion'
        BY <2>1, <2>2, RecordsStand DEF VersionsInv
    <2>4. ActsAreOffered' /\ AnsweredOnItsVersion' /\ KeysInv'
        BY <2>1, FewerRequests
    <2>5. RestInv'
        BY <2>1 DEF VersionsInv, RestInv, ReadsAgain
    <2> QED BY <2>3, <2>4, <2>5 DEF VersionsInv
<1>2. CASE Poll \/ Revisit \/ FetchFails
    BY <1>2, AskingKeepsVersions
<1>3. CASE ServeGet
    BY <1>3, ServingKeepsVersions
<1>4. CASE Arrive
    BY <1>4, ArrivingKeepsVersions
<1>5. CASE Decide
    BY <1>5, DecidingKeepsVersions
<1>6. CASE Close
    BY <1>6, ClosingKeepsVersions
<1>7. CASE Submit
    BY <1>7, SubmittingKeepsVersions
<1>8. CASE MarkViewed
    BY <1>8, MarkingKeepsVersions
<1>9. ASSUME NEW q \in wire, Replay(q) PROVE VersionsInv'
    BY <1>9, ReplayingKeepsVersions
<1>10. ASSUME NEW q \in wire, Perform(q) PROVE VersionsInv'
    BY <1>10, PerformingKeepsVersions
<1>11. ASSUME NEW q \in wire, Refuse(q) PROVE VersionsInv'
    BY <1>11, RefusingKeepsVersions
<1>12. ASSUME NEW q \in wire, Succeeded(q) PROVE VersionsInv'
    BY <1>12, SucceedingKeepsVersions
<1>13. ASSUME NEW q \in wire, Refused(q) PROVE VersionsInv'
    BY <1>13, BeingRefusedKeepsVersions
<1>14. ASSUME NEW q \in wire, GiveUp(q) PROVE VersionsInv'
    BY <1>14, GivingUpKeepsVersions
<1>15. CASE Elsewhere
    BY <1>15, OthersKeepVersions
<1> QED
    BY <1>1, <1>2, <1>3, <1>4, <1>5, <1>6, <1>7, <1>8, <1>9, <1>10, <1>11, <1>12, <1>13, <1>14, <1>15 DEF Next

\* At the start the page knows nothing, and has asked for everything.
LEMMA BeginsWithItsRecord == Init => VersionsInv
<1> SUFFICES ASSUME Init PROVE VersionsInv
    OBVIOUS
<1>1. /\ kind \in Kinds /\ shown = None /\ fetch = Sent /\ seen = 0 /\ form = None /\ key = NoKey /\ ~marked
      /\ wire = {} /\ kept = << >> /\ acted = {}
    BY DEF Init
<1>2. srv \in StartingRecords(kind)
    BY DEF Init
<1>3. IsRecord(srv) /\ srv.version = 0
    BY <1>2 DEF StartingRecords, IsRecord
<1>4. DOMAIN kept = {} /\ Said = {} /\ fetch.at = "sent" /\ ~key.held
    BY <1>1 DEF Said, Sent, NoKey
<1>5. KnownRecords = {srv}
    BY <1>1, <1>4 DEF KnownRecords, Done, If
<1>6. OneRecordPerVersion
    BY <1>3, <1>5 DEF OneRecordPerVersion
<1>7. ActsAreOffered /\ AnsweredOnItsVersion
    BY <1>1 DEF ActsAreOffered, AnsweredOnItsVersion
<1>8. KeysInv
    BY <1>4 DEF KeysInv, KeysSayOne, KeptOnItsVersion
<1>9. RestInv
    BY <1>1, <1>3, <1>4 DEF RestInv
<1> QED BY <1>6, <1>7, <1>8, <1>9 DEF VersionsInv

\* A page has one record of its kind, each version of it is one record, and what is answered was found
\* on the version the request says.
THEOREM VersionsAreRecords == Spec => []VersionsInv
<1>1. Init => DeskInv /\ VersionsInv
    BY BeginsWell, BeginsWithItsRecord
<1>2. DeskInv /\ VersionsInv /\ [Next]_vars => (DeskInv /\ VersionsInv)'
    BY StepsKeep, StepsKeepVersions
<1> QED BY <1>1, <1>2, PTL DEF Spec

\* A decision sent with a version is carried out on the record it was taken on, also when its answer is
\* given again (check_version in the services; the version props of the panels and dialogs): for any
\* kinds, people, forms, tries, losses and other changes.
THEOREM DecisionsMeetTheirRecord == Spec => []DecidedOnWhatWasShown
<1>1. VersionsInv => DecidedOnWhatWasShown
    <2> SUFFICES ASSUME VersionsInv, NEW q \in wire, q.stage = "done", Versioned(q.say.act), ~EditedUnderfoot(q)
                 PROVE  q.found = q.on
        BY DEF DecidedOnWhatWasShown
    <2>1. q.found.version = q.on.version
        BY DEF VersionsInv, AnsweredOnItsVersion
    <2>2. q.found \in KnownRecords /\ q.on \in KnownRecords
        BY DEF KnownRecords, Done
    <2>3. kind \notin Underfoot
        <3>1. ASSUME kind = "run" PROVE q.say.act = "edit"
            BY <3>1 DEF Versioned, Sends, RunSends, Blind, Sending
        <3> QED BY <3>1 DEF Underfoot, EditedUnderfoot
    <2> QED BY <2>1, <2>2, <2>3 DEF VersionsInv, OneRecordPerVersion
<1> QED BY <1>1, VersionsAreRecords, PTL

\* After an answer a page comes to rest on nothing older, however readings and answers overtake one
\* another (invalidateQueries cancels the reading under way): for any kinds, people, forms and losses.
THEOREM PagesRestOnTheNewest == Spec => []NeverRestsOnThePast
<1>1. VersionsInv => NeverRestsOnThePast
    BY DEF VersionsInv, RestInv, ReadsAgain, NeverRestsOnThePast
<1> QED BY <1>1, VersionsAreRecords, PTL

(***************************************************************************)
(* The seats, and what each may do.                                        *)
(***************************************************************************)
Sits(u, side, role) == u.side = side /\ u.role = role

\* Everybody has one of the seats.
LEMMA PeopleSit ==
    ASSUME NEW u \in People
    PROVE  /\ <<u.side, u.role>> \in Seats
           /\ \/ Sits(u, "COMPANY", "OWNER") \/ Sits(u, "COMPANY", "MANAGER") \/ Sits(u, "COMPANY", "OPERATOR")
              \/ Sits(u, "COMPANY", "WAREHOUSE") \/ Sits(u, "COMPANY", "COURIER")
              \/ Sits(u, "STORE", "OWNER") \/ Sits(u, "STORE", "SELLER")
              \/ Sits(u, "PLATFORM", "SUPERADMIN") \/ Sits(u, "PLATFORM", "COLLEAGUE")
<1>1. PICK seat \in Seats, s \in Subscriptions, p \in Plans, v \in BOOLEAN :
        u = [side |-> seat[1], role |-> seat[2], sub |-> s, plan |-> p, verified |-> v]
    BY DEF People
<1>2. u.side = seat[1] /\ u.role = seat[2] /\ <<u.side, u.role>> = seat
    BY <1>1 DEF Seats
<1> QED BY <1>1, <1>2 DEF Seats, Sits

\* The permissions of each seat.
LEMMA Permissions ==
    ASSUME NEW u \in People
    PROVE  /\ Sits(u, "COMPANY", "OWNER") => \A p : Has(u, p) <=> p \in
                Management \cup MemberAdmin \cup OrgOwner
                \cup {"adjustments.approve", "partners.terminate", "terms.manage_credit",
                      "subscription.view", "subscription.manage"}
           /\ Sits(u, "COMPANY", "MANAGER") => \A p : Has(u, p) <=> p \in
                Management \cup {"members.view", "org.view", "org.edit_contacts", "verification.view",
                                 "subscription.view"}
           /\ Sits(u, "COMPANY", "OPERATOR") => \A p : Has(u, p) <=> p \in
                PartnersView \cup OrderCompany \cup FinanceView \cup DisputeReview
                \cup {"org.view", "catalog.view", "pricing.view", "stock.view", "delivery.view_all",
                      "returns.view", "reports.funnel"}
           /\ Sits(u, "COMPANY", "WAREHOUSE") => \A p : Has(u, p) <=> p \in
                {"org.view", "catalog.view", "stock.view", "stock.receive", "stock.settings",
                 "orders.view", "orders.assemble", "delivery.view_all", "returns.view",
                 "returns.receive", "reports.inventory"}
           /\ Sits(u, "COMPANY", "COURIER") => \A p : Has(u, p) <=> p \in
                {"org.view", "delivery.act_own", "payments.record"}
           /\ Sits(u, "STORE", "OWNER") => \A p : Has(u, p) <=> p \in
                MemberAdmin \cup OrgOwner \cup PartnersView \cup OrderStore \cup FinanceView
                \cup {"returns.view", "returns.request", "returns.cancel_own", "disputes.view",
                      "disputes.open", "disputes.withdraw", "disputes.message", "reports.purchases",
                      "reports.debt", "partners.manage", "partners.terminate", "delivery.view_store"}
           /\ Sits(u, "STORE", "SELLER") => \A p : Has(u, p) <=> p \in
                PartnersView \cup OrderStore
                \cup {"org.view", "delivery.view_store", "returns.view", "disputes.view"}
           /\ u.side = "PLATFORM" => \A p : ~Has(u, p)
<1>1. <<u.side, u.role>> \in Seats
    BY PeopleSit
<1>2. u.side = "PLATFORM" => <<u.side, u.role>> \notin {"COMPANY", "STORE"} \X STRING
    OBVIOUS
<1> QED BY <1>1, <1>2 DEF Sits, Has, PERMISSIONS

\* What one permission says of the others of its seat.
LEMMA Together ==
    ASSUME NEW u \in People
    PROVE  /\ Has(u, "finance.view") \/ Has(u, "orders.create") \/ Has(u, "cart.manage")
              \/ Has(u, "store_catalog.view") => Has(u, "partners.view")
           /\ Has(u, "partners.view") <=> Has(u, "terms.view")
           /\ Has(u, "cart.manage") <=> Has(u, "store_catalog.view")
           /\ Has(u, "cart.manage") => IsStore(u)
           /\ Has(u, "orders.confirm") => Has(u, "orders.view")
           /\ Has(u, "returns.complete") \/ Has(u, "returns.request") => Has(u, "returns.view")
           /\ Has(u, "delivery.plan") => Has(u, "delivery.view_all")
           /\ Has(u, "delivery.view_all") \/ Has(u, "stock.view") \/ Has(u, "catalog.view") => IsCompany(u)
           /\ Has(u, "pricing.view") \/ Has(u, "import.run") \/ Has(u, "subscription.view") => IsCompany(u)
           /\ Has(u, "stock.view") \/ Has(u, "stock.receive") => Has(u, "catalog.view") /\ Has(u, "stock.view")
           /\ Has(u, "stock.write_off") => Has(u, "catalog.view")
           /\ Has(u, "terms.manage") /\ IsCompany(u) => Has(u, "pricing.view")
           /\ ~IsPlatform(u) => Has(u, "org.view")
<1> USE Permissions DEF Sits, IsStore, IsCompany, IsPlatform
<1>1. CASE Sits(u, "COMPANY", "OWNER")
    BY <1>1
       DEF Management, MemberAdmin, OrgOwner, CatalogAdmin, StockAdmin, PartnersAdmin, PartnersView,
           OrderAdmin, OrderCompany, DeliveryAdmin, FinanceAdmin, FinanceView, ReturnsAdmin, DisputeReview,
           ReportsAdmin
<1>2. CASE Sits(u, "COMPANY", "MANAGER")
    BY <1>2
       DEF Management, CatalogAdmin, StockAdmin, PartnersAdmin, PartnersView, OrderAdmin, OrderCompany,
           DeliveryAdmin, FinanceAdmin, FinanceView, ReturnsAdmin, DisputeReview, ReportsAdmin
<1>3. CASE Sits(u, "COMPANY", "OPERATOR")
    BY <1>3 DEF PartnersView, OrderCompany, FinanceView, DisputeReview
<1>4. CASE Sits(u, "COMPANY", "WAREHOUSE")
    BY <1>4
<1>5. CASE Sits(u, "COMPANY", "COURIER")
    BY <1>5
<1>6. CASE Sits(u, "STORE", "OWNER")
    BY <1>6 DEF MemberAdmin, OrgOwner, PartnersView, OrderStore, FinanceView
<1>7. CASE Sits(u, "STORE", "SELLER")
    BY <1>7 DEF PartnersView, OrderStore
<1>8. CASE u.side = "PLATFORM"
    BY <1>8
<1> QED BY <1>1, <1>2, <1>3, <1>4, <1>5, <1>6, <1>7, <1>8, PeopleSit

(***************************************************************************)
(* What the pages ask for.                                                 *)
(***************************************************************************)
\* Whom the server answers, question by question.
LEMMA WhoMayRead ==
    ASSUME NEW u
    PROVE  /\ \A q \in {"orders", "pending orders", "order"} : MayRead(u, q) <=> Has(u, "orders.view")
           /\ MayRead(u, "order catalog") <=> IsCompany(u) /\ Has(u, "orders.create")
           /\ MayRead(u, "store catalog") <=> IsStore(u) /\ Has(u, "store_catalog.view")
           /\ MayRead(u, "cart") <=> IsStore(u) /\ Has(u, "cart.manage")
           /\ MayRead(u, "confirmation preview") <=> IsCompany(u) /\ Has(u, "orders.confirm")
           /\ \A q \in {"returns", "return", "returnable", "completion preview"} :
                 MayRead(u, q) <=> Has(u, "returns.view")
           /\ \A q \in {"disputes", "dispute"} : MayRead(u, q) <=> Has(u, "disputes.view")
           /\ \A q \in {"partnerships", "partnership"} : MayRead(u, q) <=> Has(u, "partners.view")
           /\ MayRead(u, "terms") <=> Has(u, "terms.view")
           /\ MayRead(u, "price lists") <=> Has(u, "pricing.view")
           /\ \A q \in {"deliveries", "runs", "run", "delivery"} :
                 MayRead(u, q) <=> IsCompany(u) /\ Has(u, "delivery.view_all")
           /\ MayRead(u, "members") <=> Has(u, "members.view")
           /\ MayRead(u, "store delivery") <=> IsStore(u) /\ Has(u, "delivery.view_store")
           /\ \A q \in {"stocks", "stock", "movements"} : MayRead(u, q) <=> IsCompany(u) /\ Has(u, "stock.view")
           /\ \A q \in {"products", "categories"} : MayRead(u, q) <=> IsCompany(u) /\ Has(u, "catalog.view")
           /\ MayRead(u, "prices") <=> IsCompany(u) /\ Has(u, "pricing.view")
           /\ MayRead(u, "imports") <=> IsCompany(u) /\ Has(u, "import.run")
           /\ \A q \in {"subscription", "payments of it"} :
                 MayRead(u, q) <=> IsCompany(u) /\ Has(u, "subscription.view")
           /\ MayRead(u, "access") <=> IsCompany(u)
           /\ MayRead(u, "plans")
           /\ MayRead(u, "verification") <=> Has(u, "verification.view")
           /\ MayRead(u, "invitations") <=> Has(u, "members.view")
           /\ MayRead(u, "profile") <=> Has(u, "org.view")
           /\ MayRead(u, "adjustments") <=> IsCompany(u) /\ Has(u, "finance.view")
           /\ \A q \in {"summary", "balances", "balance", "charges", "charge", "payments", "payment",
                     "statement"} : MayRead(u, q) <=> Has(u, "finance.view")
BY DEF MayRead, OrderMayRead, ReturnMayRead, PartnerMayRead, DeliveryMayRead, StockMayRead, CatalogMayRead,
       BillingMayRead, VerificationMayRead, TeamMayRead, FinanceMayRead

\* Whoever opens a page, on whatever record.
LEMMA PagesAskWell ==
    ASSUME NEW u \in People, NEW k, NEW r, NEW q \in PageAsks(k, u, r)
    PROVE  MayRead(u, q) \/ AsksInVain(u, q)
<1> USE WhoMayRead, Together DEF If
<1>1. CASE k = "order"
    BY <1>1 DEF PageAsks, OrdersPageAsks, OrderPageAsks, StoreDeliveryAsks
<1>2. CASE k = "order return"
    BY <1>2 DEF PageAsks, OrderReturnAsks, OrderReturnOffers
<1>3. CASE k \in {"cart", "on behalf"}
    BY <1>3 DEF PageAsks, BuyingPageAsks, BuyingAllows, CartPanelAsks, CatalogPanelAsks
<1>4. CASE k = "return"
    BY <1>4 DEF PageAsks, ReturnsPageAsks, ReturnPageAsks
<1>5. CASE k \in {"order dispute", "payment dispute"}
    BY <1>5 DEF PageAsks, DisputesPageAsks, DisputePageAsks, DeliveryContextAsks
<1>6. CASE k \in {"payment form", "payment", "adjustment form", "adjustment"}
    BY <1>6
       DEF PageAsks, FinancePageAsks, PartnerFinancePageAsks, PaymentsPageAsks, AdjustmentsPageAsks,
           allowed,
                ChargesAsk, PaymentsAsk, StatementAsks, AdjustmentsAsk, PartnerLinkAsks
<1>7. CASE k \in {"partner", "terms"}
    BY <1>7
       DEF PageAsks, PartnersPageAsks, PartnerDetailAsks, TermsOffers, TermsFormAsks, canWrite, SeesAllowed
<1>8. CASE k \in {"board", "run", "delivery"}
    BY <1>8 DEF PageAsks, BoardAsks, RunPageAsks, DeliveryPageAsks
<1>9. CASE k \in {"stock", "receipt"}
    BY <1>9
       DEF PageAsks, StockPageAsks, StockDetailAsks, MovementsAsks, StockOffers, StockActionAsks,
           ReceiptPageAsks
<1>10. CASE k \in {"product", "category", "price list", "price", "import"}
    BY <1>10
       DEF PageAsks, ProductsPageAsks, ProductPageAsks, ProductFormAsks, ProductPricesAsk,
           CategoriesPageAsks,
                 PriceListsPageAsks, MatrixAsks, ImportPagesAsk
<1>11. CASE k \in {"subscription", "verification", "member", "invitation", "profile"}
    BY <1>11
       DEF PageAsks, SubscriptionPageAsks, BannerAsks, VerificationPageAsks, TeamPageAsks,
           TeamInvitationsAsk,
                 ProfilePageAsks, ResponsibleAsks, AsksInVain
<1> QED BY <1>1, <1>2, <1>3, <1>4, <1>5, <1>6, <1>7, <1>8, <1>9, <1>10, <1>11 DEF PageAsks

\* Whoever opens a page, and whatever state its record is in, the page asks the server only for what that
\* person may read (the "enabled" of the queries, and the require_permission of the routes they call).
THEOREM PagesAskOnlyWhatTheyMay == Spec => []AsksOnlyWhatItMay
<1>1. AsksOnlyWhatItMay
    BY PagesAskWell DEF AsksOnlyWhatItMay
<1> QED BY <1>1, PTL

(***************************************************************************)
(* What the pages offer.                                                   *)
(***************************************************************************)
Accepted(k, u, r, act, in) == Takes(k, u, r, act, in) # {} <=> ~Excepted(k, u, r, act, in)

\* Everything the pages of a kind offer a person on a record.
AcceptedAll(k, u, r) == \A act \in Offers(k, u, r) : \A in \in Inputs(k, u, r, act) : Accepted(k, u, r, act, in)

\* A record can always be made another one.
LEMMA SomeRecord == \A r, status : To(r, status) # {}
BY DEF To

\* And be given to somebody.
LEMMA SomeNamed == ASSUME NEW u, NEW r, NEW status PROVE {[x EXCEPT !.by = u] : x \in To(r, status)} # {}
<1>1. PICK y : y \in To(r, status)
    BY SomeRecord
<1>2. [y EXCEPT !.by = u] \in {[x EXCEPT !.by = u] : x \in To(r, status)}
    BY <1>1
<1> QED BY <1>2

\* What one permission says of the seat that has it.
LEMMA Held ==
    ASSUME NEW u \in People
    PROVE  /\ Has(u, "payments.confirm") \/ Has(u, "payments.reject") \/ Has(u, "subscription.manage")
              \/ Has(u, "delivery.plan") => IsCompany(u)
           /\ Has(u, "delivery.act_any") => Has(u, "delivery.act_own")
           /\ Has(u, "returns.cancel_own") => IsStore(u)
           /\ Has(u, "members.invite") => u.role = "OWNER"
           /\ Has(u, "org.edit_legal") \/ Has(u, "org.edit_contacts") \/ Has(u, "org.edit_branding")
              => ~IsPlatform(u)
           /\ Has(u, "partners.manage") => ~IsPlatform(u)
           /\ Has(u, "partners.manage") /\ IsCompany(u) => Has(u, "terms.manage")
           /\ ~IsCompany(u) /\ ~IsPlatform(u) => IsStore(u)
           /\ ~(IsCompany(u) /\ IsStore(u)) /\ ~(IsPlatform(u) /\ IsStore(u))
           /\ ~(IsPlatform(u) /\ IsCompany(u))
<1> USE Permissions DEF Sits, IsStore, IsCompany, IsPlatform
<1>1. CASE Sits(u, "COMPANY", "OWNER")
    BY <1>1
       DEF Management, DeliveryAdmin, MemberAdmin, OrgOwner, CatalogAdmin, StockAdmin, PartnersAdmin,
           PartnersView, OrderAdmin, OrderCompany, FinanceAdmin, FinanceView, ReturnsAdmin, DisputeReview,
           ReportsAdmin
<1>2. CASE Sits(u, "COMPANY", "MANAGER")
    BY <1>2
       DEF Management, DeliveryAdmin, CatalogAdmin, StockAdmin, PartnersAdmin, PartnersView, OrderAdmin,
           OrderCompany, FinanceAdmin, FinanceView, ReturnsAdmin, DisputeReview, ReportsAdmin
<1>3. CASE Sits(u, "COMPANY", "OPERATOR")
    BY <1>3 DEF PartnersView, OrderCompany, FinanceView, DisputeReview
<1>4. CASE Sits(u, "COMPANY", "WAREHOUSE") \/ Sits(u, "COMPANY", "COURIER")
    BY <1>4
<1>5. CASE Sits(u, "STORE", "OWNER")
    BY <1>5 DEF MemberAdmin, OrgOwner, PartnersView, OrderStore, FinanceView
<1>6. CASE Sits(u, "STORE", "SELLER")
    BY <1>6 DEF PartnersView, OrderStore
<1>7. CASE u.side = "PLATFORM"
    BY <1>7
<1> QED BY <1>1, <1>2, <1>3, <1>4, <1>5, <1>6, <1>7, PeopleSit

\* The page of a company knows what its subscription allows.
LEMMA SeesWhatIsAllowed == \A u, x : SeesAllowed(u, x) <=> IsCompany(u) /\ Allowed(u, x)
BY DEF SeesAllowed

(***************************************************************************)
(* The named acts, kind by kind.                                           *)
(***************************************************************************)
PlainKinds ==
    {"order", "payment form", "payment", "board", "receipt", "unit", "price list", "import", "subscription",
     "billing", "plan", "plan request", "verification", "review", "event", "issue", "seat", "profile",
     "ticket form", "ticket"}

LEMMA NothingExcepted ==
    ASSUME NEW k \in PlainKinds, NEW u, NEW r, NEW act, NEW in
    PROVE  ~Excepted(k, u, r, act, in)
<1>1. ~KnownRefusal(k, u, r, act, in)
    BY DEF PlainKinds, KnownRefusal
<1>2. ~Unwarned(k, u, act)
    BY DEF PlainKinds, Unwarned, accepting
<1>3. ~Hindered(k, u, r, act, in)
    BY DEF PlainKinds, Hindered
<1> QED BY <1>1, <1>2, <1>3 DEF Excepted

LEMMA ExceptedOfTrade ==
    ASSUME NEW u, NEW r, NEW act, NEW in
    PROVE  /\ Excepted("order return", u, r, act, in) <=> act = "return" /\ has_open(r)
           /\ Excepted("cart", u, r, act, in) <=> act = "checkout" /\ ~Allowed(u, "NEW_ORDER")
           /\ Excepted("on behalf", u, r, act, in) <=> act = "create" /\ ~Allowed(u, "NEW_ORDER")
           /\ Excepted("return", u, r, act, in) <=> act = "approve" /\ in = "nothing"
           /\ Excepted("order dispute", u, r, act, in) <=> in \in futileConversions
           /\ Excepted("payment dispute", u, r, act, in) <=> in = "ADJUSTMENT_CREDIT"
           /\ Excepted("adjustment form", u, r, act, in) <=> in = "beyond the credit" /\ u.role = "OWNER"
           /\ Excepted("adjustment", u, r, act, in) <=> in = "beyond the credit"
<1> USE DEF Excepted, KnownRefusal, Unwarned, Hindered, accepting
<1>1. Excepted("order return", u, r, act, in) <=> act = "return" /\ has_open(r)
    OBVIOUS
<1>2. /\ Excepted("cart", u, r, act, in) <=> act = "checkout" /\ ~Allowed(u, "NEW_ORDER")
      /\ Excepted("on behalf", u, r, act, in) <=> act = "create" /\ ~Allowed(u, "NEW_ORDER")
    OBVIOUS
<1>3. Excepted("return", u, r, act, in) <=> act = "approve" /\ in = "nothing"
    OBVIOUS
<1>4. /\ Excepted("order dispute", u, r, act, in) <=> in \in futileConversions
      /\ Excepted("payment dispute", u, r, act, in) <=> in = "ADJUSTMENT_CREDIT"
    OBVIOUS
<1>5. /\ Excepted("adjustment form", u, r, act, in) <=> in = "beyond the credit" /\ u.role = "OWNER"
      /\ Excepted("adjustment", u, r, act, in) <=> in = "beyond the credit"
    OBVIOUS
<1> QED BY <1>1, <1>2, <1>3, <1>4, <1>5

LEMMA ExceptedOfPartners ==
    ASSUME NEW u, NEW r, NEW act, NEW in
    PROVE  /\ Excepted("new partner", u, r, act, in) <=>
                 in = "too early" \/ r.status \in living \/ (act = "request" /\ ~Allowed(u, "PARTNERSHIP_NEW"))
           /\ Excepted("partner", u, r, act, in) <=>
                 \/ in = "too early"
                 \/ act \in accepting \cup {"reactivate"} /\ ~Activated(u, act)
                 \/ act = "code" /\ ~Allowed(u, "CATALOG_WRITE")
           /\ Excepted("terms", u, r, act, in) <=> in = "too early"
<1> USE DEF Excepted, KnownRefusal, Unwarned, Hindered, accepting
<1>1. Excepted("new partner", u, r, act, in) <=>
        in = "too early" \/ r.status \in living \/ (act = "request" /\ ~Allowed(u, "PARTNERSHIP_NEW"))
    OBVIOUS
<1>2. Excepted("partner", u, r, act, in) <=>
        \/ in = "too early"
        \/ act \in accepting \cup {"reactivate"} /\ ~Activated(u, act)
        \/ act = "code" /\ ~Allowed(u, "CATALOG_WRITE")
    BY DEF Activated
<1>3. Excepted("terms", u, r, act, in) <=> in = "too early"
    OBVIOUS
<1> QED BY <1>1, <1>2, <1>3

LEMMA ExceptedOfGoods ==
    ASSUME NEW u, NEW r, NEW act, NEW in
    PROVE  /\ Excepted("run", u, r, act, in) <=>
                 \/ r.status = "EMPTY" /\ act = "start"
                 \/ r.status = "LEFT" /\ act = "edit" /\ in # "a"
                 \/ act = "start" /\ ~Allowed(u, "ORDER_FULFILLMENT")
           /\ Excepted("delivery", u, r, act, in) <=> act = "dispatch" /\ ~Allowed(u, "ORDER_FULFILLMENT")
           /\ Excepted("stock", u, r, act, in) <=>
                 in \in futileLosses \/ (r.status = "HELD" /\ in = "into the reserved")
           /\ Excepted("product", u, r, act, in) <=>
                 in = "another base unit" \/ (in = "ACTIVE" /\ r.status # "ACTIVE" /\ ~RoomForOne(u))
           /\ Excepted("category", u, r, act, in) <=>
                 \/ act = "toggle" /\ r.status \in notEmpty
                 \/ act = "edit" /\ ~validate_parent(r, in)
           /\ Excepted("price", u, r, act, in) <=>
                 in = "too early" \/ (act = "price" /\ r.status \in withFuture \cup {"CLOSED"})
<1> USE DEF Excepted, KnownRefusal, Unwarned, Hindered, accepting
<1>1. Excepted("run", u, r, act, in) <=>
        \/ r.status = "EMPTY" /\ act = "start"
        \/ r.status = "LEFT" /\ act = "edit" /\ in # "a"
        \/ act = "start" /\ ~Allowed(u, "ORDER_FULFILLMENT")
    OBVIOUS
<1>2. Excepted("delivery", u, r, act, in) <=> act = "dispatch" /\ ~Allowed(u, "ORDER_FULFILLMENT")
    OBVIOUS
<1>3. Excepted("stock", u, r, act, in) <=> in \in futileLosses \/ (r.status = "HELD" /\ in = "into the reserved")
    OBVIOUS
<1>4. Excepted("product", u, r, act, in) <=>
        in = "another base unit" \/ (in = "ACTIVE" /\ r.status # "ACTIVE" /\ ~RoomForOne(u))
    OBVIOUS
<1>5. Excepted("category", u, r, act, in) <=>
        \/ act = "toggle" /\ r.status \in notEmpty
        \/ act = "edit" /\ ~validate_parent(r, in)
    OBVIOUS
<1>6. Excepted("price", u, r, act, in) <=>
        in = "too early" \/ (act = "price" /\ r.status \in withFuture \cup {"CLOSED"})
    OBVIOUS
<1> QED BY <1>1, <1>2, <1>3, <1>4, <1>5, <1>6

LEMMA ExceptedOfPeople ==
    ASSUME NEW u, NEW r, NEW act, NEW in
    PROVE  /\ Excepted("user", u, r, act, in) <=> act = "block" /\ r.status = "SUPERADMIN"
           /\ Excepted("organization", u, r, act, in) <=>
                 \/ act = "activate" /\ r.status \notin {"SUSPENDED", "BLOCKED"}
                 \/ act = "suspend" /\ r.status # "ACTIVE"
                 \/ act = "block" /\ r.status \notin {"ACTIVE", "SUSPENDED"}
           /\ Excepted("invitation", u, r, act, in) <=> act = "invite" /\ r.status \in {"PENDING", "JOINED"}
           /\ Excepted("inbox", u, r, act, in) <=> act = "accept" /\ ~seatFree(u)
           /\ Excepted("member", u, r, act, in) <=> act = "reactivate" /\ IsCompany(u) /\ ~RoomForOne(u)
<1> USE DEF Excepted, KnownRefusal, Unwarned, Hindered, accepting
<1>1. Excepted("user", u, r, act, in) <=> act = "block" /\ r.status = "SUPERADMIN"
    OBVIOUS
<1>2. Excepted("organization", u, r, act, in) <=>
        \/ act = "activate" /\ r.status \notin {"SUSPENDED", "BLOCKED"}
        \/ act = "suspend" /\ r.status # "ACTIVE"
        \/ act = "block" /\ r.status \notin {"ACTIVE", "SUSPENDED"}
    OBVIOUS
<1>3. Excepted("invitation", u, r, act, in) <=> act = "invite" /\ r.status \in {"PENDING", "JOINED"}
    OBVIOUS
<1>4. Excepted("inbox", u, r, act, in) <=> act = "accept" /\ ~seatFree(u)
    BY DEF seatFree
<1>5. Excepted("member", u, r, act, in) <=> act = "reactivate" /\ IsCompany(u) /\ ~RoomForOne(u)
    OBVIOUS
<1> QED BY <1>1, <1>2, <1>3, <1>4, <1>5

(***************************************************************************)
(* Kind by kind, what is offered is accepted exactly then.                 *)
(***************************************************************************)
\* An order that can be seen.
LEMMA OrdersAccept ==
    ASSUME NEW u \in People, NEW r, OrderVisible(u, r)
    PROVE  AcceptedAll("order", u, r)
<1>0. \A act, in : ~Excepted("order", u, r, act, in)
    BY NothingExcepted DEF PlainKinds
<1> SUFFICES ASSUME NEW act \in OrderOffers(u, r), NEW in \in OrderInputs(u, act)
             PROVE  OrderTakes(u, r, act, in) # {}
    BY <1>0 DEF AcceptedAll, Accepted, Offers, Inputs, Takes
<1> USE SomeRecord DEF If
<1>1. CASE act = "confirm"
    <2>1. /\ IsCompany(u) /\ Has(u, "orders.confirm") /\ r.status \in early /\ Allowed(u, "ORDER_FULFILLMENT")
        BY <1>1 DEF OrderOffers, fulfillment, SeesAllowed
    <2>2. in = "discounted" => Has(u, "orders.discount")
        BY <1>1 DEF OrderInputs, ConfirmationInputs, If
    <2>3. in = "over a limit" => Has(u, "orders.override")
        BY <1>1 DEF OrderInputs, ConfirmationInputs, If
    <2> QED BY <1>1, <2>1, <2>2, <2>3 DEF OrderTakes, OrderConfirms
<1>2. CASE act = "mark-viewed"
    <2>1. IsCompany(u) /\ r.status = "NEW" /\ Has(u, "orders.view")
        BY <1>2 DEF OrderOffers, MarksViewed, OrderVisible
    <2> QED BY <1>2, <2>1 DEF OrderTakes, OrderMarkedViewed
<1>3. CASE act = "reject"
    BY <1>3 DEF OrderOffers, OrderTakes, OrderActs
<1>4. CASE act = "cancel"
    <2>1. cancelAllowed(u, r)
        BY <1>4 DEF OrderOffers
    <2>2. /\ Has(u, "orders.cancel") /\ r.status \in early \cup reserved
          /\ IsStore(u) => r.status \in early /\ (u.role = "SELLER" => r.by = u)
        BY <2>1, Held DEF cancelAllowed
    <2> QED BY <1>4, <2>2 DEF OrderTakes, OrderActs
<1>5. CASE act \in {"start-assembling", "mark-ready", "reattempt"}
    BY <1>5 DEF OrderOffers, OrderTakes, OrderActs, fulfillment, SeesAllowed
<1> QED BY <1>1, <1>2, <1>3, <1>4, <1>5 DEF OrderOffers

\* The other records, one lemma for the screens of each module.
LEMMA BuyingAccepts ==
    ASSUME NEW u \in People, NEW r, NEW k \in {"order return", "cart", "on behalf"}
    PROVE  AcceptedAll(k, u, r)
<1> SUFFICES ASSUME NEW act \in Offers(k, u, r), NEW in \in Inputs(k, u, r, act)
             PROVE  Accepted(k, u, r, act, in)
    BY DEF AcceptedAll
<1> USE SomeRecord DEF Accepted, If
<1>1. CASE k = "order return"
    <2>1. /\ act \in {"return", "dispute"} /\ IsStore(u)
          /\ act = "return" => Has(u, "returns.request") /\ OrderStatus(r) \in RETURNABLE_STATUSES
          /\ act = "dispute" => Has(u, "disputes.open") /\ OrderStatus(r) = "DELIVERED"
        BY <1>1 DEF Offers, OrderReturnOffers
    <2>2. CASE act = "return"
        <3>1. OrderReturnTakes(u, r, act) # {} <=> ~has_open(r)
            BY <2>1, <2>2 DEF OrderReturnTakes, ReturnRequested
        <3> QED BY <1>1, <2>2, <3>1, ExceptedOfTrade DEF Takes
    <2>3. CASE act = "dispute"
        <3>1. OrderReturnTakes(u, r, act) # {}
            BY <2>1, <2>3 DEF OrderReturnTakes, DisputeOpened
        <3>2. ~Excepted("order return", u, r, act, in)
            <4>1. Excepted("order return", u, r, act, in) <=> act = "return" /\ has_open(r)
                BY ExceptedOfTrade
            <4> QED BY <2>3, <4>1
        <3> QED BY <1>1, <3>1, <3>2 DEF Takes
    <2> QED BY <2>1, <2>2, <2>3
<1>2. CASE k = "cart"
    <2>1. act \in CartOffers(u, r)
        BY <1>2 DEF Offers
    <2>2. act \in {"add", "set", "clear", "checkout"} /\ Has(u, "cart.manage") /\ IsStore(u)
        BY <2>1, Together DEF CartOffers
    <2>3. act = "checkout" => r.status # "0"
        BY <2>1 DEF CartOffers
    <2>4. CASE act = "checkout"
        <3>1. CartTakes(u, r, act, in) # {} <=> Allowed(u, "NEW_ORDER")
            BY <2>2, <2>3, <2>4 DEF CartTakes
        <3> QED BY <1>2, <2>4, <3>1, ExceptedOfTrade DEF Takes
    <2>5. CASE act # "checkout"
        <3>1. CartTakes(u, r, act, in) # {}
            BY <2>2, <2>5 DEF CartTakes
        <3> QED BY <1>2, <2>5, <3>1, ExceptedOfTrade DEF Takes
    <2> QED BY <2>4, <2>5
<1>3. CASE k = "on behalf"
    <2>1. act = "create" /\ IsCompany(u) /\ Has(u, "orders.create")
        BY <1>3 DEF Offers, OnBehalfOffers
    <2>2. OnBehalfTakes(u, r) # {} <=> Allowed(u, "NEW_ORDER")
        BY <2>1 DEF OnBehalfTakes
    <2> QED BY <1>3, <2>1, <2>2, ExceptedOfTrade DEF Takes
<1> QED BY <1>1, <1>2, <1>3

LEMMA ReturnsAccept ==
    ASSUME NEW u \in People, NEW r, NEW k \in {"return", "order dispute", "payment dispute"}
    PROVE  AcceptedAll(k, u, r)
<1> SUFFICES ASSUME NEW act \in Offers(k, u, r), NEW in \in Inputs(k, u, r, act)
             PROVE  Accepted(k, u, r, act, in)
    BY DEF AcceptedAll
<1> USE SomeRecord DEF Accepted, If
<1>1. CASE k = "return"
    <2>1. act \in ReturnOffers(u, r)
        BY <1>1 DEF Offers
    <2>2. r.status \in RETURN_TRANSITIONS[act].from
        <3>1. \/ act \in {"approve", "reject", "cancel"} /\ r.status = "REQUESTED"
              \/ act = "receive" /\ r.status = "APPROVED"
              \/ act = "complete" /\ r.status = "RECEIVED"
            BY <2>1 DEF ReturnOffers, canCancel
        <3>2. /\ "REQUESTED" \in RETURN_TRANSITIONS["approve"].from
              /\ "REQUESTED" \in RETURN_TRANSITIONS["reject"].from
              /\ "REQUESTED" \in RETURN_TRANSITIONS["cancel"].from
              /\ "APPROVED" \in RETURN_TRANSITIONS["receive"].from
              /\ "RECEIVED" \in RETURN_TRANSITIONS["complete"].from
            BY DEF RETURN_TRANSITIONS
        <3> QED BY <3>1, <3>2
    <2>3. CASE act = "cancel"
        <3>1. canCancel(u, r)
            BY <2>1, <2>3 DEF ReturnOffers
        <3>2. IF IsStore(u) THEN Has(u, "returns.cancel_own") /\ r.status = "REQUESTED" ELSE Has(u, "returns.approve")
            BY <3>1, Held DEF canCancel
        <3>3. ReturnTakes(u, r, act, in) # {}
            BY <2>2, <2>3, <3>2 DEF ReturnTakes
        <3> QED BY <1>1, <2>3, <3>3, ExceptedOfTrade DEF Takes
    <2>4. CASE act # "cancel"
        <3>1. act \in {"approve", "reject", "receive", "complete"} /\ IsCompany(u)
            BY <2>1, <2>4 DEF ReturnOffers
        <3>2. /\ act \in {"approve", "reject"} => Has(u, "returns.approve")
              /\ act = "receive" => Has(u, "returns.receive")
              /\ act = "complete" => Has(u, "returns.complete")
            BY <2>1, <2>4 DEF ReturnOffers
        <3>3. ReturnTakes(u, r, act, in) # {} <=> ~(act = "approve" /\ in = "nothing")
            BY <2>2, <2>4, <3>1, <3>2 DEF ReturnTakes
        <3> QED BY <1>1, <3>3, ExceptedOfTrade DEF Takes
    <2> QED BY <2>3, <2>4
<1>2. CASE k \in {"order dispute", "payment dispute"}
    <2> DEFINE target == IF k = "order dispute" THEN "ORDER" ELSE "PAYMENT"
    <2>1. act \in DisputeOffers(u, r) /\ in \in DisputeInputs(target, act)
        BY <1>2 DEF Offers, Inputs
    <2>2. act = "resolve" =>
            in \in {"NO_ACTION", "ADJUSTMENT_CREDIT"}
                   \cup If(target = "ORDER", {"CONVERTED_TO_RETURN"} \cup futileConversions)
        BY <2>1 DEF DisputeInputs, ResolveInputs
    <2>3. act # "resolve" => in \notin futileConversions \cup {"ADJUSTMENT_CREDIT"}
        BY <2>1 DEF DisputeInputs, futileConversions
    <2>4. DisputeTakes(u, r, target, act, in) # {} <=>
            ~(in \in futileConversions \/ (in = "ADJUSTMENT_CREDIT" /\ target # "ORDER"))
        <3>1. act \in {"start-review", "resolve", "reject", "withdraw", "message"}
            BY <2>1 DEF DisputeOffers
        <3>2. CASE act = "resolve"
            <4> HIDE DEF target
            <4>1. IsCompany(u) /\ Has(u, "disputes.resolve") /\ r.status \in openDisputeStatuses
                BY <2>1, <3>2 DEF DisputeOffers
            <4>2. "NO_ACTION" \notin futileConversions /\ "ADJUSTMENT_CREDIT" \notin futileConversions
                BY DEF futileConversions
            <4> QED BY <2>2, <3>2, <4>1, <4>2 DEF DisputeTakes, DisputeResolved
        <3>3. CASE act # "resolve"
            BY <2>1, <2>3, <3>1, <3>3 DEF DisputeOffers, DisputeTakes
        <3> QED BY <3>2, <3>3
    <2>5. k = "payment dispute" => in \notin futileConversions
        BY <2>2, <2>3 DEF futileConversions
    <2> HIDE DEF target
    <2>6. CASE k = "order dispute"
        BY <2>4, <2>6, ExceptedOfTrade DEF Takes, target
    <2>7. CASE k = "payment dispute"
        BY <2>4, <2>5, <2>7, ExceptedOfTrade DEF Takes, target
    <2> QED BY <1>2, <2>6, <2>7
<1> QED BY <1>1, <1>2

LEMMA MoneyAccepts ==
    ASSUME NEW u \in People, NEW r, NEW k \in {"payment form", "payment", "adjustment form", "adjustment"}
    PROVE  AcceptedAll(k, u, r)
<1> SUFFICES ASSUME NEW act \in Offers(k, u, r), NEW in \in Inputs(k, u, r, act)
             PROVE  Accepted(k, u, r, act, in)
    BY DEF AcceptedAll
<1> USE SomeRecord, Held DEF Accepted, If
<1>1. CASE k = "payment form"
    BY <1>1, NothingExcepted
       DEF PlainKinds, Offers, PaymentFormOffers, Inputs, PaymentFormInputs, Takes, PaymentRecorded
<1>2. CASE k = "payment"
    BY <1>2, NothingExcepted DEF PlainKinds, Offers, PaymentOffers, Takes, PaymentTakes
<1>3. CASE k = "adjustment form"
    <2>1. IsCompany(u) /\ Has(u, "adjustments.create")
        BY <1>3 DEF Offers, AdjustmentFormOffers
    <2>2. AdjustmentCreated(u, r, in) # {} <=> ~(in = "beyond the credit" /\ u.role = "OWNER")
        BY <2>1 DEF AdjustmentCreated
    <2> QED BY <1>3, <2>2, ExceptedOfTrade DEF Takes
<1>4. CASE k = "adjustment"
    <2>1. act = "reject" => in # "beyond the credit"
        BY <1>4 DEF Inputs, AdjustmentInputs
    <2>2. /\ IsCompany(u) /\ Has(u, "adjustments.approve") /\ r.status = "PENDING_APPROVAL"
          /\ act \in {"approve", "reject"}
        BY <1>4 DEF Offers, AdjustmentOffers
    <2>3. AdjustmentTakes(u, r, act, in) # {} <=> in # "beyond the credit"
        BY <2>1, <2>2 DEF AdjustmentTakes
    <2> QED BY <1>4, <2>3, ExceptedOfTrade DEF Takes
<1> QED BY <1>1, <1>2, <1>3, <1>4

LEMMA PartnersAccept ==
    ASSUME NEW u \in People, NEW r, NEW k \in {"new partner", "partner", "terms"}
    PROVE  AcceptedAll(k, u, r)
<1> SUFFICES ASSUME NEW act \in Offers(k, u, r), NEW in \in Inputs(k, u, r, act)
             PROVE  Accepted(k, u, r, act, in)
    BY DEF AcceptedAll
<1> USE SomeRecord DEF Accepted, If
<1>0. in \in {"-", "in order", "too early"}
      /\ (in = "too early" => act \in {"invite", "append", "accept with terms"})
    BY DEF Inputs, PartnerInputs
<1>1. CASE k = "new partner"
    <2>1. canNew(u) /\ act = IF IsCompany(u) THEN "invite" ELSE "request"
        BY <1>1 DEF Offers, NewPartnerOffers
    <2>2. u.side = (IF act = "invite" THEN "COMPANY" ELSE "STORE") /\ Has(u, "partners.manage")
        BY <2>1, Held DEF canNew, IsCompany, IsStore
    <2>3. act = "invite" => Allowed(u, "PARTNERSHIP_NEW") /\ IsCompany(u) /\ Has(u, "terms.manage")
        BY <2>1, SeesWhatIsAllowed, Held DEF canNew
    <2>4. {[x EXCEPT !.by = u] : x \in To(r, "PENDING")} # {}
        BY SomeNamed
    <2>5. NewPartnerTakes(u, r, act, in) # {} <=>
            /\ Allowed(u, "PARTNERSHIP_NEW") /\ r.status \notin living
            /\ act = "invite" => TermsAppended(u, in)
        BY <2>2, <2>4 DEF NewPartnerTakes
    <2>6. act = "invite" => (TermsAppended(u, in) <=> in # "too early")
        BY <2>3 DEF TermsAppended
    <2> QED BY <1>0, <1>1, <2>1, <2>3, <2>5, <2>6, ExceptedOfPartners DEF Takes
<1>2. CASE k = "partner"
    <2>1. act \in PartnerOffers(u, r)
        BY <1>2 DEF Offers
    <2>2. CASE act = "code"
        <3>1. IsCompany(u) /\ Has(u, "partners.manage")
            BY <2>1, <2>2 DEF PartnerOffers, Pressed, PartnerActions
        <3>2. Excepted("partner", u, r, act, in) <=> ~Allowed(u, "CATALOG_WRITE")
            BY <1>0, <2>2, ExceptedOfPartners DEF accepting
        <3> QED BY <1>2, <2>2, <3>1, <3>2 DEF Takes, PartnerTakes, CodePatched
    <2>3. CASE act # "code"
        <3>1. PICK a \in PartnerActions : canAct(u, r, a) /\ act = Pressed(r, a)
            BY <2>1, <2>3 DEF PartnerOffers
        <3>2. act \in accepting <=> a = "accept"
            BY <3>1 DEF Pressed, PartnerActions, accepting
        <3>3. a # "accept" => act = a
            BY <3>1 DEF Pressed
        <3>4. act \in accepting => (act = "accept with terms" <=> needsTerms(r))
            BY <3>1, <3>2 DEF Pressed
        <3>5. act = "accept with terms" => IsCompany(u) /\ Has(u, "terms.manage")
            <4> SUFFICES ASSUME act = "accept with terms" PROVE IsCompany(u) /\ Has(u, "terms.manage")
                OBVIOUS
            <4>1. a = "accept" /\ needsTerms(r)
                BY <3>2, <3>4 DEF accepting
            <4>2. Has(u, "partners.manage") /\ u.side # "STORE"
                BY <3>1, <4>1 DEF canAct, needsTerms
            <4> QED BY <4>2, Held DEF IsStore
        <3>6. PartnerTransition(u, r, act, in) # {} <=>
                ~(in = "too early" \/ (act \in accepting \cup {"reactivate"} /\ ~Activated(u, act)))
            <4>1. CASE a = "accept"
                <5>1. Has(u, "partners.manage") /\ r.status \in pending /\ u.side # r.by.side
                    BY <3>1, <4>1 DEF canAct
                <5>2. act \in accepting /\ act \in {"accept", "accept with terms"}
                    BY <3>2, <4>1 DEF accepting
                <5>3. act = "accept with terms" => (TermsAppended(u, in) <=> in # "too early")
                    BY <3>5 DEF TermsAppended
                <5>4. act = "accept" => in # "too early"
                    BY <1>0
                <5> QED BY <3>4, <5>1, <5>2, <5>3, <5>4 DEF PartnerTransition
            <4>2. CASE a # "accept"
                <5>1. act = a /\ act \notin accepting /\ in # "too early"
                    BY <1>0, <3>1, <3>2, <3>3, <4>2 DEF PartnerActions
                <5>2. act \in {"decline", "cancel", "suspend", "reactivate", "terminate"}
                    BY <3>1, <4>2, <5>1 DEF PartnerActions
                <5> QED BY <3>1, <5>1, <5>2 DEF PartnerTransition, canAct, accepting
            <4> QED BY <4>1, <4>2
        <3> QED BY <1>2, <2>3, <3>6, ExceptedOfPartners DEF Takes, PartnerTakes
    <2> QED BY <2>2, <2>3
<1>3. CASE k = "terms"
    <2>1. IsCompany(u) /\ Has(u, "terms.manage") /\ Allowed(u, "CATALOG_WRITE") /\ r.status \in living
        BY <1>3, SeesWhatIsAllowed DEF Offers, TermsOffers, canWrite
    <2> QED BY <1>3, <2>1, ExceptedOfPartners DEF Takes, TermsTakes, TermsAppended
<1> QED BY <1>1, <1>2, <1>3

LEMMA DeliveriesAccept ==
    ASSUME NEW u \in People, NEW r, NEW k \in {"board", "run", "delivery"}
    PROVE  AcceptedAll(k, u, r)
<1> SUFFICES ASSUME NEW act \in Offers(k, u, r), NEW in \in Inputs(k, u, r, act)
             PROVE  Accepted(k, u, r, act, in)
    BY DEF AcceptedAll
<1> USE SomeRecord DEF Accepted, If
<1>1. CASE k = "board"
    BY <1>1, Held, NothingExcepted DEF PlainKinds, Offers, BoardOffers, Takes, BoardTakes
<1>2. CASE k = "run"
    <2>1. act \in RunOffers(u, r) /\ Has(u, "delivery.plan") /\ IsCompany(u)
        BY <1>2, Held DEF Offers, RunOffers
    <2>2. \/ act \in {"start", "cancel", "edit"} /\ r.status \in {"DRAFT", "EMPTY", "LEFT"}
          \/ act = "finish" /\ r.status = "SETTLED"
        BY <2>1 DEF RunOffers, drafts
    <2>3. Excepted("run", u, r, act, in) <=>
            \/ r.status = "EMPTY" /\ act = "start"
            \/ r.status = "LEFT" /\ act = "edit" /\ in # "a"
            \/ act = "start" /\ ~Allowed(u, "ORDER_FULFILLMENT")
        BY ExceptedOfGoods
    <2>4. CASE act = "start"
        <3>1. RunTakes(u, r, act, in) # {} <=> r.status # "EMPTY" /\ Allowed(u, "ORDER_FULFILLMENT")
            BY <2>1, <2>2, <2>4 DEF RunTakes
        <3> QED BY <1>2, <2>3, <2>4, <3>1 DEF Takes
    <2>5. CASE act = "edit"
        <3>1. RunTakes(u, r, act, in) # {} <=> ~(r.status = "LEFT" /\ in # "a")
            BY <2>1, <2>2, <2>5 DEF RunTakes, drafts
        <3> QED BY <1>2, <2>3, <2>5, <3>1 DEF Takes
    <2>6. CASE act \in {"cancel", "finish"}
        <3>1. RunTakes(u, r, act, in) # {}
            BY <2>1, <2>2, <2>6 DEF RunTakes, drafts
        <3> QED BY <1>2, <2>3, <2>6, <3>1 DEF Takes
    <2> QED BY <2>2, <2>4, <2>5, <2>6
<1>3. CASE k = "delivery"
    <2>1. act \in DeliveryOffers(u, r)
        BY <1>3 DEF Offers
    <2>2. CASE act = "dispatch"
        <3>1. DeliveryTakes(u, r, act) # {} <=> Allowed(u, "ORDER_FULFILLMENT")
            BY <2>1, <2>2, Held DEF DeliveryOffers, DeliveryTakes
        <3> QED BY <1>3, <2>2, <3>1, ExceptedOfGoods DEF Takes
    <2>3. CASE act # "dispatch"
        <3>1. DeliveryTakes(u, r, act) # {}
            BY <2>1, <2>3 DEF DeliveryOffers, DeliveryTakes
        <3> QED BY <1>3, <2>3, <3>1, ExceptedOfGoods DEF Takes
    <2> QED BY <2>2, <2>3
<1> QED BY <1>1, <1>2, <1>3

LEMMA GoodsAccept ==
    ASSUME NEW u \in People, NEW r,
           NEW k \in {"stock", "receipt", "product", "unit", "category", "price list", "price", "import"}
    PROVE  AcceptedAll(k, u, r)
<1> SUFFICES ASSUME NEW act \in Offers(k, u, r), NEW in \in Inputs(k, u, r, act)
             PROVE  Accepted(k, u, r, act, in)
    BY DEF AcceptedAll
<1> USE SomeRecord DEF Accepted, If
<1>0. \A p : writable(u, p) => mayWrite(u, p)
    BY DEF writable, mayWrite, SeesAllowed
<1>1. CASE k = "stock"
    <2>1. act \in StockOffers(u, r) /\ in \in StockInputs(act)
        BY <1>1 DEF Offers, Inputs
    <2>2. CASE act = "threshold"
        <3>1. in = "-"
            BY <2>1, <2>2 DEF StockInputs
        <3>2. StockTakes(u, r, act, in) # {}
            BY <1>0, <2>1, <2>2 DEF StockOffers, StockTakes, ThresholdSet
        <3>3. ~Excepted("stock", u, r, act, in)
            <4>1. Excepted("stock", u, r, act, in) <=>
                    in \in futileLosses \/ (r.status = "HELD" /\ in = "into the reserved")
                BY ExceptedOfGoods
            <4> QED BY <3>1, <4>1 DEF futileLosses
        <3> QED BY <1>1, <3>2, <3>3 DEF Takes
    <2>3. CASE act # "threshold"
        <3>1. StockTakes(u, r, act, in) # {} <=>
                ~(in \in futileLosses \/ (r.status = "HELD" /\ in = "into the reserved"))
            BY <1>0, <2>1, <2>3 DEF StockOffers, StockTakes, StockMoved
        <3> QED BY <1>1, <3>1, ExceptedOfGoods DEF Takes
    <2> QED BY <2>2, <2>3
<1>2. CASE k = "receipt"
    BY <1>0, <1>2, NothingExcepted DEF PlainKinds, Offers, ReceiptOffers, Takes, ReceiptTakes
<1>3. CASE k = "product"
    <2>1. mayWrite(u, "catalog.manage") /\ (act = "create" <=> r.status = "NONE")
        BY <1>0, <1>3 DEF Offers, ProductOffers
    <2>2. ProductTakes(u, r, act, in) # {} <=>
            ~(in = "another base unit" \/ (in = "ACTIVE" /\ r.status # "ACTIVE" /\ ~RoomForOne(u)))
        BY <2>1 DEF ProductTakes
    <2> QED BY <1>3, <2>2, ExceptedOfGoods DEF Takes
<1>4. CASE k = "unit"
    BY <1>0, <1>4, NothingExcepted DEF PlainKinds, Offers, UnitOffers, Takes, UnitTakes
<1>5. CASE k = "category"
    <2>1. /\ mayWrite(u, "catalog.manage")
          /\ act \in {"add", "edit", "toggle", "move"} /\ (act = "add" <=> r.status = "NONE")
        BY <1>0, <1>5 DEF Offers, CategoryOffers
    <2>2. CategoryToggled(r) # {}
        BY DEF CategoryToggled
    <2>3. CategoryTakes(u, r, act, in) # {} <=>
            ~((act = "toggle" /\ r.status \in notEmpty) \/ (act = "edit" /\ ~validate_parent(r, in)))
        BY <2>1, <2>2 DEF CategoryTakes
    <2> QED BY <1>5, <2>3, ExceptedOfGoods DEF Takes
<1>6. CASE k = "price list"
    BY <1>0, <1>6, NothingExcepted DEF PlainKinds, Offers, ListOffers, Takes, ListTakes
<1>7. CASE k = "price"
    <2>1. act \in PriceOffers(u, r) /\ in \in PriceInputs(act)
        BY <1>7 DEF Offers, Inputs
    <2>2. PriceTakes(u, r, act, in) # {} <=>
            ~(in = "too early" \/ (act = "price" /\ r.status \in withFuture \cup {"CLOSED"}))
        BY <1>0, <2>1 DEF PriceOffers, PriceInputs, PriceTakes
    <2> QED BY <1>7, <2>2, ExceptedOfGoods DEF Takes
<1>8. CASE k = "import"
    BY <1>0, <1>8, NothingExcepted DEF PlainKinds, Offers, ImportOffers, Takes, ImportTakes
<1> QED BY <1>1, <1>2, <1>3, <1>4, <1>5, <1>6, <1>7, <1>8

LEMMA PlatformAccepts ==
    ASSUME NEW u \in People, NEW r,
           NEW k \in {"subscription", "billing", "plan", "plan request", "verification", "review", "user",
                      "organization", "event", "issue", "ticket form", "ticket"}
    PROVE  AcceptedAll(k, u, r)
<1> SUFFICES ASSUME NEW act \in Offers(k, u, r), NEW in \in Inputs(k, u, r, act)
             PROVE  Accepted(k, u, r, act, in)
    BY DEF AcceptedAll
<1> USE SomeRecord, NothingExcepted, Held DEF Accepted, If
<1>1. CASE k = "subscription"
    BY <1>1 DEF PlainKinds, Offers, SubscriptionOffers, Takes, SubscriptionTakes
<1>2. CASE k = "billing"
    BY <1>2 DEF PlainKinds, Offers, BillingOffers, Takes, BillingTakes, PaymentTaken
<1>3. CASE k \in {"plan", "plan request"}
    BY <1>3 DEF PlainKinds, Offers, PlanOffers, RequestOffers, Takes, PlanTakes, RequestTakes
<1>4. CASE k = "verification"
    BY <1>4 DEF PlainKinds, Offers, VerificationOffers, Takes, VerificationTakes
<1>5. CASE k = "review"
    <2>1. {[x EXCEPT !.by = u] : x \in To(r, "UNDER_REVIEW")} # {}
        BY SomeNamed
    <2>2. ReviewTakes(u, r, act) # {}
        BY <1>5, <2>1 DEF Offers, ReviewOffers, ReviewTakes
    <2> QED BY <1>5, <2>2 DEF PlainKinds, Takes
<1>6. CASE k = "user"
    BY <1>6, ExceptedOfPeople DEF Offers, UserOffers, Takes, UserTakes
<1>7. CASE k = "organization"
    <2>1. IsPlatform(u) /\ act \in {"suspend", "block", "activate", "transfer-ownership", "legal"}
        BY <1>7 DEF Offers, OrganizationOffers, ORG_ACTIONS
    <2>2. \A status : OrganizationStatusSet(r, status) # {} <=> <<r.status, status>> \in ALLOWED_ORG_TRANSITIONS
        BY DEF OrganizationStatusSet
    <2>3. /\ <<r.status, "SUSPENDED">> \in ALLOWED_ORG_TRANSITIONS <=> r.status = "ACTIVE"
          /\ <<r.status, "BLOCKED">> \in ALLOWED_ORG_TRANSITIONS <=> r.status \in {"ACTIVE", "SUSPENDED"}
          /\ <<r.status, "ACTIVE">> \in ALLOWED_ORG_TRANSITIONS <=> r.status \in {"SUSPENDED", "BLOCKED"}
        BY DEF ALLOWED_ORG_TRANSITIONS
    <2>4. OrganizationTakes(u, r, act) # {} <=>
            ~(\/ act = "activate" /\ r.status \notin {"SUSPENDED", "BLOCKED"}
              \/ act = "suspend" /\ r.status # "ACTIVE"
              \/ act = "block" /\ r.status \notin {"ACTIVE", "SUSPENDED"})
        BY <2>1, <2>2, <2>3 DEF OrganizationTakes
    <2> QED BY <1>7, <2>4, ExceptedOfPeople DEF Takes
<1>8. CASE k \in {"event", "issue"}
    BY <1>8 DEF PlainKinds, Offers, OutboxOffers, IssueOffers, Takes, OutboxTakes, IssueTakes
<1>9. CASE k \in {"ticket form", "ticket"}
    BY <1>9 DEF PlainKinds, Offers, TicketFormOffers, TicketOffers, Takes, TicketTakes
<1> QED BY <1>1, <1>2, <1>3, <1>4, <1>5, <1>6, <1>7, <1>8, <1>9

\* The one kind whose page offers by what a status is not: a member of no other status may be there.
MemberStatuses == {"ACTIVE", "SUSPENDED", "REVOKED"}

LEMMA TeamsAccept ==
    ASSUME NEW u \in People, NEW r, NEW k \in {"member", "invitation", "inbox", "seat", "profile"},
           k = "member" => r.status \in MemberStatuses
    PROVE  AcceptedAll(k, u, r)
<1> SUFFICES ASSUME NEW act \in Offers(k, u, r), NEW in \in Inputs(k, u, r, act)
             PROVE  Accepted(k, u, r, act, in)
    BY DEF AcceptedAll
<1> USE SomeRecord, Held DEF Accepted, If
<1>1. CASE k = "member"
    <2>1. /\ u.role = "OWNER" /\ locked_member(u, r) /\ r.status # "REVOKED"
          /\ act \in {"role", "suspend", "reactivate", "revoke"}
          /\ act = "suspend" => r.status = "ACTIVE"
          /\ act = "reactivate" => r.status # "ACTIVE" /\ subscriptionAllowed(u)
        BY <1>1 DEF Offers, MemberOffers, locked_member
    <2>2. MemberTakes(u, r, act) # {} <=> ~(act = "reactivate" /\ IsCompany(u) /\ ~RoomForOne(u))
        BY <1>1, <2>1 DEF MemberTakes, change_role, transition_member, seatFree, MemberStatuses
    <2> QED BY <1>1, <2>2, ExceptedOfPeople DEF Takes
<1>2. CASE k = "invitation"
    BY <1>2, ExceptedOfPeople DEF Offers, InvitationOffers, Takes, InvitationTakes, invite, revoke_invitation
<1>3. CASE k = "inbox"
    BY <1>3, ExceptedOfPeople DEF Offers, InboxOffers, Takes, respond
<1>4. CASE k = "seat"
    BY <1>4, NothingExcepted DEF PlainKinds, Offers, LeaveOffers, Takes, LeaveTakes
<1>5. CASE k = "profile"
    <2>1. act \in ProfileOffers(u, r) /\ in \in ProfileInputs(u, r, act)
        BY <1>5 DEF Offers, Inputs
    <2>2. ~Excepted(k, u, r, act, in)
        BY <1>5, NothingExcepted DEF PlainKinds
    <2>3. CASE act = "save"
        <3>1. in \in editable(u, r)
            BY <2>1, <2>3 DEF ProfileInputs
        <3>2. update_profile(u, r, in) # {} /\ ~IsPlatform(u)
            BY <3>1 DEF editable, update_profile
        <3> QED BY <1>5, <2>2, <2>3, <3>2 DEF Takes, ProfileTakes
    <2>4. CASE act # "save"
        <3>1. Has(u, "org.edit_branding")
            BY <2>1, <2>4 DEF ProfileOffers
        <3> QED BY <1>5, <2>2, <2>4, <3>1 DEF Takes, ProfileTakes, change_logo
    <2> QED BY <2>3, <2>4
<1> QED BY <1>1, <1>2, <1>3, <1>4, <1>5

\* The page has a record of some kind; a member is active, suspended or revoked.
MembersInv == kind \in AllKinds /\ (kind = "member" => srv.status \in MemberStatuses)

LEMMA MembersMove ==
    ASSUME NEW u, NEW r, NEW act, Offered("member", act),
           NEW x \in MemberTakes(u, r, act), r.status \in MemberStatuses, IsRecord(r)
    PROVE  x.status \in MemberStatuses
<1>1. \A s : \A y \in To(r, s) : y.status = s
    BY DEF To, IsRecord
<1>2. PICK v, m : act \in MemberOffers(v, m)
    BY DEF Offered, Offers
<1>3. act \in {"role", "suspend", "reactivate", "revoke"}
    BY <1>2 DEF MemberOffers, If
<1>4. \E s \in MemberStatuses : x \in To(r, s)
    BY <1>3 DEF MemberTakes, change_role, transition_member, If, MemberStatuses
<1> QED BY <1>1, <1>4

LEMMA MembersStep == VersionsInv /\ MembersInv /\ [Next]_vars => MembersInv'
<1> SUFFICES ASSUME VersionsInv, MembersInv, [Next]_vars PROVE MembersInv'
    OBVIOUS
<1>1. kind' = kind
    BY DEF Next, vars, Poll, Revisit, ServeGet, Arrive, FetchFails, Decide, Close, Submit, MarkViewed,
           Replay, Perform, Refuse, Succeeded, Refused, GiveUp, Elsewhere
<1>2. ASSUME kind = "member" PROVE srv'.status \in MemberStatuses
    <2>1. IsRecord(srv) /\ srv.status \in MemberStatuses
        BY <1>2, SrvIsKnown DEF MembersInv
    <2>2. CASE UNCHANGED srv
        BY <2>1, <2>2
    <2>3. ASSUME NEW q \in wire, Perform(q) PROVE srv'.status \in MemberStatuses
        <3>1. srv' \in Takes(kind, me, srv, q.say.act, q.say.in)
            BY <2>3 DEF Perform, Taken, If
        <3>2. Offered("member", q.say.act)
            BY <1>2 DEF VersionsInv, ActsAreOffered
        <3> QED BY <1>2, <2>1, <3>1, <3>2, MembersMove DEF Takes
    <2>4. CASE Elsewhere
        <3>1. srv' \in MovedByOthers /\ Events(kind, srv) = {}
            BY <1>2, <2>4 DEF Elsewhere, Events
        <3>2. PICK u \in Cast : \E act \in Offers(kind, u, srv) : srv' \in MovedBy(u, act)
            BY <3>1 DEF MovedByOthers
        <3>3. PICK act \in Offers(kind, u, srv) : srv' \in MovedBy(u, act)
            BY <3>2
        <3>4. PICK in \in Inputs(kind, u, srv, act) : srv' \in Takes(kind, u, srv, act, in)
            BY <3>3 DEF MovedBy
        <3>5. Offered("member", act)
            BY <1>2 DEF Offered
        <3> QED BY <1>2, <2>1, <3>4, <3>5, MembersMove DEF Takes
    <2>5. \/ UNCHANGED srv
          \/ \E q \in wire : Perform(q)
          \/ Elsewhere
        BY
           DEF Next, vars, server, Poll, Revisit, ServeGet, Arrive, FetchFails, Decide, Close, Submit,
               MarkViewed,
               Replay, Refuse, Succeeded, Refused, GiveUp
    <2> QED BY <2>2, <2>3, <2>4, <2>5
<1> QED BY <1>1, <1>2 DEF MembersInv

LEMMA MembersBegin == Init => MembersInv
<1> SUFFICES ASSUME Init PROVE MembersInv
    OBVIOUS
<1>1. kind \in AllKinds /\ srv \in StartingRecords(kind)
    BY DeskAssumption DEF Init
<1>2. ASSUME kind = "member" PROVE srv.status \in {"ACTIVE", "SUSPENDED"}
    <2>1. srv.status \in StatusesOf("member")
        BY <1>1, <1>2 DEF StartingRecords
    <2> QED BY <2>1 DEF StatusesOf
<1> QED BY <1>1, <1>2 DEF MembersInv, MemberStatuses

\* Of what a page at rest offers and its form lets through, the server accepts exactly what is not named in
\* Desk (the conditions of the buttons in the pages, and those of the acts in the services): for every
\* seat, whatever its company's subscription and plan allow, whether it is verified or not, and whatever
\* state the record has come to.
THEOREM PagesOfferWhatIsAccepted == Spec => []OfferedIsAccepted
<1>1. MembersInv => OfferedIsAccepted
    <2> SUFFICES ASSUME MembersInv, NEW u \in People, Readable(kind, u, srv) PROVE AcceptedAll(kind, u, srv)
        BY DEF OfferedIsAccepted, AcceptedAll, Accepted
    <2>1. CASE kind = "order"
        BY <2>1, OrdersAccept DEF Readable
    <2>2. CASE kind # "order"
        BY <2>2, BuyingAccepts, ReturnsAccept, MoneyAccepts, PartnersAccept, DeliveriesAccept, GoodsAccept,
           PlatformAccepts, TeamsAccept DEF MembersInv, AllKinds
    <2> QED BY <2>1, <2>2
<1>2. Init => MembersInv
    BY MembersBegin
<1>3. VersionsInv /\ MembersInv /\ [Next]_vars => MembersInv'
    BY MembersStep
<1> QED BY <1>1, <1>2, <1>3, VersionsAreRecords, PTL DEF Spec
=============================================================================
