----------------------------- MODULE Repetition -----------------------------
(***************************************************************************)
(* What a client that repeats a request may rely on, with the table, the   *)
(* claims and the processes left out.  A change binds its key until it is  *)
(* forgotten.  While a change binds a key, nobody else changes anything    *)
(* under it: a repetition is told the result of that very change, another  *)
(* request with the key is turned away, and neither is told to wait.       *)
(***************************************************************************)
CONSTANTS
    Requests,
    KeyOf,
    BodyOf

VARIABLES
    changed,        \* the requests whose change was made
    forgotten,      \* the requests that bind their key no longer
    told            \* what the client of a request was told

repetitionVars == <<changed, forgotten, told>>

Init ==
    /\ changed   = {}
    /\ forgotten = {}
    /\ told      = [r \in Requests |-> "none"]

Binding(r) == {q \in changed \ forgotten : KeyOf[q] = KeyOf[r]}

\* What was told is never taken back, a request to wait excepted.
Say(r, what) == told[r] = "none" /\ told' = [told EXCEPT ![r] = what]

\* The change is made once, and its client may never learn of it.
Change(r) ==
    /\ r \notin changed /\ told[r] = "none"
    /\ Binding(r) = {}
    /\ changed' = changed \cup {r}
    /\ Say(r, r) \/ UNCHANGED told
    /\ UNCHANGED forgotten

Replay(r, q) ==
    /\ r \notin changed /\ q \in changed
    /\ KeyOf[q] = KeyOf[r] /\ BodyOf[q] = BodyOf[r]
    /\ Binding(r) \subseteq {q}
    /\ Say(r, q)
    /\ UNCHANGED <<changed, forgotten>>

\* The key is another request's.
TurnAway(r) ==
    /\ r \notin changed
    /\ \A q \in Binding(r) : BodyOf[q] # BodyOf[r]
    /\ \E q \in Requests : KeyOf[q] = KeyOf[r] /\ BodyOf[q] # BodyOf[r]
    /\ Say(r, "reused")
    /\ UNCHANGED <<changed, forgotten>>

Wait(r) ==
    /\ r \notin changed
    /\ Binding(r) = {}
    /\ Say(r, "busy")
    /\ UNCHANGED <<changed, forgotten>>

AskAgain(r) ==
    /\ told[r] = "busy"
    /\ told' = [told EXCEPT ![r] = "none"]
    /\ UNCHANGED <<changed, forgotten>>

\* An error, or a change whose commit the server did not hear of.
Fail(r) == Say(r, "failed") /\ UNCHANGED <<changed, forgotten>>

Forget(r) ==
    /\ forgotten' = forgotten \cup {r}
    /\ UNCHANGED <<changed, told>>

Next ==
    \E r \in Requests :
        \/ Change(r) \/ TurnAway(r) \/ Wait(r) \/ AskAgain(r) \/ Fail(r) \/ Forget(r)
        \/ \E q \in Requests : Replay(r, q)

Spec == Init /\ [][Next]_repetitionVars
=============================================================================
