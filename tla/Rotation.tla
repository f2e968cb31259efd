------------------------------ MODULE Rotation ------------------------------
(***************************************************************************)
(* What a session is to the server, with pages, cookies, answers and their *)
(* losses left out: a chain of refresh tokens of which the last one may be *)
(* live.  A renewal takes the live token and replaces it; nobody else can  *)
(* take it meanwhile.  A token that is presented when it is dead ends its  *)
(* chain, as a sign-out and a revocation do, in one step; a renewal that   *)
(* has taken its token by then is the one thing that gets past.            *)
(***************************************************************************)
EXTENDS Integers, Sequences

VARIABLES
    issued,         \* the session of every token, in the order of issue
    live,           \* the tokens that are good for a renewal
    taken,          \* the live tokens that a renewal has taken
    reused,         \* the tokens that were presented dead
    over            \* the sessions that were signed out or revoked

rotationVars == <<issued, live, taken, reused, over>>

Init ==
    /\ issued = <<1>> /\ live = {1}
    /\ taken = {} /\ reused = {} /\ over = {}

IssueFor(session) == issued' = Append(issued, session)

\* A session has the number of its first token.
Begin ==
    /\ IssueFor(Len(issued) + 1)
    /\ live' = live \cup {Len(issued) + 1}
    /\ UNCHANGED <<taken, reused, over>>

Take(i) ==
    /\ i \in live \ taken
    /\ taken' = taken \cup {i}
    /\ UNCHANGED <<issued, live, reused, over>>

Replace(i) ==
    /\ i \in live \cap taken
    /\ IssueFor(issued[i])
    /\ live' = (live \ {i}) \cup {Len(issued) + 1}
    /\ taken' = taken \ {i}
    /\ UNCHANGED <<reused, over>>

End(sessions) ==
    /\ live' = {i \in live : issued[i] \in sessions => i \in taken}
    /\ UNCHANGED <<issued, taken>>

Reuse(i) ==
    /\ i \notin live
    /\ End({issued[i]})
    /\ reused' = reused \cup {i}
    /\ UNCHANGED over

Revoke(sessions) ==
    /\ End(sessions)
    /\ over' = over \cup sessions
    /\ UNCHANGED reused

Next ==
    \/ Begin
    \/ \E i \in DOMAIN issued : Take(i) \/ Replace(i) \/ Reuse(i)
    \/ \E sessions \in SUBSET {issued[i] : i \in DOMAIN issued} : Revoke(sessions)

Spec == Init /\ [][Next]_rotationVars
=============================================================================
