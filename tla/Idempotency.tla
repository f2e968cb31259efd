---------------------------- MODULE Idempotency ----------------------------
(***************************************************************************)
(* Idempotency-Key (backend/app/core/idempotency.py): how a request that a *)
(* client repeats, because its answer was lost or late, changes the        *)
(* business once.  Claiming the key, the business change and freeing the   *)
(* key are three database transactions, so requests with the same key      *)
(* interleave between them, and a process can die between them.            *)
(*                                                                         *)
(* One route and one user (a scope).  A claim is named by the request that *)
(* made it: the record's id is new with every claim, and a request makes   *)
(* at most one.  The record's request_hash is that request's, BodyOf.      *)
(***************************************************************************)
EXTENDS Naturals

CONSTANTS
    Requests,   \* the HTTP requests of the scope; a repetition is another one
    Keys,       \* the values of the Idempotency-Key header
    KeyOf,      \* KeyOf[r]: the key r carries
    BodyOf,     \* BodyOf[r]: the hash of what r asks for
    Rounds,     \* how often claim tries: 3 in the code
    Nobody      \* the owner of no record

ASSUME NobodyAssumption == Nobody \notin Requests
ASSUME KeyAssumption == KeyOf \in [Requests -> Keys]
ASSUME RoundsAssumption == Rounds \in Nat \ {0}

VARIABLES
    record,     \* per key: the idempotency_records row, status NONE if absent
    at,         \* where a request is
    round,      \* how often claim has looked at the row it collided with
    answer,     \* what the client was told; a request stands for its result
    effects,    \* the requests whose business change is committed
    lapsed      \* the requests whose claim is older than the TTL

keyVars == <<record, at, round, answer, effects, lapsed>>

Places   == {"start", "collided", "working", "abandoning", "answered", "dead"}
Verdicts == {"none", "busy", "reused", "failed"}

ASSUME AnswerAssumption == Requests \cap Verdicts = {}

NoRecord == [status |-> "NONE", owner |-> Nobody]
Records  == [status : {"NONE", "IN_PROGRESS", "COMPLETED"}, owner : Requests \cup {Nobody}]

KeyInit ==
    /\ record  = [k \in Keys |-> NoRecord]
    /\ at      = [r \in Requests |-> "start"]
    /\ round   = [r \in Requests |-> 0]
    /\ answer  = [r \in Requests |-> "none"]
    /\ effects = {}
    /\ lapsed  = {}

Row(r) == record[KeyOf[r]]

\* Mutant of MayTake: an expired record binds its key for ever.
MayTakeAbsent(r) == Row(r).status = "NONE"

\* The upsert: no row, or one that has expired.
MayTake(r) == Row(r).status = "NONE" \/ Row(r).owner \in lapsed

\* mark_completed and release touch the row only while it is this claim's.
Owns(r) == Row(r) = [status |-> "IN_PROGRESS", owner |-> r]

Answered(r, what) ==
    /\ at' = [at EXCEPT ![r] = "answered"]
    /\ answer' = [answer EXCEPT ![r] = what]

SetRow(r, row) == record' = [record EXCEPT ![KeyOf[r]] = row]
-----------------------------------------------------------------------------
(***************************************************************************)
(* claim: an upsert that commits at once, and if it took nothing a look at *)
(* the row that was in its way, which may be gone or another's by then.    *)
(***************************************************************************)
TakeKey(r) ==
    /\ at[r] = "start" /\ MayTake(r)
    /\ SetRow(r, [status |-> "IN_PROGRESS", owner |-> r])
    /\ at' = [at EXCEPT ![r] = "working"]
    /\ UNCHANGED <<round, answer, effects, lapsed>>

Collide(r) ==
    /\ at[r] = "start" /\ ~MayTake(r)
    /\ at' = [at EXCEPT ![r] = "collided"]
    /\ round' = [round EXCEPT ![r] = @ + 1]
    /\ UNCHANGED <<record, answer, effects, lapsed>>

FindNothing(r) ==
    /\ at[r] = "collided" /\ Row(r).status = "NONE"
    /\ IF round[r] < Rounds
       THEN at' = [at EXCEPT ![r] = "start"] /\ UNCHANGED answer
       ELSE Answered(r, "busy")
    /\ UNCHANGED <<record, round, effects, lapsed>>

\* Mutant of FindRecord: the hash of the request is not compared.
FindAnyRecord(r) ==
    /\ at[r] = "collided" /\ Row(r).status # "NONE"
    /\ Answered(r, IF Row(r).status = "IN_PROGRESS" THEN "busy" ELSE Row(r).owner)
    /\ UNCHANGED <<record, round, effects, lapsed>>

FindRecord(r) ==
    /\ at[r] = "collided" /\ Row(r).status # "NONE"
    /\ Answered(r, IF BodyOf[Row(r).owner] # BodyOf[r] THEN "reused"
                   ELSE IF Row(r).status = "IN_PROGRESS" THEN "busy"
                   ELSE Row(r).owner)
    /\ UNCHANGED <<record, round, effects, lapsed>>

\* A client that was told request_in_progress asks again.
AskAgain(r) ==
    /\ at[r] = "answered" /\ answer[r] = "busy"
    /\ at' = [at EXCEPT ![r] = "start"]
    /\ round' = [round EXCEPT ![r] = 0]
    /\ answer' = [answer EXCEPT ![r] = "none"]
    /\ UNCHANGED <<record, effects, lapsed>>
-----------------------------------------------------------------------------
(***************************************************************************)
(* The endpoint, and what IdempotentRoute does around it.                  *)
(***************************************************************************)
\* The business change and the stored result commit together.  Whether the
\* server heard of the commit is another matter.
Complete(r) ==
    /\ at[r] = "working" /\ Owns(r)
    /\ SetRow(r, [Row(r) EXCEPT !.status = "COMPLETED"])
    /\ effects' = effects \cup {r}
    /\ \/ Answered(r, r)
       \/ at' = [at EXCEPT ![r] = "abandoning"] /\ UNCHANGED answer
    /\ UNCHANGED <<round, lapsed>>

\* An error, a status of 400 or more, a failed commit or a claim that was lost:
\* the change is rolled back.
RollBack(r) ==
    /\ at[r] = "working"
    /\ at' = [at EXCEPT ![r] = "abandoning"]
    /\ UNCHANGED <<record, round, answer, effects, lapsed>>

\* Mutant of Release: the claim is deleted whatever has become of it.
ReleaseAny(r) ==
    /\ at[r] = "abandoning"
    /\ IF Row(r).owner = r THEN SetRow(r, NoRecord) ELSE UNCHANGED record
    /\ Answered(r, "failed")
    /\ UNCHANGED <<round, effects, lapsed>>

Release(r) ==
    /\ at[r] = "abandoning"
    /\ IF Owns(r) THEN SetRow(r, NoRecord) ELSE UNCHANGED record
    /\ Answered(r, "failed")
    /\ UNCHANGED <<round, effects, lapsed>>

\* The release itself fails: it is logged and the claim stays until it expires.
ReleaseFails(r) ==
    /\ at[r] = "abandoning"
    /\ Answered(r, "failed")
    /\ UNCHANGED <<record, round, effects, lapsed>>

\* The process dies; its open transaction is rolled back, its claim stays.
Die(r) ==
    /\ at[r] \notin {"answered", "dead"}
    /\ at' = [at EXCEPT ![r] = "dead"]
    /\ UNCHANGED <<record, round, answer, effects, lapsed>>
-----------------------------------------------------------------------------
\* The 24 hours of a claim pass; until then its row binds the key.
Lapse(r) ==
    /\ Row(r).owner = r /\ r \notin lapsed
    /\ lapsed' = lapsed \cup {r}
    /\ UNCHANGED <<record, at, round, answer, effects>>

\* purge_expired, daily: every expired row, completed or not.
Purge ==
    /\ \E k \in Keys : record[k].owner \in lapsed
    /\ record' = [k \in Keys |-> IF record[k].owner \in lapsed THEN NoRecord ELSE record[k]]
    /\ UNCHANGED <<at, round, answer, effects, lapsed>>

RequestStep(r) ==
    \/ TakeKey(r) \/ Collide(r) \/ FindNothing(r) \/ FindRecord(r)
    \/ Complete(r) \/ RollBack(r) \/ Release(r) \/ ReleaseFails(r)

KeyNext ==
    \/ \E r \in Requests : RequestStep(r) \/ AskAgain(r) \/ Die(r) \/ Lapse(r)
    \/ Purge

KeySpec == KeyInit /\ [][KeyNext]_keyVars

(***************************************************************************)
(* The server goes on with a request it has not lost, time passes, and a   *)
(* client keeps asking while it is told to wait.  The purge is not needed. *)
(***************************************************************************)
KeyFairSpec ==
    /\ KeySpec
    /\ \A r \in Requests : /\ WF_keyVars(RequestStep(r))
                           /\ WF_keyVars(AskAgain(r))
                           /\ WF_keyVars(Lapse(r))
-----------------------------------------------------------------------------
(***************************************************************************)
(* The promise: while a claim's TTL lasts, its key has changed the         *)
(* business once at most, whichever requests were repeated, overlapped,    *)
(* failed, died or never learnt that they had succeeded.                   *)
(***************************************************************************)
OneEffectPerKey ==
    \A q, r \in effects \ lapsed : KeyOf[q] = KeyOf[r] => q = r

(***************************************************************************)
(* Whoever is told a result is told that of a committed change, made for   *)
(* the same key and the same body, be it its own or a replayed one.        *)
(***************************************************************************)
ResultsAreTrue ==
    \A r \in Requests : answer[r] \in Requests =>
        /\ answer[r] \in effects
        /\ KeyOf[answer[r]] = KeyOf[r]
        /\ BodyOf[answer[r]] = BodyOf[r]

(***************************************************************************)
(* No claim blocks a key for ever, not even that of a process that died or *)
(* could not release it: a client that keeps asking gets an answer other   *)
(* than request_in_progress, unless its own request dies with the process. *)
(***************************************************************************)
EveryoneIsAnswered ==
    \A r \in Requests : <>[](at[r] = "dead" \/ (at[r] = "answered" /\ answer[r] # "busy"))

Promise == INSTANCE Repetition
               WITH changed <- effects, forgotten <- lapsed, told <- answer

(***************************************************************************)
(* Claiming, working, storing the result and releasing are transactions of *)
(* their own, and still every one of them is a step of the promise or none *)
(* that a client can see.  Whoever comes after the commit and before the   *)
(* key's time is over is told the result of that very change: not another  *)
(* one, not that it is under way, and nothing is changed a second time.    *)
(***************************************************************************)
RepetitionIsSafe == Promise!Spec
=============================================================================
