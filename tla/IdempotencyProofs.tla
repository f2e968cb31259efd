------------------------- MODULE IdempotencyProofs -------------------------
(***************************************************************************)
(* That a key changes the business once and that answers are true, for any *)
(* number of requests and keys.  The invariant adds to the two what makes  *)
(* them inductive: the result of every binding effect is still stored, a   *)
(* stored result is that of an effect, and a request that has not claimed  *)
(* yet has left no trace.                                                  *)
(***************************************************************************)
EXTENDS Idempotency, TLAPS

KeyTypeOK ==
    /\ record \in [Keys -> Records]
    /\ at \in [Requests -> Places]
    /\ round \in [Requests -> Nat]
    /\ answer \in [Requests -> Requests \cup Verdicts]
    /\ effects \subseteq Requests
    /\ lapsed \subseteq Requests

RowsHaveOwners ==
    \A k \in Keys :
        IF record[k].status = "NONE" THEN record[k].owner = Nobody
        ELSE record[k].owner \in Requests /\ KeyOf[record[k].owner] = k

StoredResultsAreTrue ==
    \A k \in Keys : record[k].status = "COMPLETED" => record[k].owner \in effects

EffectsAreKept ==
    \A r \in effects \ lapsed :
        record[KeyOf[r]].status = "COMPLETED" /\ record[KeyOf[r]].owner = r

Unclaimed(r) ==
    at[r] \in {"start", "collided"} \/ (at[r] = "answered" /\ answer[r] = "busy")

UnclaimedIsUntraced ==
    \A r \in Requests : Unclaimed(r) =>
        /\ r \notin effects \cup lapsed
        /\ \A k \in Keys : record[k].owner # r

KeyInv ==
    /\ KeyTypeOK
    /\ RowsHaveOwners
    /\ StoredResultsAreTrue
    /\ EffectsAreKept
    /\ UnclaimedIsUntraced
    /\ ResultsAreTrue

LEMMA KeyInvInit == KeyInit => KeyInv
BY KeyAssumption, AnswerAssumption, NobodyAssumption
   DEF KeyInit, KeyInv, KeyTypeOK, RowsHaveOwners, StoredResultsAreTrue, EffectsAreKept,
       UnclaimedIsUntraced, ResultsAreTrue, NoRecord, Records, Places, Verdicts

\* The steps that leave the table as it is.
LEMMA LookingKeepsInv ==
    ASSUME KeyInv, NEW r \in Requests,
           Collide(r) \/ FindNothing(r) \/ FindRecord(r) \/ AskAgain(r) \/ RollBack(r) \/ Die(r)
    PROVE  KeyInv'
<1> USE DEF KeyInv
<1>1. KeyOf[r] \in Keys
  BY KeyAssumption
<1>2. UNCHANGED <<record, effects, lapsed>>
  BY DEF Collide, FindNothing, FindRecord, AskAgain, RollBack, Die
<1>3. PICK what : \/ UNCHANGED answer
                  \/ answer' = [answer EXCEPT ![r] = what] /\ what \in Verdicts
                  \/ FindRecord(r) /\ answer' = [answer EXCEPT ![r] = what]
  BY DEF Collide, FindNothing, FindRecord, AskAgain, RollBack, Die, Answered, Verdicts
<1>4. FindRecord(r) =>
        \/ answer' = [answer EXCEPT ![r] = "reused"]
        \/ answer' = [answer EXCEPT ![r] = "busy"]
        \/ /\ answer' = [answer EXCEPT ![r] = Row(r).owner]
           /\ Row(r).status = "COMPLETED"
           /\ BodyOf[Row(r).owner] = BodyOf[r]
  BY <1>1 DEF FindRecord, Answered, KeyTypeOK, Records, Row
<1>5. KeyTypeOK'
  <2>1. at' \in [Requests -> Places] /\ round' \in [Requests -> Nat]
    BY DEF Collide, FindNothing, FindRecord, AskAgain, RollBack, Die, Answered, KeyTypeOK, Places
  <2>2. answer' \in [Requests -> Requests \cup Verdicts]
    BY <1>1, <1>3, <1>4 DEF KeyTypeOK, RowsHaveOwners, Row, Verdicts
  <2> QED
    BY <1>2, <2>1, <2>2 DEF KeyTypeOK
<1>6. RowsHaveOwners' /\ StoredResultsAreTrue' /\ EffectsAreKept'
  BY <1>2 DEF RowsHaveOwners, StoredResultsAreTrue, EffectsAreKept, Row
<1>7. UnclaimedIsUntraced'
  <2>1. \A q \in Requests : Unclaimed(q)' => Unclaimed(q)
    BY AnswerAssumption
       DEF Unclaimed, Collide, FindNothing, FindRecord, AskAgain, RollBack, Die, Answered, KeyTypeOK
  <2> QED
    BY <1>2, <2>1 DEF UnclaimedIsUntraced
<1>8. ResultsAreTrue'
  BY <1>1, <1>2, <1>3, <1>4, AnswerAssumption
     DEF ResultsAreTrue, StoredResultsAreTrue, RowsHaveOwners, Row, KeyTypeOK, Verdicts
<1> QED
  BY <1>5, <1>6, <1>7, <1>8

LEMMA TakingKeepsInv ==
    ASSUME KeyInv, NEW r \in Requests, TakeKey(r)
    PROVE  KeyInv'
<1> USE KeyAssumption DEF KeyInv
<1>1. /\ record' = [record EXCEPT ![KeyOf[r]] = [status |-> "IN_PROGRESS", owner |-> r]]
      /\ at' = [at EXCEPT ![r] = "working"]
      /\ UNCHANGED <<round, answer, effects, lapsed>>
  BY DEF TakeKey, SetRow
<1>2. r \notin effects \cup lapsed /\ \A k \in Keys : record[k].owner # r
  BY DEF TakeKey, UnclaimedIsUntraced, Unclaimed
<1>3. \A q \in effects \ lapsed : KeyOf[q] # KeyOf[r]
  <2> SUFFICES ASSUME NEW q \in effects \ lapsed, KeyOf[q] = KeyOf[r] PROVE FALSE
    OBVIOUS
  <2>1. Row(r).status = "COMPLETED" /\ Row(r).owner = q
    BY DEF EffectsAreKept, Row
  <2> QED
    BY <2>1 DEF TakeKey, MayTake
<1>4. KeyTypeOK'
  BY <1>1 DEF KeyTypeOK, Records, Places
<1>5. RowsHaveOwners' /\ StoredResultsAreTrue'
  BY <1>1 DEF RowsHaveOwners, StoredResultsAreTrue, KeyTypeOK
<1>6. EffectsAreKept'
  BY <1>1, <1>3 DEF EffectsAreKept, KeyTypeOK
<1>7. UnclaimedIsUntraced'
  BY <1>1 DEF UnclaimedIsUntraced, Unclaimed, KeyTypeOK
<1>8. ResultsAreTrue'
  BY <1>1 DEF ResultsAreTrue
<1> QED
  BY <1>4, <1>5, <1>6, <1>7, <1>8

LEMMA CompletingKeepsInv ==
    ASSUME KeyInv, NEW r \in Requests, Complete(r)
    PROVE  KeyInv'
<1> USE KeyAssumption DEF KeyInv
<1>1. /\ record' = [record EXCEPT ![KeyOf[r]] = [status |-> "COMPLETED", owner |-> r]]
      /\ effects' = effects \cup {r}
      /\ UNCHANGED <<round, lapsed>>
  <2>1. [Row(r) EXCEPT !.status = "COMPLETED"] = [status |-> "COMPLETED", owner |-> r]
    BY DEF Complete, Owns
  <2> QED
    BY <2>1 DEF Complete, SetRow
<1>2. /\ at' \in {[at EXCEPT ![r] = "answered"], [at EXCEPT ![r] = "abandoning"]}
      /\ answer' = answer \/ (answer' = [answer EXCEPT ![r] = r] /\ at' = [at EXCEPT ![r] = "answered"])
      /\ at' = [at EXCEPT ![r] = "answered"] => answer' = [answer EXCEPT ![r] = r]
  BY DEF Complete, Answered, KeyTypeOK
<1>3. \A q \in effects \ lapsed : KeyOf[q] # KeyOf[r]
  <2>1. record[KeyOf[r]].status = "IN_PROGRESS"
    BY DEF Complete, Owns, Row
  <2> QED
    BY <2>1 DEF EffectsAreKept
<1>4. KeyTypeOK'
  BY <1>1, <1>2 DEF KeyTypeOK, Records, Places
<1>5. RowsHaveOwners' /\ StoredResultsAreTrue'
  BY <1>1 DEF RowsHaveOwners, StoredResultsAreTrue, KeyTypeOK
<1>6. EffectsAreKept'
  BY <1>1, <1>3 DEF EffectsAreKept, KeyTypeOK
<1>7. UnclaimedIsUntraced'
  <2>1. \A q \in Requests : Unclaimed(q)' => q # r /\ Unclaimed(q)
    BY <1>2, AnswerAssumption DEF Unclaimed, KeyTypeOK, Verdicts
  <2> QED
    BY <1>1, <2>1 DEF UnclaimedIsUntraced, KeyTypeOK
<1>8. ResultsAreTrue'
  BY <1>1, <1>2 DEF ResultsAreTrue, KeyTypeOK
<1> QED
  BY <1>4, <1>5, <1>6, <1>7, <1>8

LEMMA ReleasingKeepsInv ==
    ASSUME KeyInv, NEW r \in Requests, Release(r) \/ ReleaseFails(r)
    PROVE  KeyInv'
<1> USE KeyAssumption DEF KeyInv
<1>1. /\ record' = record \/ (Owns(r) /\ record' = [record EXCEPT ![KeyOf[r]] = NoRecord])
      /\ at' = [at EXCEPT ![r] = "answered"]
      /\ answer' = [answer EXCEPT ![r] = "failed"]
      /\ UNCHANGED <<round, effects, lapsed>>
  BY DEF Release, ReleaseFails, SetRow, Answered
<1>2. KeyTypeOK'
  <2>1. NoRecord \in Records
    BY DEF NoRecord, Records
  <2>2. "answered" \in Places /\ "failed" \in Verdicts
    BY DEF Places, Verdicts
  <2> QED
    BY <1>1, <2>1, <2>2 DEF KeyTypeOK
<1>3. RowsHaveOwners' /\ StoredResultsAreTrue'
  BY <1>1 DEF RowsHaveOwners, StoredResultsAreTrue, KeyTypeOK, NoRecord
<1>4. EffectsAreKept'
  <2>1. Owns(r) => \A q \in effects \ lapsed : KeyOf[q] # KeyOf[r]
    BY DEF EffectsAreKept, Owns, Row
  <2> QED
    BY <1>1, <2>1 DEF EffectsAreKept, KeyTypeOK
<1>5. UnclaimedIsUntraced'
  <2>1. \A q \in Requests : Unclaimed(q)' => Unclaimed(q)
    BY <1>1 DEF Unclaimed, KeyTypeOK
  <2>2. NoRecord.owner \notin Requests
    BY NobodyAssumption DEF NoRecord
  <2> QED
    BY <1>1, <2>1, <2>2 DEF UnclaimedIsUntraced, KeyTypeOK
<1>6. ResultsAreTrue'
  BY <1>1, AnswerAssumption DEF ResultsAreTrue, KeyTypeOK, Verdicts
<1> QED
  BY <1>2, <1>3, <1>4, <1>5, <1>6

LEMMA TimeKeepsInv ==
    ASSUME KeyInv, Purge \/ \E r \in Requests : Lapse(r)
    PROVE  KeyInv'
<1> USE KeyAssumption DEF KeyInv
<1>1. CASE Purge
  <2>1. /\ record' = [k \in Keys |-> IF record[k].owner \in lapsed THEN NoRecord ELSE record[k]]
        /\ UNCHANGED <<at, round, answer, effects, lapsed>>
    BY <1>1 DEF Purge
  <2>2. KeyTypeOK'
    BY <2>1 DEF KeyTypeOK, Records, NoRecord
  <2>3. RowsHaveOwners' /\ StoredResultsAreTrue'
    BY <2>1 DEF RowsHaveOwners, StoredResultsAreTrue, NoRecord
  <2>4. EffectsAreKept'
    BY <2>1 DEF EffectsAreKept, KeyTypeOK
  <2>5. UnclaimedIsUntraced' /\ ResultsAreTrue'
    BY <2>1, NobodyAssumption DEF UnclaimedIsUntraced, Unclaimed, ResultsAreTrue, NoRecord
  <2> QED
    BY <2>2, <2>3, <2>4, <2>5
<1>2. ASSUME NEW r \in Requests, Lapse(r) PROVE KeyInv'
  <2>1. KeyTypeOK' /\ RowsHaveOwners' /\ StoredResultsAreTrue' /\ EffectsAreKept' /\ ResultsAreTrue'
    BY <1>2 DEF Lapse, KeyTypeOK, RowsHaveOwners, StoredResultsAreTrue, EffectsAreKept, Row, ResultsAreTrue
  <2>2. UnclaimedIsUntraced'
    BY <1>2 DEF Lapse, UnclaimedIsUntraced, Unclaimed, Row
  <2> QED
    BY <2>1, <2>2
<1> QED
  BY <1>1, <1>2

THEOREM KeyInvariant == KeySpec => []KeyInv
<1>1. KeyInv /\ [KeyNext]_keyVars => KeyInv'
  <2> SUFFICES ASSUME KeyInv, [KeyNext]_keyVars PROVE KeyInv'
    OBVIOUS
  <2>1. ASSUME NEW r \in Requests, RequestStep(r) \/ AskAgain(r) \/ Die(r) PROVE KeyInv'
    BY <2>1, LookingKeepsInv, TakingKeepsInv, CompletingKeepsInv, ReleasingKeepsInv DEF RequestStep
  <2>2. CASE UNCHANGED keyVars
    BY <2>2 DEF keyVars, KeyInv, KeyTypeOK, RowsHaveOwners, StoredResultsAreTrue, EffectsAreKept,
                UnclaimedIsUntraced, Unclaimed, ResultsAreTrue, Row
  <2> QED
    BY <2>1, <2>2, TimeKeepsInv DEF KeyNext
<1> QED
  BY <1>1, KeyInvInit, PTL DEF KeySpec

(***************************************************************************)
(* While its claim's TTL lasts, a key has changed the business once at     *)
(* most, through repetitions, crashes, unacknowledged commits and failed   *)
(* releases.                                                               *)
(***************************************************************************)
THEOREM KeysActOnce == KeySpec => []OneEffectPerKey
<1>1. KeyInv => OneEffectPerKey
  BY DEF KeyInv, EffectsAreKept, OneEffectPerKey
<1> QED
  BY <1>1, KeyInvariant, PTL

(***************************************************************************)
(* A result that a client is told, its own or a replayed one, is that of a *)
(* committed change for the same key and the same body.                    *)
(***************************************************************************)
THEOREM AnswersAreTrue == KeySpec => []ResultsAreTrue
BY KeyInvariant, PTL DEF KeyInv
-----------------------------------------------------------------------------
\* Nobody is told anything early, and what is under way is not done yet.
NothingIsDecidedEarly ==
    \A r \in Requests :
        /\ at[r] # "answered" => answer[r] = "none"
        /\ at[r] = "working" => r \notin effects

LEMMA DecidedInvariant == KeySpec => []NothingIsDecidedEarly
<1>1. KeyInit => NothingIsDecidedEarly
  BY DEF KeyInit, NothingIsDecidedEarly
<1>2. KeyInv /\ NothingIsDecidedEarly /\ [KeyNext]_keyVars => NothingIsDecidedEarly'
  <2> SUFFICES ASSUME KeyInv, NothingIsDecidedEarly, [KeyNext]_keyVars
               PROVE  NothingIsDecidedEarly'
    OBVIOUS
  <2> USE DEF KeyInv, KeyTypeOK, NothingIsDecidedEarly
  <2>1. ASSUME NEW r \in Requests, TakeKey(r) PROVE NothingIsDecidedEarly'
    BY <2>1 DEF TakeKey, UnclaimedIsUntraced, Unclaimed
  <2>2. ASSUME NEW r \in Requests, Complete(r) PROVE NothingIsDecidedEarly'
    BY <2>2 DEF Complete, Answered
  <2>3. ASSUME NEW r \in Requests,
               Collide(r) \/ FindNothing(r) \/ FindRecord(r) \/ AskAgain(r)
        PROVE  NothingIsDecidedEarly'
    BY <2>3 DEF Collide, FindNothing, FindRecord, AskAgain, Answered
  <2>4. ASSUME NEW r \in Requests,
               RollBack(r) \/ Release(r) \/ ReleaseFails(r) \/ Die(r) \/ Lapse(r)
        PROVE  NothingIsDecidedEarly'
    BY <2>4 DEF RollBack, Release, ReleaseFails, Die, Lapse, Answered
  <2>5. CASE Purge \/ UNCHANGED keyVars
    BY <2>5 DEF Purge, keyVars
  <2> QED
    BY <2>1, <2>2, <2>3, <2>4, <2>5 DEF KeyNext, RequestStep
<1> QED
  BY <1>1, <1>2, KeyInvariant, PTL DEF KeySpec

\* Where a row is, the effects that bind its key are those of its owner.
LEMMA RowsTellWhoBinds ==
    ASSUME KeyInv, NEW r \in Requests
    PROVE  IF Row(r).status = "COMPLETED" THEN Promise!Binding(r) \subseteq {Row(r).owner}
           ELSE Promise!Binding(r) = {}
BY DEF KeyInv, KeyTypeOK, EffectsAreKept, Row, Promise!Binding

LEMMA LookingIsPromised ==
    ASSUME KeyInv, NothingIsDecidedEarly, NEW r \in Requests,
           FindNothing(r) \/ FindRecord(r)
    PROVE  Promise!Next \/ UNCHANGED Promise!repetitionVars
<1> USE DEF Promise!Next
<1>1. r \notin effects /\ answer[r] = "none" /\ UNCHANGED <<effects, lapsed>>
  BY DEF FindNothing, FindRecord, KeyInv, UnclaimedIsUntraced, Unclaimed, NothingIsDecidedEarly
<1>2. CASE FindNothing(r)
  <2>1. Promise!Binding(r) = {}
    BY <1>2, RowsTellWhoBinds DEF FindNothing
  <2> QED
    BY <1>1, <1>2, <2>1
       DEF FindNothing, Answered, Promise!Wait, Promise!Say, Promise!repetitionVars
<1>3. CASE FindRecord(r)
  <2> DEFINE q == Row(r).owner
  <2>1. q \in Requests /\ KeyOf[q] = KeyOf[r]
    BY <1>3, KeyAssumption DEF FindRecord, KeyInv, RowsHaveOwners, Row
  <2>2. Row(r).status \in {"IN_PROGRESS", "COMPLETED"}
    BY <1>3, KeyAssumption DEF FindRecord, KeyInv, KeyTypeOK, Records, Row
  <2>3. CASE BodyOf[q] # BodyOf[r]
    <3>1. answer' = [answer EXCEPT ![r] = "reused"]
      BY <1>3, <2>3 DEF FindRecord, Answered
    <3>2. \A e \in Promise!Binding(r) : BodyOf[e] # BodyOf[r]
      BY <2>3, RowsTellWhoBinds
    <3> QED
      BY <1>1, <2>1, <2>3, <3>1, <3>2 DEF Promise!TurnAway, Promise!Say
  <2>4. CASE BodyOf[q] = BodyOf[r] /\ Row(r).status = "IN_PROGRESS"
    <3>1. answer' = [answer EXCEPT ![r] = "busy"]
      BY <1>3, <2>4 DEF FindRecord, Answered
    <3> QED
      BY <1>1, <2>4, <3>1, RowsTellWhoBinds DEF Promise!Wait, Promise!Say
  <2>5. CASE BodyOf[q] = BodyOf[r] /\ Row(r).status = "COMPLETED"
    <3>1. answer' = [answer EXCEPT ![r] = q]
      BY <1>3, <2>5 DEF FindRecord, Answered
    <3>2. q \in effects
      BY <2>5, KeyAssumption DEF KeyInv, StoredResultsAreTrue, Row
    <3>3. Promise!Binding(r) \subseteq {q}
      BY <2>5, RowsTellWhoBinds
    <3>4. Promise!Replay(r, q)
      BY <1>1, <2>1, <2>5, <3>1, <3>2, <3>3 DEF Promise!Replay, Promise!Say
    <3> QED
      BY <2>1, <3>4
  <2> QED
    BY <2>2, <2>3, <2>4, <2>5
<1> QED
  BY <1>2, <1>3

LEMMA CompletingIsPromised ==
    ASSUME KeyInv, NothingIsDecidedEarly, NEW r \in Requests, Complete(r)
    PROVE  Promise!Change(r)
<1>1. Promise!Binding(r) = {}
  BY RowsTellWhoBinds DEF Complete, Owns
<1>2. r \notin effects /\ answer[r] = "none"
  BY DEF Complete, NothingIsDecidedEarly
<1> QED
  BY <1>1, <1>2 DEF Complete, Answered, Promise!Change, Promise!Say

LEMMA StepIsPromised ==
    ASSUME KeyInv, NothingIsDecidedEarly, [KeyNext]_keyVars
    PROVE  [Promise!Next]_Promise!repetitionVars
<1> USE DEF Promise!repetitionVars
<1>1. ASSUME NEW r \in Requests, TakeKey(r) \/ Collide(r) \/ RollBack(r) \/ Die(r)
      PROVE  UNCHANGED Promise!repetitionVars
  BY <1>1 DEF TakeKey, Collide, RollBack, Die
<1>2. ASSUME NEW r \in Requests, Release(r) \/ ReleaseFails(r) PROVE Promise!Next
  <2>1. Promise!Fail(r)
    BY <1>2 DEF Release, ReleaseFails, Answered, NothingIsDecidedEarly, Promise!Fail, Promise!Say
  <2> QED
    BY <2>1 DEF Promise!Next
<1>3. ASSUME NEW r \in Requests, AskAgain(r) PROVE Promise!Next
  <2>1. Promise!AskAgain(r)
    BY <1>3 DEF AskAgain, Promise!AskAgain
  <2> QED
    BY <2>1 DEF Promise!Next
<1>4. ASSUME NEW r \in Requests, Lapse(r) PROVE Promise!Next
  <2>1. Promise!Forget(r)
    BY <1>4 DEF Lapse, Promise!Forget
  <2> QED
    BY <2>1 DEF Promise!Next
<1>5. ASSUME NEW r \in Requests, Complete(r) PROVE Promise!Next
  BY <1>5, CompletingIsPromised DEF Promise!Next
<1>6. CASE Purge \/ UNCHANGED keyVars
  BY <1>6 DEF Purge, keyVars
<1> QED
  BY <1>1, <1>2, <1>3, <1>4, <1>5, <1>6, LookingIsPromised DEF KeyNext, RequestStep

(***************************************************************************)
(* Claims that are taken, stolen, released, lost with a process or purged  *)
(* behave, for whoever repeats a request, like changes that are made once  *)
(* and remembered until their time is over.                                *)
(***************************************************************************)
THEOREM RepeatingIsSafe == KeySpec => RepetitionIsSafe
<1>1. KeyInit => Promise!Init
  BY DEF KeyInit, Promise!Init
<1>2. KeyInv /\ NothingIsDecidedEarly /\ [KeyNext]_keyVars
        => [Promise!Next]_Promise!repetitionVars
  BY StepIsPromised
<1> QED
  BY <1>1, <1>2, KeyInvariant, DecidedInvariant, PTL DEF KeySpec, RepetitionIsSafe, Promise!Spec
=============================================================================
