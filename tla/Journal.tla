------------------------------ MODULE Journal -------------------------------
(***************************************************************************)
(* What a courier without signal may rely on, with tabs, requests, keys,   *)
(* back-offs and lost answers left out.  An act is noted, and the stop     *)
(* decides about it once: not before every older act, those excepted that  *)
(* were delayed, and from what the stop is by then.  A note goes away only *)
(* after that, and one that was refused only after a second look.          *)
(***************************************************************************)
EXTENDS Integers, Sequences

VARIABLES
    stop,           \* where the stop is
    acts,           \* the kinds of the acts, in the order they were noted
    notes,          \* the acts whose note is kept
    delayed,        \* the acts that younger ones need not wait for
    verdicts,       \* what was decided: an act and a result each
    reviewed        \* the acts looked at a second time

journalVars == <<stop, acts, notes, delayed, verdicts, reviewed>>

OnRoad == {"IN_TRANSIT", "ARRIVED"}
Closed == {"DELIVERED", "FAILED"}

Init ==
    /\ stop = "IN_TRANSIT"
    /\ acts = <<>>
    /\ notes = {} /\ delayed = {} /\ verdicts = {} /\ reviewed = {}

Decided(o) == \E v \in verdicts : v.op = o

Note(kind) ==
    /\ acts' = Append(acts, kind)
    /\ notes' = notes \cup {Len(acts')}
    /\ UNCHANGED <<stop, delayed, verdicts, reviewed>>

Decide(o, result) ==
    /\ o \in notes /\ ~Decided(o)
    /\ \A p \in DOMAIN acts : p < o => Decided(p) \/ p \in delayed
    /\ verdicts' = verdicts \cup {[op |-> o, result |-> result]}
    /\ UNCHANGED <<acts, notes, delayed, reviewed>>

\* An act applies to a stop on the road, a payment to any stop.
Apply(o) ==
    /\ Decide(o, "APPLIED")
    /\ \/ acts[o] = "PAYMENT" /\ stop' = stop
       \/ acts[o] = "ARRIVE"  /\ stop = "IN_TRANSIT" /\ stop' = "ARRIVED"
       \/ acts[o] = "CONFIRM" /\ stop \in OnRoad /\ stop' = "DELIVERED"
       \/ acts[o] = "FAIL"    /\ stop \in OnRoad /\ stop' = "FAILED"

Refuse(o) ==
    /\ \/ Decide(o, "CONFLICT") /\ acts[o] = "ARRIVE" /\ stop # "IN_TRANSIT"
       \/ Decide(o, "CONFLICT") /\ acts[o] \in {"CONFIRM", "FAIL"} /\ stop \notin OnRoad
       \/ Decide(o, "REJECTED") /\ acts[o] = "CONFIRM" /\ stop \in OnRoad
    /\ UNCHANGED stop

\* Delaying an act takes its note again, should it be gone.
Delay(os) ==
    /\ delayed' = delayed \cup os
    /\ notes' = notes \cup os
    /\ UNCHANGED <<stop, acts, verdicts, reviewed>>

Forget(o) ==
    /\ Decided(o)
    /\ \/ [op |-> o, result |-> "APPLIED"] \in verdicts /\ UNCHANGED reviewed
       \/ reviewed' = reviewed \cup {o}
    /\ notes' = notes \ {o}
    /\ UNCHANGED <<stop, acts, delayed, verdicts>>

\* A refusal is shown to the courier, should its note be gone or not.
Show(v) ==
    /\ v \in verdicts /\ v.result # "APPLIED"
    /\ notes' = notes \cup {v.op}
    /\ UNCHANGED <<stop, acts, delayed, verdicts, reviewed>>

Office(s) ==
    /\ stop \in OnRoad /\ stop' = s
    /\ UNCHANGED <<acts, notes, delayed, verdicts, reviewed>>

Next ==
    \/ \E kind \in {"ARRIVE", "PAYMENT", "CONFIRM", "FAIL"} : Note(kind)
    \/ \E o \in DOMAIN acts : Apply(o) \/ Refuse(o) \/ Forget(o)
    \/ \E os \in SUBSET DOMAIN acts : Delay(os)
    \/ \E v \in verdicts : Show(v)
    \/ \E s \in Closed : Office(s)

Spec == Init /\ [][Next]_journalVars
=============================================================================
