------------------------------ MODULE Closing -------------------------------
(***************************************************************************)
(* What ORD-041 promises about the end of an order, with the job, its      *)
(* locks, its savepoints and its crashes left out.  An order that arrived  *)
(* stays open until its window is over; it is then closed, together with   *)
(* whatever else is due, in ONE step, unless the store has disputed it     *)
(* before: then only the end of the dispute closes it.  Closing is told to *)
(* the rest of the platform in the same step.  Nothing of a company that   *)
(* may not trade moves.                                                    *)
(***************************************************************************)
EXTENDS Integers

CONSTANTS
    Orders,
    Companies,
    CompanyOf       \* a function from Orders to Companies

VARIABLES
    life,           \* where an order is: one of Lives
    over,           \* the orders whose window is over
    told,           \* how often the platform was told that an order is closed
    trading         \* the companies that may act

closingVars == <<life, over, told, trading>>

Lives == {"road", "open", "disputed", "closed"}

Init ==
    /\ life    = [o \in Orders |-> "road"]
    /\ over    = {}
    /\ told    = [o \in Orders |-> 0]
    /\ trading = Companies

\* Orders of companies that may act go on together.
Go(os, from, to) ==
    /\ \A o \in os : life[o] = from /\ CompanyOf[o] \in trading
    /\ life' = [o \in Orders |-> IF o \in os THEN to ELSE life[o]]
    /\ UNCHANGED <<over, trading>>

Tell(os) == told' = [o \in Orders |-> IF o \in os THEN told[o] + 1 ELSE told[o]]

Arrive(o) == Go({o}, "road", "open") /\ UNCHANGED told

Dispute(o) ==
    /\ o \notin over
    /\ Go({o}, "open", "disputed")
    /\ UNCHANGED told

Settle(o) == Go({o}, "disputed", "closed") /\ Tell({o})

\* What is due is closed, all of it or any part of it.
Close(os) ==
    /\ os \subseteq over
    /\ Go(os, "open", "closed")
    /\ Tell(os)

WindowEnds(o) ==
    /\ life[o] # "road"
    /\ over' = over \cup {o}
    /\ UNCHANGED <<life, told, trading>>

Allow(cs) ==
    /\ trading' = cs
    /\ UNCHANGED <<life, over, told>>

Next ==
    \/ \E o \in Orders : Arrive(o) \/ Dispute(o) \/ Settle(o) \/ WindowEnds(o)
    \/ \E os \in SUBSET Orders : Close(os)
    \/ \E cs \in SUBSET Companies : Allow(cs)

Spec == Init /\ [][Next]_closingVars
=============================================================================
