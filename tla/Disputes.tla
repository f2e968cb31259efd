------------------------------ MODULE Disputes ------------------------------
(***************************************************************************)
(* The disputes of delivered orders (DisputeService of                     *)
(* backend/app/modules/returns/service.py), composed with the Ledger: a    *)
(* dispute may end with a credit, which is an adjustment that an owner     *)
(* approves.  A manager's credit waits, and the owner's decision comes     *)
(* back as an event that is handled in the transaction of the decision.    *)
(*                                                                         *)
(* An order is disputed at most once: opening makes it DISPUTED, closing   *)
(* COMPLETED, and only a DELIVERED order can be disputed.  So a dispute is *)
(* known by its order here.  The window, and the completion of the order,  *)
(* are in Completion; a dispute about a payment moves no money.            *)
(***************************************************************************)
EXTENDS Ledger

VARIABLE dispute    \* disputes by order: status, resolution_type and the two adjustment ids

vars == <<ledgerVars, dispute>>

\* NO_ACTION stands for CONVERTED_TO_RETURN too, whose return goes its own way.
Resolutions == {"NO_ACTION", "ADJUSTMENT_CREDIT"}
ASSUME DisputesAssumption == None \notin Resolutions

OpenStatuses == {"OPEN", "UNDER_REVIEW"}
IsOpen(o) == dispute[o] # None /\ dispute[o].status \in OpenStatuses

Init == LedgerInit /\ dispute = [o \in Orders |-> None]

Open(o) ==
    /\ delivered[o] # None
    /\ dispute[o] = None
    /\ dispute' = [dispute EXCEPT ![o] =
            [status |-> "OPEN", resolution |-> None, pending |-> None, credit |-> None]]
    /\ UNCHANGED ledgerVars

StartReview(o) ==
    /\ dispute[o] # None /\ dispute[o].status = "OPEN"
    /\ dispute' = [dispute EXCEPT ![o].status = "UNDER_REVIEW"]
    /\ UNCHANGED ledgerVars

\* Resolved without a credit.
Resolve(o) ==
    /\ IsOpen(o)
    /\ dispute' = [dispute EXCEPT ![o].status = "RESOLVED", ![o].resolution = "NO_ACTION"]
    /\ UNCHANGED ledgerVars

\* Rejected by the company or withdrawn by the store.  A credit that waits is left waiting.
Close(o, status) ==
    /\ IsOpen(o)
    /\ dispute' = [dispute EXCEPT ![o].status = status]
    /\ UNCHANGED ledgerVars

(***************************************************************************)
(* The company settles the dispute with a credit of at most the order's    *)
(* total.  By an owner it is granted at once; by a manager it waits, and   *)
(* is the one that waits, whatever waited before.                          *)
(***************************************************************************)
SettleWithCredit(o, a, amount, byOwner) ==
    /\ IsOpen(o)
    /\ amount <= delivered[o].total
    /\ CreateAdjustment(a, "CREDIT", amount, o, byOwner)
    /\ dispute' = [dispute EXCEPT ![o] =
            IF byOwner
            THEN [@ EXCEPT !.status = "RESOLVED", !.resolution = "ADJUSTMENT_CREDIT", !.credit = a]
            ELSE [@ EXCEPT !.status = "UNDER_REVIEW", !.resolution = "ADJUSTMENT_CREDIT", !.pending = a]]

\* Mutant of AdjustmentDecided: the handler looks only for approvals.
OnlyApprovals(a, status) ==
    dispute' = [o \in Orders |->
        IF status = "APPROVED" /\ IsOpen(o) /\ dispute[o].pending = a
        THEN [dispute[o] EXCEPT !.status = "RESOLVED", !.pending = None, !.credit = a]
        ELSE dispute[o]]

\* adjustment_decided: the open dispute that waits for the adjustment, if there is one, hears of it.
AdjustmentDecided(a, status) ==
    dispute' = [o \in Orders |->
        IF ~(IsOpen(o) /\ dispute[o].pending = a) THEN dispute[o]
        ELSE IF status = "APPROVED"
             THEN [dispute[o] EXCEPT !.status = "RESOLVED", !.pending = None, !.credit = a]
             ELSE [dispute[o] EXCEPT !.pending = None, !.resolution = None]]

Decide(a, status) == DecideAdjustment(a, status) /\ AdjustmentDecided(a, status)

Dispute(o) ==
    \/ Open(o)
    \/ StartReview(o)
    \/ Resolve(o)
    \/ \E status \in {"REJECTED", "WITHDRAWN"} : Close(o, status)
    \/ \E a \in Adjustments, amount \in Amounts, byOwner \in BOOLEAN :
          SettleWithCredit(o, a, amount, byOwner)

Next ==
    \/ MoneyMoves /\ UNCHANGED dispute
    \/ AdjustByHand /\ UNCHANGED dispute
    \/ \E o \in Orders : Dispute(o)
    \/ \E a \in Adjustments, status \in {"APPROVED", "REJECTED"} : Decide(a, status)

Spec == Init /\ [][Next]_vars
-----------------------------------------------------------------------------
IsCreditFor(o, a) ==
    /\ adjustment[a].type = "CREDIT" /\ adjustment[a].source = o
    /\ adjustment[a].amount <= delivered[o].total

\* DSP-021: an open dispute that is to end with a credit waits for an adjustment of its own that an owner
\* can still decide, never for one that was decided; and one that was resolved with a credit names an
\* approved one, which the store has in its books.
DisputesAwaitTheirCredit ==
    \A o \in Orders : dispute[o] # None =>
        /\ IsOpen(o) => (dispute[o].pending = None) = (dispute[o].resolution = None)
        /\ IsOpen(o) /\ dispute[o].pending # None =>
              AwaitsApproval(dispute[o].pending) /\ IsCreditFor(o, dispute[o].pending)
        /\ (dispute[o].credit # None) =
              (dispute[o].status = "RESOLVED" /\ dispute[o].resolution = "ADJUSTMENT_CREDIT")
        /\ dispute[o].credit # None =>
              /\ IsCreditFor(o, dispute[o].credit)
              /\ Posts(credits, "ADJUSTMENT", dispute[o].credit)
=============================================================================
