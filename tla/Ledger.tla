------------------------------- MODULE Ledger -------------------------------
(***************************************************************************)
(* The money between one company and one store: the finance writer         *)
(* (backend/app/modules/finance/service.py), the FIFO allocation of        *)
(* finance/domain.py and the checks of the nightly reconciliation          *)
(* (finance/jobs.py).                                                      *)
(*                                                                         *)
(* Every operation takes the row of the company and the balance row of the *)
(* partnership before it reads, and keeps both to its commit: it is one    *)
(* step.  Charges and credits are numbered in the order they were created. *)
(* A version that a request carries changes only with the status, which    *)
(* the same call tests, and is left out.  A credit for a dispute has the   *)
(* disputed order for its source, the others None.                         *)
(***************************************************************************)
EXTENDS Integers, Sequences, FiniteSetsExt

CONSTANTS
    Orders,         \* orders.id of the partnership
    Payments,       \* payments.id
    Adjustments,    \* adjustments.id
    Returns,        \* returns.id, the sources of credit notes
    Amounts,        \* the sums of money that occur, in cents
    CreditDays,     \* terms_snapshot.credit_days of the orders
    None,
    LastDay,        \* bound of a model: the days it lasts
    MaxEntries      \* bound of a model: the entries of the ledger

AdjustmentTypes == {"DEBIT", "CREDIT", "REFUND"}

\* The rows of a delivered order, of payments and of adjustments.
OrderPapers == [total : Nat, due : Nat]
PaymentPapers == [status : {"PENDING", "CONFIRMED", "REJECTED", "CANCELLED"}, amount : Amounts]
AdjustmentPapers == [status : {"PENDING_APPROVAL", "APPROVED", "REJECTED"}, type : AdjustmentTypes,
                     amount : Amounts, source : Orders \cup {None}]

ASSUME LedgerAssumption ==
    /\ Amounts \subseteq Nat \ {0}
    /\ CreditDays \subseteq Nat
    /\ {LastDay, MaxEntries} \subseteq Nat
    /\ None \notin Nat \cup Orders \cup Adjustments
    /\ None \notin OrderPapers \cup PaymentPapers \cup AdjustmentPapers

VARIABLES
    today,          \* the date in Dushanbe
    delivered,      \* the total and the due date of a delivered order, None before
    payment,        \* payments: status and amount, None before it is recorded
    adjustment,     \* adjustments: status, type, amount and source
    note,           \* credit_notes.amount by source, None without one
    charges, credits, allocations, ledger, balance

books == <<charges, credits, allocations, ledger, balance>>
papers == <<delivered, payment, adjustment, note>>
ledgerVars == <<today, papers, books>>

LedgerInit ==
    /\ today = 1
    /\ delivered = [o \in Orders |-> None]
    /\ payment = [p \in Payments |-> None]
    /\ adjustment = [a \in Adjustments |-> None]
    /\ note = [r \in Returns |-> None]
    /\ charges = <<>> /\ credits = <<>> /\ allocations = <<>> /\ ledger = <<>>
    /\ balance = 0
-----------------------------------------------------------------------------
Remaining(row) == row.amount - row.allocated
Grant(row, sum) == [row EXCEPT !.allocated = @ + sum]
SumRemaining(rows) == SumFunction([i \in DOMAIN rows |-> Remaining(rows[i])])

\* Of the allocations: what a charge and a credit got of each other.
OfCharge(lines, c) == SumFunction([i \in DOMAIN lines |-> IF lines[i].charge = c THEN lines[i].amount ELSE 0])
OfCredit(lines, k) == SumFunction([i \in DOMAIN lines |-> IF lines[i].credit = k THEN lines[i].amount ELSE 0])

Unsettled(rows) == {i \in DOMAIN rows : rows[i].allocated < rows[i].amount}
ChargeStatus(charge) ==
    IF charge.allocated = charge.amount THEN "PAID"
    ELSE IF charge.allocated = 0        THEN "OPEN"
    ELSE "PARTIALLY_PAID"

\* Mutant of Before: the charges are taken as they were created.
BeforeByAge(cs, i, j) == i < j

\* order_by(due_date, created_at, id)
Before(cs, i, j) == cs[i].due < cs[j].due \/ (cs[i].due = cs[j].due /\ i < j)

FirstCharge(cs) == CHOOSE c \in Unsettled(cs) : \A d \in Unsettled(cs) \ {c} : Before(cs, c, d)

(***************************************************************************)
(* One turn of the greedy plan, and its line: the first open charge takes  *)
(* what it still needs from the oldest credit that has something left.     *)
(***************************************************************************)
Pay(b) ==
    IF Unsettled(b.charges) = {} \/ Unsettled(b.credits) = {} THEN b
    ELSE LET c == FirstCharge(b.charges)
             k == Min(Unsettled(b.credits))
             sum == Min({Remaining(b.charges[c]), Remaining(b.credits[k])})
         IN  [charges |-> [b.charges EXCEPT ![c] = Grant(@, sum)],
              credits |-> [b.credits EXCEPT ![k] = Grant(@, sum)],
              lines   |-> Append(b.lines, [charge |-> c, credit |-> k, amount |-> sum])]

\* The books after each of so many turns.
Turns(b, last) == LET after[n \in 0..last] == IF n = 0 THEN b ELSE Pay(after[n - 1]) IN after

\* Every turn settles a charge or a credit, so there are no more of them than rows.
AllocateFifo(cs, ks) ==
    LET last == Len(cs) + Len(ks)
    IN  Turns([charges |-> cs, credits |-> ks, lines |-> allocations], last)[last]

\* _allocate_fifo, over the charges and credits with the new one.
Allocate(cs, ks) ==
    LET plan == AllocateFifo(cs, ks)
    IN  charges' = plan.charges /\ credits' = plan.credits /\ allocations' = plan.lines

Debits == {"CHARGE", "ADJUSTMENT_DEBIT", "REFUND"}
Signed(type, amount) == IF type \in Debits THEN amount ELSE -amount

\* _post_ledger; UniqueConstraint("entry_type", "source_id") refuses a second one.
PostLedger(type, source, amount) ==
    /\ Len(ledger) < MaxEntries
    /\ \A i \in DOMAIN ledger : <<ledger[i].type, ledger[i].source>> # <<type, source>>
    /\ balance' = balance + Signed(type, amount)
    /\ ledger' = Append(ledger, [type |-> type, source |-> source, amount |-> amount, after |-> balance'])

PostCharge(kind, type, source, amount, due) ==
    /\ PostLedger(type, source, amount)
    /\ Allocate(Append(charges, [kind |-> kind, source |-> source, amount |-> amount,
                                 due |-> due, allocated |-> 0]), credits)

PostCredit(kind, type, source, amount) ==
    /\ PostLedger(type, source, amount)
    /\ Allocate(charges, Append(credits, [kind |-> kind, source |-> source,
                                          amount |-> amount, allocated |-> 0]))
-----------------------------------------------------------------------------
(***************************************************************************)
(* The charge of a delivered order, posted by ORDER_DELIVERED in the       *)
(* transaction of the delivery.  An order of no value has none, and an     *)
(* event that comes again finds the charge that is there.                  *)
(***************************************************************************)
CreateOrderCharge(o, order) ==
    IF order.total = 0 \/ \E c \in DOMAIN charges : charges[c].kind = "ORDER" /\ charges[c].source = o
    THEN UNCHANGED books
    ELSE PostCharge("ORDER", "CHARGE", o, order.total, order.due)

\* The day of delivery and the credit days frozen in the order make the due date.
Deliver(o, total, days) ==
    LET order == [total |-> total, due |-> today + days]
    IN  /\ delivered[o] = None
        /\ delivered' = [delivered EXCEPT ![o] = order]
        /\ CreateOrderCharge(o, order)
        /\ UNCHANGED <<today, payment, adjustment, note>>

DeliverAgain(o) ==
    /\ delivered[o] # None
    /\ CreateOrderCharge(o, delivered[o])
    /\ UNCHANGED <<today, papers>>

PaymentIs(p, status) ==
    /\ payment' = [payment EXCEPT ![p].status = status]
    /\ UNCHANGED <<today, delivered, adjustment, note>>

\* Whoever confirms may record and confirm in one call.
RecordPayment(p, amount, confirm) ==
    /\ payment[p] = None
    /\ payment' = [payment EXCEPT ![p] =
            [status |-> IF confirm THEN "CONFIRMED" ELSE "PENDING", amount |-> amount]]
    /\ IF confirm THEN PostCredit("PAYMENT", "PAYMENT", p, amount) ELSE UNCHANGED books
    /\ UNCHANGED <<today, delivered, adjustment, note>>

PendingPayment(p) == payment[p] # None /\ payment[p].status = "PENDING"

ConfirmPayment(p) ==
    /\ PendingPayment(p)
    /\ PaymentIs(p, "CONFIRMED")
    /\ PostCredit("PAYMENT", "PAYMENT", p, payment[p].amount)

\* Mutant of FinishPayment: a confirmed payment can still be called off.
FinishAnyPayment(p, status) ==
    /\ payment[p] # None
    /\ PaymentIs(p, status)
    /\ UNCHANGED books

\* The company rejects, or the one who recorded it cancels.
FinishPayment(p, status) ==
    /\ PendingPayment(p)
    /\ PaymentIs(p, status)
    /\ UNCHANGED books

UnappliedCredit == SumRemaining(credits)

\* Mutant of PostAdjustment: a refund is not held against the credit that is left.
PostAnyAdjustment(a, type, amount) ==
    \/ type = "CREDIT" /\ PostCredit("ADJUSTMENT", "ADJUSTMENT_CREDIT", a, amount)
    \/ type = "DEBIT" /\ PostCharge("ADJUSTMENT", "ADJUSTMENT_DEBIT", a, amount, today)
    \/ type = "REFUND" /\ PostCharge("REFUND", "REFUND", a, amount, today)

\* What the approval of an adjustment posts.  A refund gives back what no charge claims.
PostAdjustment(a, type, amount) ==
    \/ type = "CREDIT" /\ PostCredit("ADJUSTMENT", "ADJUSTMENT_CREDIT", a, amount)
    \/ type = "DEBIT" /\ PostCharge("ADJUSTMENT", "ADJUSTMENT_DEBIT", a, amount, today)
    \/ /\ type = "REFUND"
       /\ amount <= UnappliedCredit
       /\ PostCharge("REFUND", "REFUND", a, amount, today)

\* What an owner creates is approved in the same transaction.
CreateAdjustment(a, type, amount, source, byOwner) ==
    /\ adjustment[a] = None
    /\ adjustment' = [adjustment EXCEPT ![a] =
            [status |-> IF byOwner THEN "APPROVED" ELSE "PENDING_APPROVAL",
             type |-> type, amount |-> amount, source |-> source]]
    /\ IF byOwner THEN PostAdjustment(a, type, amount) ELSE UNCHANGED books
    /\ UNCHANGED <<today, delivered, payment, note>>

AwaitsApproval(a) == adjustment[a] # None /\ adjustment[a].status = "PENDING_APPROVAL"

DecideAdjustment(a, status) ==
    /\ AwaitsApproval(a)
    /\ adjustment' = [adjustment EXCEPT ![a].status = status]
    /\ IF status = "APPROVED" THEN PostAdjustment(a, adjustment[a].type, adjustment[a].amount)
       ELSE UNCHANGED books
    /\ UNCHANGED <<today, delivered, payment, note>>

\* Once per return; with another amount for the same return the call is refused.
CreateCreditNote(r, amount) ==
    \/ /\ note[r] = None
       /\ note' = [note EXCEPT ![r] = amount]
       /\ PostCredit("CREDIT_NOTE", "CREDIT_NOTE", r, amount)
       /\ UNCHANGED <<today, delivered, payment, adjustment>>
    \/ note[r] = amount /\ UNCHANGED ledgerVars

NextDay ==
    /\ today < LastDay
    /\ today' = today + 1
    /\ UNCHANGED <<papers, books>>

\* Everything but adjustments, which a dispute may hear of.
MoneyMoves ==
    \/ \E o \in Orders, total \in Amounts \cup {0}, days \in CreditDays : Deliver(o, total, days)
    \/ \E o \in Orders : DeliverAgain(o)
    \/ \E p \in Payments, amount \in Amounts, confirm \in BOOLEAN : RecordPayment(p, amount, confirm)
    \/ \E p \in Payments : ConfirmPayment(p)
    \/ \E p \in Payments, status \in {"REJECTED", "CANCELLED"} : FinishPayment(p, status)
    \/ \E r \in Returns, amount \in Amounts : CreateCreditNote(r, amount)
    \/ NextDay

\* An adjustment that nobody disputed anything for.
AdjustByHand ==
    \E a \in Adjustments, type \in AdjustmentTypes, amount \in Amounts, byOwner \in BOOLEAN :
        CreateAdjustment(a, type, amount, None, byOwner)
-----------------------------------------------------------------------------
(***************************************************************************)
(* What the nightly reconciliation checks, by its check_code.              *)
(***************************************************************************)
Posts(rows, kind, source) == \E i \in DOMAIN rows : rows[i].kind = kind /\ rows[i].source = source
Enters(type, source) == \E i \in DOMAIN ledger : ledger[i].type = type /\ ledger[i].source = source
IsConfirmed(p) == payment[p] # None /\ payment[p].status = "CONFIRMED"
IsApproved(a) == adjustment[a] # None /\ adjustment[a].status = "APPROVED"

SignedAt(i) == Signed(ledger[i].type, ledger[i].amount)
BalanceLedger == balance = SumFunction([i \in DOMAIN ledger |-> SignedAt(i)])
BalanceOutstanding == balance = SumRemaining(charges) - UnappliedCredit
ChargeAllocation == \A c \in DOMAIN charges : charges[c].allocated = OfCharge(allocations, c)
CreditAllocation == \A k \in DOMAIN credits : credits[k].allocated = OfCredit(allocations, k)
OrderCharge == \A o \in Orders :
    delivered[o] # None /\ delivered[o].total > 0 => Posts(charges, "ORDER", o)
PaymentCredit == \A p \in Payments : IsConfirmed(p) => Posts(credits, "PAYMENT", p)
PaymentLedger == \A p \in Payments : IsConfirmed(p) => Enters("PAYMENT", p)
-----------------------------------------------------------------------------
\* FIN-060: what the reconciliation looks for.
NothingToReconcile ==
    /\ BalanceLedger /\ BalanceOutstanding
    /\ ChargeAllocation /\ CreditAllocation
    /\ OrderCharge /\ PaymentCredit /\ PaymentLedger

ChargeHasCause(charge) ==
    CASE charge.kind = "ORDER" -> delivered[charge.source] = [total |-> charge.amount, due |-> charge.due]
      [] OTHER -> /\ IsApproved(charge.source)
                  /\ adjustment[charge.source].type = IF charge.kind = "REFUND" THEN "REFUND" ELSE "DEBIT"
                  /\ adjustment[charge.source].amount = charge.amount

CreditHasCause(credit) ==
    CASE credit.kind = "PAYMENT" -> IsConfirmed(credit.source) /\ payment[credit.source].amount = credit.amount
      [] credit.kind = "CREDIT_NOTE" -> note[credit.source] = credit.amount
      [] OTHER -> /\ IsApproved(credit.source)
                  /\ adjustment[credit.source].type = "CREDIT"
                  /\ adjustment[credit.source].amount = credit.amount

\* What it does not look for.
EveryPostingHasItsCause ==
    /\ \A c \in DOMAIN charges : ChargeHasCause(charges[c])
    /\ \A k \in DOMAIN credits : CreditHasCause(credits[k])
    /\ Len(ledger) = Len(charges) + Len(credits)
    /\ Len(ledger) =
            Cardinality({o \in Orders : delivered[o] # None /\ delivered[o].total > 0})
          + Cardinality({p \in Payments : IsConfirmed(p)})
          + Cardinality({a \in Adjustments : IsApproved(a)})
          + Cardinality({r \in Returns : note[r] # None})
    /\ \A i \in DOMAIN ledger :
            ledger[i].after = SignedAt(i) + IF i = 1 THEN 0 ELSE ledger[i - 1].after

\* Whenever an operation has committed, the nightly reconciliation has nothing to report: the balance is the
\* sum of the ledger and what charges still need less what credits still have, a row counts as allocated what
\* its allocations sum to, and no delivered order or confirmed payment was forgotten.  Nor does what it fails
\* to ask: whatever several people decide about one payment or adjustment, and however often an event comes,
\* there is money in the books only for what was delivered, confirmed, approved or returned, to that amount
\* and once, and the running balance of the statement never jumps.
BooksAreTrue == NothingToReconcile /\ EveryPostingHasItsCause

\* FIN-030, FIN-033 and FIN-043: no credit lies idle beside an open charge, whichever came first, so a
\* refund, which may only take what no charge claims, is settled by the transaction that approves it.
NoIdleMoney ==
    /\ Unsettled(charges) = {} \/ Unsettled(credits) = {}
    /\ \A c \in DOMAIN charges : charges[c].kind = "REFUND" => ChargeStatus(charges[c]) = "PAID"

\* FIN-031: whoever posts, money goes to a charge only when every charge due before it, or due with it and
\* older, is paid; and from a credit only when every older credit is used up.
OldestDebtFirst ==
    [][\A n \in DOMAIN allocations' \ DOMAIN allocations :
        LET line == allocations'[n]
        IN  /\ \A c \in DOMAIN charges' :
                  \/ charges'[c].due < charges'[line.charge].due
                  \/ charges'[c].due = charges'[line.charge].due /\ c < line.charge
                  => ChargeStatus(charges'[c]) = "PAID"
            /\ \A k \in 1..(line.credit - 1) : k \notin Unsettled(credits')]_ledgerVars
=============================================================================
