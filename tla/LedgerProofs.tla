---------------------------- MODULE LedgerProofs ----------------------------
(***************************************************************************)
(* The money between a company and a store, and the disputes that end with *)
(* a credit, for any number of orders, payments, adjustments and returns,  *)
(* any amounts and any number of postings.                                 *)
(***************************************************************************)
EXTENDS Disputes, SumProofs

ChargeRows == [kind : {"ORDER", "ADJUSTMENT", "REFUND"}, source : Orders \cup Adjustments,
               amount : Nat \ {0}, due : Nat, allocated : Nat]
CreditRows == [kind : {"PAYMENT", "ADJUSTMENT", "CREDIT_NOTE"}, source : Payments \cup Adjustments \cup Returns,
               amount : Nat \ {0}, allocated : Nat]
LineRows == [charge : Nat, credit : Nat, amount : Nat]
Books == [charges : Seq(ChargeRows), credits : Seq(CreditRows), lines : Seq(LineRows)]

LEMMA SeqFacts ==
    ASSUME NEW S, NEW s \in Seq(S)
    PROVE  DOMAIN s = 1..Len(s) /\ Len(s) \in Nat /\ \A i \in DOMAIN s : s[i] \in S /\ i \in Nat
OBVIOUS

(***************************************************************************)
(* The sums over rows and lines.                                           *)
(***************************************************************************)
LinesOK(lines) ==
    /\ DOMAIN lines = 1..Len(lines) /\ Len(lines) \in Nat
    /\ \A i \in DOMAIN lines : lines[i].amount \in Nat

LEMMA OfChargeType ==
    ASSUME NEW lines, LinesOK(lines), NEW x
    PROVE  OfCharge(lines, x) \in Int
<1> DEFINE f == [i \in DOMAIN lines |-> IF lines[i].charge = x THEN lines[i].amount ELSE 0]
<1>1. IsFiniteSet(DOMAIN lines)
  BY FS_Interval DEF LinesOK
<1>2. DOMAIN f = DOMAIN lines /\ \A i \in DOMAIN lines : f[i] \in Int
  BY DEF LinesOK
<1>3. SumFunctionOnSet(f, DOMAIN lines) \in Int
  <2> HIDE DEF f
  <2> QED BY <1>1, <1>2, SumInt
<1> QED
  BY <1>2, <1>3 DEF OfCharge, SumFunction

LEMMA OfChargeGrows ==
    ASSUME NEW lines, LinesOK(lines), NEW more, LinesOK(more), Len(more) = Len(lines) + 1,
           \A i \in DOMAIN lines : more[i] = lines[i], NEW x
    PROVE  OfCharge(more, x) = OfCharge(lines, x) + IF more[Len(more)].charge = x THEN more[Len(more)].amount ELSE 0
<1> DEFINE n == Len(lines)
           f == [i \in DOMAIN lines |-> IF lines[i].charge = x THEN lines[i].amount ELSE 0]
           g == [i \in DOMAIN more |-> IF more[i].charge = x THEN more[i].amount ELSE 0]
<1>1. n \in Nat /\ DOMAIN f = 1..n /\ DOMAIN g = 1..(n + 1) /\ n + 1 = Len(more)
  BY DEF LinesOK
<1>2. (\A i \in 1..n : f[i] \in Int /\ g[i] = f[i]) /\ g[n + 1] \in Int
  BY DEF LinesOK
<1>3. SumFunction(g) = SumFunction(f) + g[n + 1]
  <2> HIDE DEF f, g, n
  <2> QED BY <1>1, <1>2, SumGrows
<1>4. g[n + 1] = IF more[Len(more)].charge = x THEN more[Len(more)].amount ELSE 0
  BY <1>1
<1>5. SumFunction(f) = OfCharge(lines, x) /\ SumFunction(g) = OfCharge(more, x)
  BY DEF OfCharge
<1> HIDE DEF f, g, n
<1> QED
  BY <1>3, <1>4, <1>5

LEMMA OfChargeNone ==
    ASSUME NEW lines, LinesOK(lines), NEW x, \A i \in DOMAIN lines : lines[i].charge # x
    PROVE  OfCharge(lines, x) = 0
<1> DEFINE f == [i \in DOMAIN lines |-> IF lines[i].charge = x THEN lines[i].amount ELSE 0]
<1>1. IsFiniteSet(DOMAIN lines)
  BY FS_Interval DEF LinesOK
<1>2. DOMAIN f = DOMAIN lines /\ \A i \in DOMAIN lines : f[i] = 0
  OBVIOUS
<1>3. SumFunctionOnSet(f, DOMAIN lines) = 0
  <2> HIDE DEF f
  <2> QED BY <1>1, <1>2, SumZero
<1> QED
  BY <1>2, <1>3 DEF OfCharge, SumFunction

LEMMA OfCreditType ==
    ASSUME NEW lines, LinesOK(lines), NEW x
    PROVE  OfCredit(lines, x) \in Int
<1> DEFINE f == [i \in DOMAIN lines |-> IF lines[i].credit = x THEN lines[i].amount ELSE 0]
<1>1. IsFiniteSet(DOMAIN lines)
  BY FS_Interval DEF LinesOK
<1>2. DOMAIN f = DOMAIN lines /\ \A i \in DOMAIN lines : f[i] \in Int
  BY DEF LinesOK
<1>3. SumFunctionOnSet(f, DOMAIN lines) \in Int
  <2> HIDE DEF f
  <2> QED BY <1>1, <1>2, SumInt
<1> QED
  BY <1>2, <1>3 DEF OfCredit, SumFunction

LEMMA OfCreditGrows ==
    ASSUME NEW lines, LinesOK(lines), NEW more, LinesOK(more), Len(more) = Len(lines) + 1,
           \A i \in DOMAIN lines : more[i] = lines[i], NEW x
    PROVE  OfCredit(more, x) = OfCredit(lines, x) + IF more[Len(more)].credit = x THEN more[Len(more)].amount ELSE 0
<1> DEFINE n == Len(lines)
           f == [i \in DOMAIN lines |-> IF lines[i].credit = x THEN lines[i].amount ELSE 0]
           g == [i \in DOMAIN more |-> IF more[i].credit = x THEN more[i].amount ELSE 0]
<1>1. n \in Nat /\ DOMAIN f = 1..n /\ DOMAIN g = 1..(n + 1) /\ n + 1 = Len(more)
  BY DEF LinesOK
<1>2. (\A i \in 1..n : f[i] \in Int /\ g[i] = f[i]) /\ g[n + 1] \in Int
  BY DEF LinesOK
<1>3. SumFunction(g) = SumFunction(f) + g[n + 1]
  <2> HIDE DEF f, g, n
  <2> QED BY <1>1, <1>2, SumGrows
<1>4. g[n + 1] = IF more[Len(more)].credit = x THEN more[Len(more)].amount ELSE 0
  BY <1>1
<1>5. SumFunction(f) = OfCredit(lines, x) /\ SumFunction(g) = OfCredit(more, x)
  BY DEF OfCredit
<1> HIDE DEF f, g, n
<1> QED
  BY <1>3, <1>4, <1>5

LEMMA OfCreditNone ==
    ASSUME NEW lines, LinesOK(lines), NEW x, \A i \in DOMAIN lines : lines[i].credit # x
    PROVE  OfCredit(lines, x) = 0
<1> DEFINE f == [i \in DOMAIN lines |-> IF lines[i].credit = x THEN lines[i].amount ELSE 0]
<1>1. IsFiniteSet(DOMAIN lines)
  BY FS_Interval DEF LinesOK
<1>2. DOMAIN f = DOMAIN lines /\ \A i \in DOMAIN lines : f[i] = 0
  OBVIOUS
<1>3. SumFunctionOnSet(f, DOMAIN lines) = 0
  <2> HIDE DEF f
  <2> QED BY <1>1, <1>2, SumZero
<1> QED
  BY <1>2, <1>3 DEF OfCredit, SumFunction

\* Rows of charges or of credits, for what the two have in common.
MoneyRows(rows) ==
    /\ DOMAIN rows = 1..Len(rows) /\ Len(rows) \in Nat
    /\ \A i \in DOMAIN rows : rows[i].amount \in Nat \ {0} /\ rows[i].allocated \in 0..rows[i].amount

LEMMA MoneyRowsFinite ==
    ASSUME NEW rows, MoneyRows(rows)
    PROVE  IsFiniteSet(DOMAIN rows)
BY FS_Interval DEF MoneyRows

LEMMA SumRemainingType ==
    ASSUME NEW rows, MoneyRows(rows)
    PROVE  /\ SumRemaining(rows) \in Nat
           /\ \A i \in DOMAIN rows : Remaining(rows[i]) \in Nat /\ Remaining(rows[i]) <= SumRemaining(rows)
<1> DEFINE f == [i \in DOMAIN rows |-> Remaining(rows[i])]
<1>1. IsFiniteSet(DOMAIN rows) /\ DOMAIN f = DOMAIN rows /\ \A i \in DOMAIN rows : f[i] \in Nat
  BY MoneyRowsFinite DEF MoneyRows, Remaining
<1>2. SumFunctionOnSet(f, DOMAIN rows) \in Nat /\ \A i \in DOMAIN rows : f[i] <= SumFunctionOnSet(f, DOMAIN rows)
  <2> HIDE DEF f
  <2> QED BY <1>1, SumNat
<1> QED
  BY <1>1, <1>2 DEF SumRemaining, SumFunction

LEMMA SumRemainingSettled ==
    ASSUME NEW rows, MoneyRows(rows)
    PROVE  SumRemaining(rows) = 0 <=> Unsettled(rows) = {}
<1> DEFINE f == [i \in DOMAIN rows |-> Remaining(rows[i])]
<1>1. \A i \in DOMAIN rows : f[i] = 0 <=> i \notin Unsettled(rows)
  BY DEF MoneyRows, Unsettled, Remaining
<1>2. CASE Unsettled(rows) = {}
  <2>1. IsFiniteSet(DOMAIN rows) /\ DOMAIN f = DOMAIN rows /\ \A i \in DOMAIN rows : f[i] = 0
    BY <1>1, <1>2, MoneyRowsFinite
  <2>2. SumFunctionOnSet(f, DOMAIN rows) = 0
    <3> HIDE DEF f
    <3> QED BY <2>1, SumZero
  <2> QED
    BY <1>2, <2>1, <2>2 DEF SumRemaining, SumFunction
<1>3. CASE Unsettled(rows) # {}
  <2> PICK i \in DOMAIN rows : i \in Unsettled(rows)
    BY <1>3 DEF Unsettled
  <2>1. Remaining(rows[i]) # 0 /\ Remaining(rows[i]) \in Nat
        /\ Remaining(rows[i]) <= SumRemaining(rows) /\ SumRemaining(rows) \in Nat
    BY <1>1, SumRemainingType
  <2> QED
    BY <1>3, <2>1
<1> QED
  BY <1>2, <1>3

\* A new row, of which nothing is allocated yet.
LEMMA SumRemainingGrows ==
    ASSUME NEW rows, MoneyRows(rows), NEW more, MoneyRows(more), Len(more) = Len(rows) + 1,
           \A i \in DOMAIN rows : more[i] = rows[i]
    PROVE  SumRemaining(more) = SumRemaining(rows) + Remaining(more[Len(more)])
<1> DEFINE n == Len(rows)
           f == [i \in DOMAIN rows |-> Remaining(rows[i])]
           g == [i \in DOMAIN more |-> Remaining(more[i])]
<1>1. n \in Nat /\ DOMAIN f = 1..n /\ DOMAIN g = 1..(n + 1)
  BY DEF MoneyRows
<1>2. (\A i \in 1..n : f[i] \in Int /\ g[i] = f[i]) /\ g[n + 1] \in Int
  BY DEF MoneyRows, Remaining
<1>3. SumFunction(g) = SumFunction(f) + g[n + 1]
  <2> HIDE DEF f, g, n
  <2> QED BY <1>1, <1>2, SumGrows
<1> QED
  BY <1>1, <1>3 DEF SumRemaining

\* One row gets an allocation.
LEMMA SumRemainingPaid ==
    ASSUME NEW rows, MoneyRows(rows), NEW paid, MoneyRows(paid), DOMAIN paid = DOMAIN rows,
           NEW i \in DOMAIN rows, \A j \in DOMAIN rows \ {i} : Remaining(paid[j]) = Remaining(rows[j])
    PROVE  SumRemaining(paid) = SumRemaining(rows) - Remaining(rows[i]) + Remaining(paid[i])
<1> DEFINE f == [j \in DOMAIN rows |-> Remaining(rows[j])]
           g == [j \in DOMAIN rows |-> Remaining(paid[j])]
<1>1. DOMAIN f = DOMAIN rows /\ DOMAIN g = DOMAIN rows
  OBVIOUS
<1>2. /\ \A j \in DOMAIN rows : f[j] \in Int
      /\ g[i] \in Int
  BY DEF MoneyRows, Remaining
<1>3. \A j \in DOMAIN rows \ {i} : g[j] = f[j]
  OBVIOUS
<1>4. SumFunctionOnSet(g, DOMAIN rows) = SumFunctionOnSet(f, DOMAIN rows) - f[i] + g[i]
  <2> HIDE DEF f, g
  <2> QED BY <1>2, <1>3, MoneyRowsFinite, SumChange
<1> QED
  BY <1>1, <1>4 DEF SumRemaining, SumFunction
-----------------------------------------------------------------------------
(***************************************************************************)
(* One turn of the allocation.                                             *)
(***************************************************************************)
Sound(b) ==
    /\ b \in Books
    /\ \A c \in DOMAIN b.charges : /\ b.charges[c].allocated <= b.charges[c].amount
                                   /\ b.charges[c].allocated = OfCharge(b.lines, c)
    /\ \A k \in DOMAIN b.credits : /\ b.credits[k].allocated <= b.credits[k].amount
                                   /\ b.credits[k].allocated = OfCredit(b.lines, k)
    /\ \A i \in DOMAIN b.lines : b.lines[i].charge \in DOMAIN b.charges /\ b.lines[i].credit \in DOMAIN b.credits

LEMMA BooksFacts ==
    ASSUME NEW b \in Books
    PROVE  /\ b.charges \in Seq(ChargeRows) /\ b.credits \in Seq(CreditRows) /\ b.lines \in Seq(LineRows)
           /\ DOMAIN b.charges = 1..Len(b.charges) /\ Len(b.charges) \in Nat
           /\ DOMAIN b.credits = 1..Len(b.credits) /\ Len(b.credits) \in Nat
           /\ DOMAIN b.lines = 1..Len(b.lines) /\ Len(b.lines) \in Nat
           /\ \A c \in DOMAIN b.charges : c \in Nat /\ b.charges[c] \in ChargeRows
           /\ \A k \in DOMAIN b.credits : k \in Nat /\ b.credits[k] \in CreditRows
           /\ \A i \in DOMAIN b.lines : i \in Nat /\ b.lines[i] \in LineRows
<1>1. b.charges \in Seq(ChargeRows) /\ b.credits \in Seq(CreditRows) /\ b.lines \in Seq(LineRows)
  BY DEF Books
<1> QED
  BY <1>1, SeqFacts

LEMMA SoundRows ==
    ASSUME NEW b, Sound(b)
    PROVE  MoneyRows(b.charges) /\ MoneyRows(b.credits) /\ LinesOK(b.lines)
<1>1. MoneyRows(b.charges)
  BY BooksFacts DEF Sound, MoneyRows, ChargeRows
<1>2. MoneyRows(b.credits)
  BY BooksFacts DEF Sound, MoneyRows, CreditRows
<1>3. LinesOK(b.lines)
  BY BooksFacts DEF Sound, LinesOK, LineRows
<1> QED
  BY <1>1, <1>2, <1>3

\* The first of some charges, as they are due.
LEMMA FirstIsFirst ==
    ASSUME NEW cs \in Seq(ChargeRows), Unsettled(cs) # {}
    PROVE  /\ FirstCharge(cs) \in Unsettled(cs)
           /\ \A d \in Unsettled(cs) \ {FirstCharge(cs)} : Before(cs, FirstCharge(cs), d)
<1> DEFINE U == Unsettled(cs)
           Dues == {cs[i].due : i \in U}
<1>1. \A i \in U : i \in Nat /\ cs[i].due \in Nat
  <2>1. \A i \in U : i \in Nat /\ cs[i] \in ChargeRows
    BY SeqFacts DEF Unsettled
  <2> QED
    BY <2>1 DEF ChargeRows
<1>2. PICK due \in Dues : \A d \in Dues : due <= d
  <2>1. Dues \in SUBSET Nat /\ Dues # {}
    BY <1>1
  <2> HIDE DEF Dues
  <2> QED BY <2>1, NatMin
<1> DEFINE Earliest == {i \in U : cs[i].due = due}
<1>3. PICK c \in Earliest : \A i \in Earliest : c <= i
  <2>1. Earliest \in SUBSET Nat /\ Earliest # {}
    BY <1>1, <1>2
  <2> HIDE DEF Earliest
  <2> QED BY <2>1, NatMin
<1>4. ASSUME NEW d \in U \ {c} PROVE Before(cs, c, d)
  <2>1. c \in U /\ cs[c].due = due /\ due <= cs[d].due /\ (cs[d].due = due => c <= d)
    BY <1>2, <1>3
  <2> QED
    BY <1>1, <2>1 DEF Before
<1> QED
  BY <1>3, <1>4 DEF FirstCharge

LEMMA BeforeIsOneWay ==
    ASSUME NEW cs \in Seq(ChargeRows), NEW c \in DOMAIN cs, NEW d \in DOMAIN cs
    PROVE  Before(cs, c, d) => ~Before(cs, d, c)
<1>1. cs[c] \in ChargeRows /\ cs[d] \in ChargeRows /\ c \in Nat /\ d \in Nat
  BY SeqFacts
<1> QED
  BY <1>1 DEF Before, ChargeRows

LEMMA MinIsMin ==
    ASSUME NEW S \in SUBSET Nat, S # {}
    PROVE  Min(S) \in S /\ \A x \in S : Min(S) <= x
BY NatMin DEF Min

Owing(b) == Unsettled(b.charges) # {} /\ Unsettled(b.credits) # {}

Turn(b, c, k, sum) ==
    /\ c \in Unsettled(b.charges) /\ \A d \in Unsettled(b.charges) \ {c} : Before(b.charges, c, d)
    /\ k \in Unsettled(b.credits) /\ \A x \in Unsettled(b.credits) : k <= x
    /\ c \in DOMAIN b.charges /\ k \in DOMAIN b.credits
    /\ sum \in Nat \ {0}
    /\ sum <= Remaining(b.charges[c]) /\ sum <= Remaining(b.credits[k])
    /\ sum = Remaining(b.charges[c]) \/ sum = Remaining(b.credits[k])

Paying(b, c, k, sum) ==
    [charges |-> [b.charges EXCEPT ![c] = Grant(@, sum)],
     credits |-> [b.credits EXCEPT ![k] = Grant(@, sum)],
     lines   |-> Append(b.lines, [charge |-> c, credit |-> k, amount |-> sum])]

LEMMA PayTakesTurn ==
    ASSUME NEW b, Sound(b), Owing(b)
    PROVE  \E c, k, sum : Turn(b, c, k, sum) /\ Pay(b) = Paying(b, c, k, sum)
<1> DEFINE c == FirstCharge(b.charges)
           k == Min(Unsettled(b.credits))
           sum == Min({Remaining(b.charges[c]), Remaining(b.credits[k])})
<1>1. b.charges \in Seq(ChargeRows) /\ MoneyRows(b.charges) /\ MoneyRows(b.credits)
  BY SoundRows DEF Sound, Books
<1>2. c \in Unsettled(b.charges) /\ \A d \in Unsettled(b.charges) \ {c} : Before(b.charges, c, d)
  BY <1>1, FirstIsFirst DEF Owing
<1>3. k \in Unsettled(b.credits) /\ \A x \in Unsettled(b.credits) : k <= x
  <2>1. Unsettled(b.credits) \in SUBSET Nat
    BY <1>1 DEF Unsettled, MoneyRows
  <2> QED
    BY <2>1, MinIsMin DEF Owing
<1>4. /\ c \in DOMAIN b.charges /\ k \in DOMAIN b.credits
      /\ Remaining(b.charges[c]) \in Nat \ {0} /\ Remaining(b.credits[k]) \in Nat \ {0}
  <2>1. \A rows : MoneyRows(rows) => \A i \in Unsettled(rows) : i \in DOMAIN rows /\ Remaining(rows[i]) \in Nat \ {0}
    BY DEF Unsettled, MoneyRows, Remaining
  <2> HIDE DEF c, k
  <2> QED
    BY <1>1, <1>2, <1>3, <2>1
<1>5. /\ sum \in {Remaining(b.charges[c]), Remaining(b.credits[k])}
      /\ sum <= Remaining(b.charges[c]) /\ sum <= Remaining(b.credits[k])
  BY <1>4, MinIsMin
<1>6. Turn(b, c, k, sum)
  BY <1>2, <1>3, <1>4, <1>5 DEF Turn
<1>7. Pay(b) = Paying(b, c, k, sum)
  BY DEF Pay, Owing, Paying
<1> HIDE DEF c, k, sum
<1> QED
  BY <1>6, <1>7

\* What a turn leaves as it was, row by row.
KeptCharges(old, new) ==
    /\ Len(new) = Len(old)
    /\ \A c \in DOMAIN old : /\ new[c].kind = old[c].kind /\ new[c].source = old[c].source
                             /\ new[c].amount = old[c].amount /\ new[c].due = old[c].due
                             /\ new[c].allocated >= old[c].allocated

KeptCredits(old, new) ==
    /\ Len(new) = Len(old)
    /\ \A k \in DOMAIN old : /\ new[k].kind = old[k].kind /\ new[k].source = old[k].source
                             /\ new[k].amount = old[k].amount
                             /\ new[k].allocated >= old[k].allocated

LEMMA ChargeRowIsPaid ==
    ASSUME NEW row \in ChargeRows, NEW sum \in Nat
    PROVE  /\ Grant(row, sum) \in ChargeRows
           /\ Grant(row, sum).kind = row.kind /\ Grant(row, sum).source = row.source
           /\ Grant(row, sum).amount = row.amount /\ Grant(row, sum).due = row.due
           /\ Grant(row, sum).allocated = row.allocated + sum
BY DEF Grant, ChargeRows

LEMMA ChargeIsPaid ==
    ASSUME NEW cs \in Seq(ChargeRows), NEW c \in DOMAIN cs, NEW sum \in Nat,
           NEW new, new = [cs EXCEPT ![c] = Grant(@, sum)]
    PROVE  /\ new \in Seq(ChargeRows) /\ DOMAIN new = DOMAIN cs /\ KeptCharges(cs, new)
           /\ new[c].allocated = cs[c].allocated + sum
           /\ \A d \in DOMAIN cs \ {c} : new[d] = cs[d]
<1> DEFINE row == Grant(cs[c], sum)
<1>1. cs[c] \in ChargeRows /\ \A d \in DOMAIN cs : cs[d] \in ChargeRows
  BY SeqFacts
<1>2. /\ row \in ChargeRows
      /\ row.kind = cs[c].kind /\ row.source = cs[c].source /\ row.amount = cs[c].amount
      /\ row.allocated = cs[c].allocated + sum /\ row.due = cs[c].due
  BY <1>1, ChargeRowIsPaid
<1>5. \A d \in DOMAIN cs : cs[d].allocated \in Nat
  BY <1>1 DEF ChargeRows
<1>3. new = [cs EXCEPT ![c] = row]
  OBVIOUS
<1> HIDE DEF row
<1>4. /\ new \in Seq(ChargeRows) /\ Len(new) = Len(cs) /\ DOMAIN new = DOMAIN cs
      /\ new[c] = row /\ \A d \in DOMAIN cs \ {c} : new[d] = cs[d]
  BY <1>2, <1>3
<1> QED
  BY <1>2, <1>4, <1>5 DEF KeptCharges

LEMMA CreditRowIsPaid ==
    ASSUME NEW row \in CreditRows, NEW sum \in Nat
    PROVE  /\ Grant(row, sum) \in CreditRows
           /\ Grant(row, sum).kind = row.kind /\ Grant(row, sum).source = row.source
           /\ Grant(row, sum).amount = row.amount
           /\ Grant(row, sum).allocated = row.allocated + sum
BY DEF Grant, CreditRows

LEMMA CreditIsPaid ==
    ASSUME NEW ks \in Seq(CreditRows), NEW k \in DOMAIN ks, NEW sum \in Nat,
           NEW new, new = [ks EXCEPT ![k] = Grant(@, sum)]
    PROVE  /\ new \in Seq(CreditRows) /\ DOMAIN new = DOMAIN ks /\ KeptCredits(ks, new)
           /\ new[k].allocated = ks[k].allocated + sum
           /\ \A d \in DOMAIN ks \ {k} : new[d] = ks[d]
<1> DEFINE row == Grant(ks[k], sum)
<1>1. ks[k] \in CreditRows /\ \A d \in DOMAIN ks : ks[d] \in CreditRows
  BY SeqFacts
<1>2. /\ row \in CreditRows
      /\ row.kind = ks[k].kind /\ row.source = ks[k].source /\ row.amount = ks[k].amount
      /\ row.allocated = ks[k].allocated + sum
  BY <1>1, CreditRowIsPaid
<1>5. \A d \in DOMAIN ks : ks[d].allocated \in Nat
  BY <1>1 DEF CreditRows
<1>3. new = [ks EXCEPT ![k] = row]
  OBVIOUS
<1> HIDE DEF row
<1>4. /\ new \in Seq(CreditRows) /\ Len(new) = Len(ks) /\ DOMAIN new = DOMAIN ks
      /\ new[k] = row /\ \A d \in DOMAIN ks \ {k} : new[d] = ks[d]
  BY <1>2, <1>3
<1> QED
  BY <1>2, <1>4, <1>5 DEF KeptCredits

\* What any number of turns keeps: nothing is taken back, and no money comes or goes.
Follows(old, new) ==
    /\ KeptCharges(old.charges, new.charges) /\ KeptCredits(old.credits, new.credits)
    /\ SumRemaining(new.charges) - SumRemaining(new.credits) = SumRemaining(old.charges) - SumRemaining(old.credits)
    /\ Len(old.lines) <= Len(new.lines) /\ \A i \in DOMAIN old.lines : new.lines[i] = old.lines[i]

LEMMA FollowsFollows ==
    ASSUME NEW a \in Books, NEW b \in Books, NEW d \in Books, Follows(a, b), Follows(b, d)
    PROVE  Follows(a, d)
<1>1. KeptCharges(a.charges, d.charges)
  <2>1. \A c \in DOMAIN a.charges : /\ c \in DOMAIN b.charges /\ c \in DOMAIN d.charges
                                    /\ a.charges[c] \in ChargeRows /\ b.charges[c] \in ChargeRows
                                    /\ d.charges[c] \in ChargeRows
    BY BooksFacts DEF Follows, KeptCharges
  <2>2. \A c \in DOMAIN a.charges : /\ a.charges[c].allocated \in Nat /\ b.charges[c].allocated \in Nat
                                    /\ d.charges[c].allocated \in Nat
    BY <2>1 DEF ChargeRows
  <2> QED
    BY <2>1, <2>2 DEF Follows, KeptCharges
<1>2. KeptCredits(a.credits, d.credits)
  <2>1. \A k \in DOMAIN a.credits : /\ k \in DOMAIN b.credits /\ k \in DOMAIN d.credits
                                    /\ a.credits[k] \in CreditRows /\ b.credits[k] \in CreditRows
                                    /\ d.credits[k] \in CreditRows
    BY BooksFacts DEF Follows, KeptCredits
  <2>2. \A k \in DOMAIN a.credits : /\ a.credits[k].allocated \in Nat /\ b.credits[k].allocated \in Nat
                                    /\ d.credits[k].allocated \in Nat
    BY <2>1 DEF CreditRows
  <2> QED
    BY <2>1, <2>2 DEF Follows, KeptCredits
<1>3. Len(a.lines) <= Len(d.lines) /\ \A i \in DOMAIN a.lines : d.lines[i] = a.lines[i]
  BY BooksFacts DEF Follows
<1> QED
  BY <1>1, <1>2, <1>3 DEF Follows

TurnTaken(b, c, k, sum, new) ==
    /\ new \in Books
    /\ DOMAIN new.charges = DOMAIN b.charges /\ DOMAIN new.credits = DOMAIN b.credits
    /\ KeptCharges(b.charges, new.charges) /\ KeptCredits(b.credits, new.credits)
    /\ new.charges[c].allocated = b.charges[c].allocated + sum
    /\ \A d \in DOMAIN b.charges \ {c} : new.charges[d] = b.charges[d]
    /\ new.credits[k].allocated = b.credits[k].allocated + sum
    /\ \A d \in DOMAIN b.credits \ {k} : new.credits[d] = b.credits[d]
    /\ Len(new.lines) = Len(b.lines) + 1 /\ \A i \in DOMAIN b.lines : new.lines[i] = b.lines[i]
    /\ new.lines[Len(new.lines)] = [charge |-> c, credit |-> k, amount |-> sum]

\* The books before and after a turn.
LEMMA TurnFacts ==
    ASSUME NEW b, Sound(b), NEW c, NEW k, NEW sum, Turn(b, c, k, sum),
           NEW new, new = Paying(b, c, k, sum)
    PROVE  TurnTaken(b, c, k, sum, new)
<1>1. /\ b.charges \in Seq(ChargeRows) /\ b.credits \in Seq(CreditRows) /\ b.lines \in Seq(LineRows)
      /\ c \in DOMAIN b.charges /\ k \in DOMAIN b.credits /\ sum \in Nat /\ c \in Nat /\ k \in Nat
  BY BooksFacts DEF Sound, Turn
<1>0. /\ new.charges = [b.charges EXCEPT ![c] = Grant(@, sum)]
      /\ new.credits = [b.credits EXCEPT ![k] = Grant(@, sum)]
      /\ new.lines = Append(b.lines, [charge |-> c, credit |-> k, amount |-> sum])
      /\ new = [charges |-> new.charges, credits |-> new.credits, lines |-> new.lines]
  BY DEF Paying
<1>2. /\ new.charges \in Seq(ChargeRows) /\ DOMAIN new.charges = DOMAIN b.charges
      /\ KeptCharges(b.charges, new.charges)
      /\ new.charges[c].allocated = b.charges[c].allocated + sum
      /\ \A d \in DOMAIN b.charges \ {c} : new.charges[d] = b.charges[d]
  BY <1>0, <1>1, ChargeIsPaid
<1>3. /\ new.credits \in Seq(CreditRows) /\ DOMAIN new.credits = DOMAIN b.credits
      /\ KeptCredits(b.credits, new.credits)
      /\ new.credits[k].allocated = b.credits[k].allocated + sum
      /\ \A d \in DOMAIN b.credits \ {k} : new.credits[d] = b.credits[d]
  BY <1>0, <1>1, CreditIsPaid
<1> DEFINE line == [charge |-> c, credit |-> k, amount |-> sum]
<1>4. line \in LineRows
  BY <1>1 DEF LineRows
<1>5. new.lines = Append(b.lines, line)
  BY <1>0
<1>6. /\ new.lines \in Seq(LineRows) /\ Len(new.lines) = Len(b.lines) + 1
      /\ new.lines[Len(new.lines)] = line /\ \A i \in DOMAIN b.lines : new.lines[i] = b.lines[i]
  <2> HIDE DEF line
  <2> QED BY <1>1, <1>4, <1>5
<1>7. new \in Books
  BY <1>0, <1>2, <1>3, <1>6 DEF Books
<1> QED
  BY <1>2, <1>3, <1>6, <1>7 DEF TurnTaken

LEMMA TurnKeepsSound ==
    ASSUME NEW b, Sound(b), NEW c, NEW k, NEW sum, Turn(b, c, k, sum), NEW new, new = Paying(b, c, k, sum)
    PROVE  Sound(new)
<1>0. TurnTaken(b, c, k, sum, new)
  BY TurnFacts
<1>1. c \in DOMAIN b.charges /\ k \in DOMAIN b.credits /\ sum \in Nat
  BY DEF Turn
<1>2. MoneyRows(b.charges) /\ MoneyRows(b.credits) /\ LinesOK(b.lines)
  BY SoundRows
<1>3. LinesOK(new.lines)
  BY <1>0, BooksFacts DEF TurnTaken, LinesOK, LineRows
<1>4. \A x : OfCharge(new.lines, x) = OfCharge(b.lines, x) + IF c = x THEN sum ELSE 0
  BY <1>2, <1>3, <1>0, OfChargeGrows DEF TurnTaken
<1>5. \A x : OfCredit(new.lines, x) = OfCredit(b.lines, x) + IF k = x THEN sum ELSE 0
  BY <1>2, <1>3, <1>0, OfCreditGrows DEF TurnTaken
<1>6. ASSUME NEW x \in DOMAIN new.charges
      PROVE  /\ new.charges[x].allocated <= new.charges[x].amount
             /\ new.charges[x].allocated = OfCharge(new.lines, x)
  <2>1. x \in DOMAIN b.charges /\ new.charges[x].amount = b.charges[x].amount
    BY <1>0 DEF TurnTaken, KeptCharges
  <2>2. /\ b.charges[x].allocated = OfCharge(b.lines, x) /\ b.charges[x].allocated \in Nat
        /\ b.charges[x].amount \in Nat /\ b.charges[x].allocated <= b.charges[x].amount
    BY <1>2, <2>1 DEF Sound, MoneyRows
  <2>3. CASE x = c
    <3>1. new.charges[x].allocated = b.charges[x].allocated + sum
      BY <2>3, <1>0 DEF TurnTaken
    <3>2. sum <= b.charges[x].amount - b.charges[x].allocated
      BY <2>3 DEF Turn, Remaining
    <3>3. OfCharge(new.lines, x) = OfCharge(b.lines, x) + sum
      BY <1>4, <2>3
    <3> QED
      BY <1>1, <2>1, <2>2, <3>1, <3>2, <3>3
  <2>4. CASE x # c
    <3>1. new.charges[x].allocated = b.charges[x].allocated
      BY <2>1, <2>4, <1>0 DEF TurnTaken
    <3>2. OfCharge(new.lines, x) = OfCharge(b.lines, x) + 0
      BY <1>4, <2>4
    <3> QED
      BY <2>1, <2>2, <3>1, <3>2
  <2> QED
    BY <2>3, <2>4
<1>7. ASSUME NEW x \in DOMAIN new.credits
      PROVE  /\ new.credits[x].allocated <= new.credits[x].amount
             /\ new.credits[x].allocated = OfCredit(new.lines, x)
  <2>1. x \in DOMAIN b.credits /\ new.credits[x].amount = b.credits[x].amount
    BY <1>0 DEF TurnTaken, KeptCredits
  <2>2. /\ b.credits[x].allocated = OfCredit(b.lines, x) /\ b.credits[x].allocated \in Nat
        /\ b.credits[x].amount \in Nat /\ b.credits[x].allocated <= b.credits[x].amount
    BY <1>2, <2>1 DEF Sound, MoneyRows
  <2>3. CASE x = k
    <3>1. new.credits[x].allocated = b.credits[x].allocated + sum
      BY <2>3, <1>0 DEF TurnTaken
    <3>2. sum <= b.credits[x].amount - b.credits[x].allocated
      BY <2>3 DEF Turn, Remaining
    <3>3. OfCredit(new.lines, x) = OfCredit(b.lines, x) + sum
      BY <1>5, <2>3
    <3> QED
      BY <1>1, <2>1, <2>2, <3>1, <3>2, <3>3
  <2>4. CASE x # k
    <3>1. new.credits[x].allocated = b.credits[x].allocated
      BY <2>1, <2>4, <1>0 DEF TurnTaken
    <3>2. OfCredit(new.lines, x) = OfCredit(b.lines, x) + 0
      BY <1>5, <2>4
    <3> QED
      BY <2>1, <2>2, <3>1, <3>2
  <2> QED
    BY <2>3, <2>4
<1>8. ASSUME NEW i \in DOMAIN new.lines
      PROVE  new.lines[i].charge \in DOMAIN new.charges /\ new.lines[i].credit \in DOMAIN new.credits
  <2>1. /\ i \in DOMAIN b.lines \/ i = Len(new.lines)
        /\ DOMAIN new.charges = DOMAIN b.charges /\ DOMAIN new.credits = DOMAIN b.credits
    BY <1>2, <1>3, <1>0 DEF TurnTaken, LinesOK
  <2>2. CASE i \in DOMAIN b.lines
    BY <2>1, <2>2, <1>0 DEF TurnTaken, Sound
  <2>3. CASE i = Len(new.lines)
    BY <1>1, <2>1, <2>3, <1>0 DEF TurnTaken
  <2> QED
    BY <2>1, <2>2, <2>3
<1> QED
  BY <1>6, <1>7, <1>8, <1>0 DEF TurnTaken, Sound

LEMMA TurnFollows ==
    ASSUME NEW b, Sound(b), NEW c, NEW k, NEW sum, Turn(b, c, k, sum), NEW new, new = Paying(b, c, k, sum)
    PROVE  Follows(b, new)
<1>0. TurnTaken(b, c, k, sum, new)
  BY TurnFacts
<1>1. MoneyRows(b.charges) /\ MoneyRows(b.credits) /\ MoneyRows(new.charges) /\ MoneyRows(new.credits)
  BY TurnKeepsSound, SoundRows
<1>2. c \in DOMAIN b.charges /\ k \in DOMAIN b.credits /\ sum \in Nat
  BY DEF Turn
<1>3. /\ Remaining(new.charges[c]) = Remaining(b.charges[c]) - sum
      /\ \A d \in DOMAIN b.charges \ {c} : Remaining(new.charges[d]) = Remaining(b.charges[d])
  <2>1. /\ new.charges[c].amount = b.charges[c].amount /\ new.charges[c].allocated = b.charges[c].allocated + sum
        /\ \A d \in DOMAIN b.charges \ {c} : new.charges[d] = b.charges[d]
    BY <1>0, <1>2 DEF TurnTaken, KeptCharges
  <2>2. b.charges[c].amount \in Nat /\ b.charges[c].allocated \in Nat
    BY <1>1, <1>2 DEF MoneyRows
  <2> QED
    BY <1>2, <2>1, <2>2 DEF Remaining
<1>4. /\ Remaining(new.credits[k]) = Remaining(b.credits[k]) - sum
      /\ \A d \in DOMAIN b.credits \ {k} : Remaining(new.credits[d]) = Remaining(b.credits[d])
  <2>1. /\ new.credits[k].amount = b.credits[k].amount /\ new.credits[k].allocated = b.credits[k].allocated + sum
        /\ \A d \in DOMAIN b.credits \ {k} : new.credits[d] = b.credits[d]
    BY <1>0, <1>2 DEF TurnTaken, KeptCredits
  <2>2. b.credits[k].amount \in Nat /\ b.credits[k].allocated \in Nat
    BY <1>1, <1>2 DEF MoneyRows
  <2> QED
    BY <1>2, <2>1, <2>2 DEF Remaining
<1>5. SumRemaining(new.charges) = SumRemaining(b.charges) - Remaining(b.charges[c]) + Remaining(new.charges[c])
  BY <1>1, <1>2, <1>3, <1>0, SumRemainingPaid DEF TurnTaken
<1>6. SumRemaining(new.credits) = SumRemaining(b.credits) - Remaining(b.credits[k]) + Remaining(new.credits[k])
  BY <1>1, <1>2, <1>4, <1>0, SumRemainingPaid DEF TurnTaken
<1>7. /\ SumRemaining(b.charges) \in Nat /\ SumRemaining(b.credits) \in Nat
      /\ Remaining(b.charges[c]) \in Nat /\ Remaining(b.credits[k]) \in Nat
  BY <1>1, <1>2, SumRemainingType
<1>8. SumRemaining(new.charges) - SumRemaining(new.credits) = SumRemaining(b.charges) - SumRemaining(b.credits)
  BY <1>2, <1>3, <1>4, <1>5, <1>6, <1>7
<1>9. Len(b.lines) <= Len(new.lines)
  BY SoundRows, <1>0 DEF TurnTaken, LinesOK
<1> QED
  BY <1>8, <1>9, <1>0 DEF TurnTaken, Follows

\* What is settled stays settled, and every turn settles a row more.
OpenRows(b) == Cardinality(Unsettled(b.charges)) + Cardinality(Unsettled(b.credits))

LEMMA UpTo ==
    ASSUME NEW n \in Nat
    PROVE  IsFiniteSet(1..n) /\ Cardinality(1..n) = n
<1>1. IsFiniteSet(1..n) /\ Cardinality(1..n) = IF 1 > n THEN 0 ELSE n - 1 + 1
  BY FS_Interval
<1> QED
  BY <1>1

LEMMA OpenRowsType ==
    ASSUME NEW b, Sound(b)
    PROVE  /\ IsFiniteSet(Unsettled(b.charges)) /\ IsFiniteSet(Unsettled(b.credits))
           /\ Cardinality(Unsettled(b.charges)) \in Nat /\ Cardinality(Unsettled(b.credits)) \in Nat
           /\ OpenRows(b) \in Nat /\ OpenRows(b) <= Len(b.charges) + Len(b.credits)
           /\ Owing(b) => OpenRows(b) >= 2
<1>1. /\ DOMAIN b.charges = 1..Len(b.charges) /\ Len(b.charges) \in Nat
      /\ DOMAIN b.credits = 1..Len(b.credits) /\ Len(b.credits) \in Nat
  BY BooksFacts DEF Sound
<1>2. /\ IsFiniteSet(1..Len(b.charges)) /\ Cardinality(1..Len(b.charges)) = Len(b.charges)
      /\ IsFiniteSet(1..Len(b.credits)) /\ Cardinality(1..Len(b.credits)) = Len(b.credits)
  BY <1>1, UpTo
<1>3. Unsettled(b.charges) \in SUBSET (1..Len(b.charges)) /\ Unsettled(b.credits) \in SUBSET (1..Len(b.credits))
  BY <1>1 DEF Unsettled
<1>4. /\ IsFiniteSet(Unsettled(b.charges)) /\ IsFiniteSet(Unsettled(b.credits))
      /\ Cardinality(Unsettled(b.charges)) <= Len(b.charges)
      /\ Cardinality(Unsettled(b.credits)) <= Len(b.credits)
  BY <1>2, <1>3, FS_Subset
<1>5. Cardinality(Unsettled(b.charges)) \in Nat /\ Cardinality(Unsettled(b.credits)) \in Nat
  BY <1>4, FS_CardinalityType
<1>6. /\ Cardinality(Unsettled(b.charges)) = 0 => Unsettled(b.charges) = {}
      /\ Cardinality(Unsettled(b.credits)) = 0 => Unsettled(b.credits) = {}
  BY <1>4, FS_EmptySet
<1>7. Owing(b) => /\ Cardinality(Unsettled(b.charges)) # 0
                  /\ Cardinality(Unsettled(b.credits)) # 0
  BY <1>6 DEF Owing
<1> DEFINE m == Cardinality(Unsettled(b.charges))
           n == Cardinality(Unsettled(b.credits))
<1>8. OpenRows(b) = m + n
  BY DEF OpenRows
<1> HIDE DEF m, n
<1>9. m \in Nat /\ n \in Nat /\ m <= Len(b.charges) /\ n <= Len(b.credits) /\ (Owing(b) => m # 0 /\ n # 0)
  BY <1>4, <1>5, <1>7 DEF m, n
<1>10. OpenRows(b) <= Len(b.charges) + Len(b.credits) /\ (Owing(b) => OpenRows(b) >= 2)
  <2>1. Len(b.charges) \in Nat /\ Len(b.credits) \in Nat
    BY <1>1
  <2>2. m + n <= Len(b.charges) + Len(b.credits)
    <3>1. \A p, q \in Nat : m <= p /\ n <= q => m + n <= p + q
      BY <1>9
    <3> QED
      BY <1>9, <2>1, <3>1
  <2>3. Owing(b) => m + n >= 2
    <3> SUFFICES ASSUME Owing(b) PROVE m + n >= 2
      OBVIOUS
    <3> QED
      BY <1>9
  <2> QED
    BY <1>8, <2>2, <2>3
<1> QED
  <2>1. OpenRows(b) \in Nat
    BY <1>8, <1>9
  <2> QED
    BY <1>4, <1>5, <1>10, <2>1 DEF m, n

LEMMA FewerThan ==
    ASSUME NEW S, IsFiniteSet(S), NEW T \in SUBSET S, NEW x \in S, x \notin T
    PROVE  Cardinality(T) <= Cardinality(S) - 1
<1>1. IsFiniteSet(S \ {x}) /\ Cardinality(S \ {x}) = Cardinality(S) - 1 /\ T \in SUBSET (S \ {x})
  BY FS_RemoveElement
<1> QED
  BY <1>1, FS_Subset

LEMMA TurnSettles ==
    ASSUME NEW b, Sound(b), NEW c, NEW k, NEW sum, Turn(b, c, k, sum), NEW new, new = Paying(b, c, k, sum)
    PROVE  /\ Unsettled(new.charges) \subseteq Unsettled(b.charges)
           /\ Unsettled(new.credits) \subseteq Unsettled(b.credits)
           /\ OpenRows(new) + 1 <= OpenRows(b)
<1>0. TurnTaken(b, c, k, sum, new) /\ Sound(new)
  BY TurnFacts, TurnKeepsSound
<1>1. MoneyRows(b.charges) /\ MoneyRows(b.credits) /\ MoneyRows(new.charges) /\ MoneyRows(new.credits)
  BY <1>0, SoundRows
<1>2. Unsettled(new.charges) \subseteq Unsettled(b.charges)
  BY <1>0, <1>1 DEF TurnTaken, Unsettled, MoneyRows, Turn
<1>3. Unsettled(new.credits) \subseteq Unsettled(b.credits)
  BY <1>0, <1>1 DEF TurnTaken, Unsettled, MoneyRows, Turn
<1>4. c \in DOMAIN b.charges /\ c \in Unsettled(b.charges) /\ k \in DOMAIN b.credits /\ k \in Unsettled(b.credits)
  BY DEF Turn
<1>5. c \notin Unsettled(new.charges) \/ k \notin Unsettled(new.credits)
  <2>1. /\ new.charges[c].amount = b.charges[c].amount /\ new.charges[c].allocated = b.charges[c].allocated + sum
        /\ new.credits[k].amount = b.credits[k].amount /\ new.credits[k].allocated = b.credits[k].allocated + sum
    BY <1>0, <1>4 DEF TurnTaken, KeptCharges, KeptCredits
  <2>2. /\ b.charges[c].amount \in Nat /\ b.charges[c].allocated \in Nat
        /\ b.credits[k].amount \in Nat /\ b.credits[k].allocated \in Nat
    BY <1>1, <1>4 DEF MoneyRows
  <2>3. sum = b.charges[c].amount - b.charges[c].allocated \/ sum = b.credits[k].amount - b.credits[k].allocated
    BY DEF Turn, Remaining
  <2> QED
    BY <2>1, <2>2, <2>3 DEF Unsettled
<1>6. OpenRows(new) + 1 <= OpenRows(b)
  <2>1. /\ IsFiniteSet(Unsettled(b.charges)) /\ IsFiniteSet(Unsettled(b.credits))
        /\ Cardinality(Unsettled(b.charges)) \in Nat /\ Cardinality(Unsettled(b.credits)) \in Nat
        /\ Cardinality(Unsettled(new.charges)) \in Nat /\ Cardinality(Unsettled(new.credits)) \in Nat
    BY <1>0, OpenRowsType
  <2>2. /\ Cardinality(Unsettled(new.charges)) <= Cardinality(Unsettled(b.charges))
        /\ Cardinality(Unsettled(new.credits)) <= Cardinality(Unsettled(b.credits))
    BY <1>2, <1>3, <2>1, FS_Subset
  <2>3. CASE c \notin Unsettled(new.charges)
    <3>1. Cardinality(Unsettled(new.charges)) <= Cardinality(Unsettled(b.charges)) - 1
      BY <1>2, <1>4, <2>1, <2>3, FewerThan
    <3> QED
      BY <2>1, <2>2, <3>1 DEF OpenRows
  <2>4. CASE k \notin Unsettled(new.credits)
    <3>1. Cardinality(Unsettled(new.credits)) <= Cardinality(Unsettled(b.credits)) - 1
      BY <1>3, <1>4, <2>1, <2>4, FewerThan
    <3> QED
      BY <2>1, <2>2, <3>1 DEF OpenRows
  <2> QED
    BY <1>5, <2>3, <2>4
<1> QED
  BY <1>2, <1>3, <1>6

\* The lines after the first n took what they took in turn.
InTurn(b, n) ==
    \A i \in DOMAIN b.lines : i > n =>
        /\ \A c \in Unsettled(b.charges) : ~Before(b.charges, c, b.lines[i].charge)
        /\ \A k \in Unsettled(b.credits) : ~(k < b.lines[i].credit)

LEMMA TurnIsInTurn ==
    ASSUME NEW b, Sound(b), NEW c, NEW k, NEW sum, Turn(b, c, k, sum), NEW new, new = Paying(b, c, k, sum),
           NEW n \in Nat, InTurn(b, n)
    PROVE  InTurn(new, n)
<1>0. TurnTaken(b, c, k, sum, new) /\ Sound(new)
  BY TurnFacts, TurnKeepsSound
<1>1. /\ Unsettled(new.charges) \subseteq Unsettled(b.charges)
      /\ Unsettled(new.credits) \subseteq Unsettled(b.credits)
  BY TurnSettles
<1>2. /\ Unsettled(b.charges) \subseteq DOMAIN b.charges
      /\ \A d \in DOMAIN b.charges : new.charges[d].due = b.charges[d].due
  BY <1>0 DEF Unsettled, TurnTaken, KeptCharges
<1>3. /\ b.charges \in Seq(ChargeRows) /\ LinesOK(b.lines) /\ LinesOK(new.lines)
      /\ Unsettled(b.credits) \subseteq Nat
  BY <1>0, BooksFacts, SoundRows DEF Sound, Unsettled
<1>4. ASSUME NEW i \in DOMAIN new.lines, i > n
      PROVE  /\ \A d \in Unsettled(new.charges) : ~Before(new.charges, d, new.lines[i].charge)
             /\ \A x \in Unsettled(new.credits) : ~(x < new.lines[i].credit)
  <2>1. CASE i \in DOMAIN b.lines
    <3>1. /\ new.lines[i] = b.lines[i] /\ b.lines[i].charge \in DOMAIN b.charges
          /\ \A d \in Unsettled(b.charges) : ~Before(b.charges, d, b.lines[i].charge)
          /\ \A x \in Unsettled(b.credits) : ~(x < b.lines[i].credit)
      BY <1>0, <1>4, <2>1 DEF TurnTaken, InTurn, Sound
    <3> QED
      BY <1>1, <1>2, <3>1 DEF Before
  <2>2. CASE i = Len(new.lines)
    <3>1. new.lines[i].charge = c /\ new.lines[i].credit = k /\ c \in DOMAIN b.charges
      BY <1>0, <2>2 DEF TurnTaken, Turn
    <3>2. \A d \in Unsettled(b.charges) : ~Before(b.charges, d, c)
      <4> SUFFICES ASSUME NEW d \in Unsettled(b.charges) PROVE ~Before(b.charges, d, c)
        OBVIOUS
      <4>1. CASE d = c
        <5>1. c \in Nat /\ b.charges[c].due \in Nat
          <6>1. c \in Nat /\ b.charges[c] \in ChargeRows
            BY <1>3, <3>1, SeqFacts
          <6> QED
            BY <6>1 DEF ChargeRows
        <5> QED
          BY <4>1, <5>1 DEF Before
      <4>2. CASE d # c
        <5>1. Before(b.charges, c, d)
          BY <4>2 DEF Turn
        <5> QED
          BY <1>2, <1>3, <3>1, <5>1, BeforeIsOneWay
      <4> QED
        BY <4>1, <4>2
    <3>3. \A x \in Unsettled(b.credits) : ~(x < k)
      BY <1>3 DEF Turn
    <3> QED
      BY <1>1, <1>2, <3>1, <3>2, <3>3 DEF Before
  <2> QED
    BY <1>0, <1>3, <2>1, <2>2 DEF TurnTaken, LinesOK
<1> QED
  BY <1>4 DEF InTurn

(***************************************************************************)
(* All turns of an allocation.                                             *)
(***************************************************************************)
LEMMA FollowsItself ==
    ASSUME NEW b, Sound(b)
    PROVE  Follows(b, b)
<1>1. MoneyRows(b.charges) /\ MoneyRows(b.credits) /\ LinesOK(b.lines)
  BY SoundRows
<1> QED
  BY <1>1 DEF Follows, KeptCharges, KeptCredits, MoneyRows, LinesOK

Reached(start, b, n) ==
    /\ Sound(b) /\ Follows(start, b) /\ InTurn(b, Len(start.lines))
    /\ Owing(b) => OpenRows(b) + n <= OpenRows(start)

LEMMA StartIsReached ==
    ASSUME NEW start, Sound(start)
    PROVE  Reached(start, start, 0)
<1>1. InTurn(start, Len(start.lines))
  BY SoundRows DEF InTurn, LinesOK
<1>2. OpenRows(start) \in Nat
  BY OpenRowsType
<1> QED
  BY <1>1, <1>2, FollowsItself DEF Reached

LEMMA NextIsReached ==
    ASSUME NEW start, Sound(start), NEW b, NEW n \in Nat, Reached(start, b, n)
    PROVE  Reached(start, Pay(b), n + 1)
<1>1. CASE ~Owing(b)
  <2>1. Pay(b) = b
    BY <1>1 DEF Pay, Owing
  <2> QED
    BY <1>1, <2>1 DEF Reached
<1>2. CASE Owing(b)
  <2>1. Sound(b) /\ Follows(start, b) /\ InTurn(b, Len(start.lines)) /\ OpenRows(b) + n <= OpenRows(start)
    BY <1>2 DEF Reached
  <2>2. PICK c, k, sum : Turn(b, c, k, sum) /\ Pay(b) = Paying(b, c, k, sum)
    BY <1>2, <2>1, PayTakesTurn
  <2> DEFINE new == Pay(b)
  <2> HIDE DEF new
  <2>3. new = Paying(b, c, k, sum)
    BY <2>2 DEF new
  <2>4. Sound(new) /\ Follows(b, new)
    BY <2>1, <2>2, <2>3, TurnKeepsSound, TurnFollows
  <2>5. Follows(start, new)
    BY <2>1, <2>4, FollowsFollows DEF Sound
  <2>6. InTurn(new, Len(start.lines))
    <3>1. Len(start.lines) \in Nat
      BY SoundRows DEF LinesOK
    <3> QED
      BY <2>1, <2>2, <2>3, <3>1, TurnIsInTurn
  <2>7. OpenRows(new) + 1 <= OpenRows(b)
    BY <2>1, <2>2, <2>3, TurnSettles
  <2>8. OpenRows(new) + (n + 1) <= OpenRows(start)
    <3>1. OpenRows(new) \in Nat /\ OpenRows(b) \in Nat /\ OpenRows(start) \in Nat
      BY <2>1, <2>4, OpenRowsType
    <3> QED
      BY <2>1, <2>7, <3>1
  <2>9. Reached(start, new, n + 1)
    BY <2>4, <2>5, <2>6, <2>8 DEF Reached
  <2> QED
    BY <2>9 DEF new
<1> QED
  BY <1>1, <1>2

IsTurns(b, last, after) == after = [n \in 0..last |-> IF n = 0 THEN b ELSE Pay(after[n - 1])]

LEMMA TurnsExist ==
    ASSUME NEW b, NEW last \in Nat
    PROVE  \E after : IsTurns(b, last, after)
<1> DEFINE N == {m \in Nat : \E after : IsTurns(b, m, after)}
<1>1. 0 \in N
  <2> DEFINE g == [n \in 0..0 |-> b]
  <2>1. g = [n \in 0..0 |-> IF n = 0 THEN b ELSE Pay(g[n - 1])]
    <3>1. \A n \in 0..0 : n = 0
      OBVIOUS
    <3> QED
      BY <3>1
  <2> QED
    BY <2>1 DEF IsTurns
<1>2. ASSUME NEW m \in Nat, m \in N PROVE m + 1 \in N
  <2>1. PICK g : g = [n \in 0..m |-> IF n = 0 THEN b ELSE Pay(g[n - 1])]
    BY <1>2 DEF IsTurns
  <2> DEFINE h == [n \in 0..(m + 1) |-> IF n = 0 THEN b ELSE Pay(g[n - 1])]
  <2>2. \A n \in 0..m : h[n] = g[n]
    BY <2>1
  <2>3. \A n \in 0..(m + 1) : n # 0 => n - 1 \in 0..m
    OBVIOUS
  <2>4. h = [n \in 0..(m + 1) |-> IF n = 0 THEN b ELSE Pay(h[n - 1])]
    BY <2>2, <2>3
  <2> HIDE DEF h
  <2> QED
    BY <2>4 DEF IsTurns
<1>3. Nat \subseteq N
  <2> HIDE DEF N
  <2> QED BY <1>1, <1>2, NatSteps
<1> QED
  BY <1>3

LEMMA TurnsUnfold ==
    ASSUME NEW b, NEW last \in Nat
    PROVE  /\ Turns(b, last)[0] = b
           /\ \A n \in 0..last : n + 1 \in 0..last => Turns(b, last)[n + 1] = Pay(Turns(b, last)[n])
<1> DEFINE T == CHOOSE after : IsTurns(b, last, after)
<1>1. IsTurns(b, last, T)
  BY TurnsExist
<1>2. T = Turns(b, last)
  BY DEF Turns, IsTurns
<1> HIDE DEF T
<1>3. T = [n \in 0..last |-> IF n = 0 THEN b ELSE Pay(T[n - 1])]
  BY <1>1 DEF IsTurns
<1>4. T[0] = b
  BY <1>3
<1>5. \A n \in 0..last : n + 1 \in 0..last => T[n + 1] = Pay(T[n])
  BY <1>3
<1> QED
  BY <1>2, <1>4, <1>5

\* The allocation ends with one side settled, whatever is left of the other.
LEMMA AllocationEnds ==
    ASSUME NEW cs, NEW ks, NEW start, start = [charges |-> cs, credits |-> ks, lines |-> allocations], Sound(start),
           NEW plan, plan = AllocateFifo(cs, ks)
    PROVE  Sound(plan) /\ Follows(start, plan) /\ InTurn(plan, Len(start.lines)) /\ ~Owing(plan)
<1> DEFINE last == Len(cs) + Len(ks)
           T == Turns(start, last)
           N == {n \in Nat : n \in 0..last => Reached(start, T[n], n)}
<1>1. start.charges = cs /\ start.credits = ks /\ last \in Nat
  BY BooksFacts DEF Sound
<1>2. plan = T[last]
  BY DEF AllocateFifo
<1> HIDE DEF last
<1>3. T[0] = start /\ \A n \in 0..last : n + 1 \in 0..last => T[n + 1] = Pay(T[n])
  BY <1>1, TurnsUnfold
<1> HIDE DEF T
<1>4. 0 \in N
  BY <1>3, StartIsReached
<1>5. ASSUME NEW n \in Nat, n \in N PROVE n + 1 \in N
  <2> SUFFICES ASSUME n + 1 \in 0..last PROVE Reached(start, T[n + 1], n + 1)
    OBVIOUS
  <2>1. n \in 0..last /\ Reached(start, T[n], n) /\ T[n + 1] = Pay(T[n])
    BY <1>1, <1>3, <1>5
  <2> QED
    BY <2>1, NextIsReached
<1>6. Reached(start, plan, last)
  <2>1. Nat \subseteq N
    <3> HIDE DEF N
    <3> QED BY <1>4, <1>5, NatSteps
  <2> QED
    BY <1>1, <1>2, <2>1
<1>7. ~Owing(plan)
  <2> SUFFICES ASSUME Owing(plan) PROVE FALSE
    OBVIOUS
  <2>1. Sound(plan) /\ OpenRows(plan) + last <= OpenRows(start)
    BY <1>6 DEF Reached
  <2>2. OpenRows(start) <= last
    BY <1>1, OpenRowsType DEF last
  <2>3. OpenRows(plan) >= 2 /\ OpenRows(plan) \in Nat /\ OpenRows(start) \in Nat
    BY <2>1, OpenRowsType
  <2> QED
    BY <1>1, <2>1, <2>2, <2>3
<1> QED
  BY <1>6, <1>7 DEF Reached
-----------------------------------------------------------------------------
(***************************************************************************)
(* One entry of the ledger.                                                *)
(***************************************************************************)
Types == Debits \cup {"PAYMENT", "ADJUSTMENT_CREDIT", "CREDIT_NOTE"}
Sources == Orders \cup Payments \cup Adjustments \cup Returns
EntryRows == [type : Types, source : Sources, amount : Nat \ {0}, after : Int]
SignedSum(entries) == SumFunction([i \in DOMAIN entries |-> Signed(entries[i].type, entries[i].amount)])

LEMMA SignedSumGrows ==
    ASSUME NEW old \in Seq(EntryRows), NEW new \in Seq(EntryRows), Len(new) = Len(old) + 1,
           \A i \in DOMAIN old : new[i] = old[i]
    PROVE  SignedSum(new) = SignedSum(old) + Signed(new[Len(new)].type, new[Len(new)].amount)
<1> DEFINE n == Len(old)
           f == [i \in DOMAIN old |-> Signed(old[i].type, old[i].amount)]
           g == [i \in DOMAIN new |-> Signed(new[i].type, new[i].amount)]
<1>1. n \in Nat /\ DOMAIN f = 1..n /\ DOMAIN g = 1..(n + 1) /\ DOMAIN old = 1..n /\ DOMAIN new = 1..(n + 1)
  BY SeqFacts
<1>2. /\ \A i \in DOMAIN old : old[i].amount \in Int
      /\ \A i \in DOMAIN new : new[i].amount \in Int
  <2>1. \A row \in EntryRows : row.amount \in Int
    BY DEF EntryRows
  <2> QED
    BY <2>1, SeqFacts
<1>3. (\A i \in 1..n : f[i] \in Int /\ g[i] = f[i]) /\ g[n + 1] \in Int
  BY <1>1, <1>2 DEF Signed
<1>4. SumFunction(g) = SumFunction(f) + g[n + 1]
  <2> HIDE DEF f, g, n
  <2> QED BY <1>1, <1>3, SumGrows
<1> QED
  BY <1>1, <1>4 DEF SignedSum

\* Every entry adds up, and the last one shows the balance.
Running(entries, sum) ==
    /\ entries \in Seq(EntryRows) /\ sum \in Int
    /\ sum = SignedSum(entries)
    /\ \A i \in DOMAIN entries : entries[i].after =
            Signed(entries[i].type, entries[i].amount) + IF i = 1 THEN 0 ELSE entries[i - 1].after
    /\ sum = IF Len(entries) = 0 THEN 0 ELSE entries[Len(entries)].after

Entered(type, source) ==
    /\ Len(ledger') = Len(ledger) + 1
    /\ \A i \in DOMAIN ledger : i \in DOMAIN ledger' /\ ledger'[i] = ledger[i]
    /\ Len(ledger') \in DOMAIN ledger'
    /\ ledger'[Len(ledger')].type = type /\ ledger'[Len(ledger')].source = source

LEMMA LedgerIsRunning ==
    ASSUME Running(ledger, balance), NEW type \in Types, NEW source \in Sources, NEW amount \in Nat \ {0},
           PostLedger(type, source, amount)
    PROVE  Running(ledger', balance') /\ balance' = balance + Signed(type, amount) /\ Entered(type, source)
<1> DEFINE row == [type |-> type, source |-> source, amount |-> amount, after |-> balance']
           n == Len(ledger)
<1>1. ledger \in Seq(EntryRows) /\ balance \in Int /\ n \in Nat /\ DOMAIN ledger = 1..n
  BY SeqFacts DEF Running
<1>2. balance' = balance + Signed(type, amount) /\ balance' \in Int /\ ledger' = Append(ledger, row)
  BY <1>1 DEF PostLedger, Signed
<1>3. row \in EntryRows /\ row.type = type /\ row.source = source /\ row.amount = amount /\ row.after = balance'
  BY <1>2 DEF EntryRows
<1> HIDE DEF row
<1>4. /\ ledger' \in Seq(EntryRows) /\ Len(ledger') = n + 1 /\ DOMAIN ledger' = 1..(n + 1)
      /\ \A i \in 1..n : ledger'[i] = ledger[i]
      /\ ledger'[n + 1] = row
  BY <1>1, <1>2, <1>3
<1>5. SignedSum(ledger') = SignedSum(ledger) + Signed(type, amount)
  BY <1>1, <1>3, <1>4, SignedSumGrows
<1>6. ASSUME NEW i \in 1..(n + 1)
      PROVE  ledger'[i].after =
                Signed(ledger'[i].type, ledger'[i].amount) + IF i = 1 THEN 0 ELSE ledger'[i - 1].after
  <2>1. CASE i \in 1..n
    <3>1. ledger[i].after = Signed(ledger[i].type, ledger[i].amount) + IF i = 1 THEN 0 ELSE ledger[i - 1].after
      BY <1>1, <2>1 DEF Running
    <3>2. ledger'[i] = ledger[i] /\ (i # 1 => ledger'[i - 1] = ledger[i - 1])
      BY <1>1, <1>4, <2>1
    <3> QED
      BY <3>1, <3>2
  <2>2. CASE i = n + 1
    <3>1. ledger'[i].after = balance + Signed(type, amount)
      BY <1>2, <1>3, <1>4, <2>2
    <3>2. balance = IF i = 1 THEN 0 ELSE ledger'[i - 1].after
      BY <1>1, <1>4, <2>2 DEF Running
    <3>3. Signed(ledger'[i].type, ledger'[i].amount) = Signed(type, amount) /\ Signed(type, amount) \in Int
      BY <1>3, <1>4, <2>2 DEF Signed
    <3> QED
      BY <1>1, <3>1, <3>2, <3>3
  <2> QED
    BY <1>1, <2>1, <2>2
<1>7. Running(ledger', balance')
  <2>1. balance' = SignedSum(ledger')
    BY <1>2, <1>5 DEF Running
  <2>2. balance' = ledger'[Len(ledger')].after /\ Len(ledger') # 0
    BY <1>1, <1>3, <1>4
  <2> QED
    BY <1>2, <1>4, <1>6, <2>1, <2>2 DEF Running
<1>8. Entered(type, source)
  BY <1>1, <1>3, <1>4 DEF Entered
<1> QED
  BY <1>2, <1>7, <1>8
-----------------------------------------------------------------------------
(***************************************************************************)
(* One posting: a new charge or a new credit, and the allocation of it.    *)
(***************************************************************************)
Now == [charges |-> charges, credits |-> credits, lines |-> allocations]

WithCharge(start, charge) ==
    /\ Sound(start) /\ start.charges = Append(charges, charge) /\ start.credits = credits
    /\ start.lines = allocations
    /\ Len(start.charges) = Len(charges) + 1 /\ start.charges[Len(charges) + 1] = charge
    /\ \A c \in DOMAIN charges : c \in DOMAIN start.charges /\ start.charges[c] = charges[c]
    /\ SumRemaining(start.charges) = SumRemaining(charges) + charge.amount

(* The books with another sequence of charges, or of credits. *)
LEMMA NowWith ==
    ASSUME NEW x
    PROVE  /\ [Now EXCEPT !.charges = x] = [charges |-> x, credits |-> credits, lines |-> allocations]
           /\ [Now EXCEPT !.credits = x] = [charges |-> charges, credits |-> x, lines |-> allocations]
BY DEF Now

LEMMA ChargeStarts ==
    ASSUME Sound(Now), NEW charge \in ChargeRows, charge.allocated = 0,
           NEW start, start = [Now EXCEPT !.charges = Append(charges, charge)]
    PROVE  WithCharge(start, charge)
<1> DEFINE n == Len(charges)
<1>1. /\ charges \in Seq(ChargeRows) /\ credits \in Seq(CreditRows) /\ allocations \in Seq(LineRows)
      /\ n \in Nat /\ DOMAIN charges = 1..n
  BY SeqFacts DEF Sound, Now, Books
<1>2. /\ start.charges = Append(charges, charge) /\ start.credits = credits /\ start.lines = allocations
      /\ start = [charges |-> Append(charges, charge), credits |-> credits, lines |-> allocations]
  BY DEF Now
<1>3. /\ start.charges \in Seq(ChargeRows) /\ Len(start.charges) = n + 1 /\ DOMAIN start.charges = 1..(n + 1)
      /\ start.charges[n + 1] = charge /\ \A c \in 1..n : start.charges[c] = charges[c]
  BY <1>1, <1>2
<1>4. start \in Books
  BY <1>1, <1>2, <1>3 DEF Books
<1>5. LinesOK(allocations) /\ MoneyRows(charges)
  BY SoundRows DEF Now
<1>6. /\ \A c \in DOMAIN charges : /\ charges[c].allocated <= charges[c].amount
                                   /\ charges[c].allocated = OfCharge(allocations, c)
      /\ \A k \in DOMAIN credits : /\ credits[k].allocated <= credits[k].amount
                                   /\ credits[k].allocated = OfCredit(allocations, k)
      /\ \A i \in DOMAIN allocations : /\ allocations[i].charge \in DOMAIN charges
                                       /\ allocations[i].credit \in DOMAIN credits
  BY DEF Sound, Now
<1>7. OfCharge(allocations, n + 1) = 0
  <2>1. \A i \in DOMAIN allocations : allocations[i].charge # n + 1
    BY <1>1, <1>6
  <2> QED
    BY <1>5, <2>1, OfChargeNone
<1>8. charge.amount \in Nat \ {0}
  BY DEF ChargeRows
<1>9. Sound(start)
  <2>1. ASSUME NEW c \in DOMAIN start.charges
        PROVE  /\ start.charges[c].allocated <= start.charges[c].amount
               /\ start.charges[c].allocated = OfCharge(start.lines, c)
    <3>1. CASE c \in 1..n
      BY <1>1, <1>2, <1>3, <1>6, <3>1
    <3>2. CASE c = n + 1
      BY <1>2, <1>3, <1>7, <1>8, <3>2
    <3> QED
      BY <1>1, <1>3, <3>1, <3>2
  <2>2. \A i \in DOMAIN start.lines : start.lines[i].charge \in DOMAIN start.charges
                                     /\ start.lines[i].credit \in DOMAIN start.credits
    BY <1>1, <1>2, <1>3, <1>6
  <2> QED
    BY <1>2, <1>4, <1>6, <2>1, <2>2 DEF Sound
<1>10. SumRemaining(start.charges) = SumRemaining(charges) + charge.amount
  <2>1. MoneyRows(start.charges)
    BY <1>9, SoundRows
  <2>2. SumRemaining(start.charges) = SumRemaining(charges) + Remaining(charge)
    <3>1. /\ Len(start.charges) = Len(charges) + 1 /\ \A i \in DOMAIN charges : start.charges[i] = charges[i]
          /\ start.charges[Len(start.charges)] = charge
      BY <1>1, <1>3
    <3>2. SumRemaining(start.charges) = SumRemaining(charges) + Remaining(start.charges[Len(start.charges)])
      BY <1>5, <2>1, <3>1, SumRemainingGrows
    <3> QED
      BY <3>1, <3>2
  <2>3. Remaining(charge) = charge.amount
    BY <1>8 DEF Remaining
  <2> QED
    BY <2>2, <2>3
<1> QED
  BY <1>1, <1>2, <1>3, <1>9, <1>10 DEF WithCharge

WithCredit(start, credit) ==
    /\ Sound(start) /\ start.credits = Append(credits, credit) /\ start.charges = charges
    /\ start.lines = allocations
    /\ Len(start.credits) = Len(credits) + 1 /\ start.credits[Len(credits) + 1] = credit
    /\ \A k \in DOMAIN credits : k \in DOMAIN start.credits /\ start.credits[k] = credits[k]
    /\ SumRemaining(start.credits) = SumRemaining(credits) + credit.amount

LEMMA CreditStarts ==
    ASSUME Sound(Now), NEW credit \in CreditRows, credit.allocated = 0,
           NEW start, start = [Now EXCEPT !.credits = Append(credits, credit)]
    PROVE  WithCredit(start, credit)
<1> DEFINE n == Len(credits)
<1>1. /\ charges \in Seq(ChargeRows) /\ credits \in Seq(CreditRows) /\ allocations \in Seq(LineRows)
      /\ n \in Nat /\ DOMAIN credits = 1..n
  BY SeqFacts DEF Sound, Now, Books
<1>2. /\ start.credits = Append(credits, credit) /\ start.charges = charges /\ start.lines = allocations
      /\ start = [charges |-> charges, credits |-> Append(credits, credit), lines |-> allocations]
  BY DEF Now
<1>3. /\ start.credits \in Seq(CreditRows) /\ Len(start.credits) = n + 1 /\ DOMAIN start.credits = 1..(n + 1)
      /\ start.credits[n + 1] = credit /\ \A k \in 1..n : start.credits[k] = credits[k]
  BY <1>1, <1>2
<1>4. start \in Books
  BY <1>1, <1>2, <1>3 DEF Books
<1>5. LinesOK(allocations) /\ MoneyRows(credits)
  BY SoundRows DEF Now
<1>6. /\ \A c \in DOMAIN charges : /\ charges[c].allocated <= charges[c].amount
                                   /\ charges[c].allocated = OfCharge(allocations, c)
      /\ \A k \in DOMAIN credits : /\ credits[k].allocated <= credits[k].amount
                                   /\ credits[k].allocated = OfCredit(allocations, k)
      /\ \A i \in DOMAIN allocations : /\ allocations[i].charge \in DOMAIN charges
                                       /\ allocations[i].credit \in DOMAIN credits
  BY DEF Sound, Now
<1>7. OfCredit(allocations, n + 1) = 0
  <2>1. \A i \in DOMAIN allocations : allocations[i].credit # n + 1
    BY <1>1, <1>6
  <2> QED
    BY <1>5, <2>1, OfCreditNone
<1>8. credit.amount \in Nat \ {0}
  BY DEF CreditRows
<1>9. Sound(start)
  <2>1. ASSUME NEW k \in DOMAIN start.credits
        PROVE  /\ start.credits[k].allocated <= start.credits[k].amount
               /\ start.credits[k].allocated = OfCredit(start.lines, k)
    <3>1. CASE k \in 1..n
      BY <1>1, <1>2, <1>3, <1>6, <3>1
    <3>2. CASE k = n + 1
      BY <1>2, <1>3, <1>7, <1>8, <3>2
    <3> QED
      BY <1>1, <1>3, <3>1, <3>2
  <2>2. \A i \in DOMAIN start.lines : start.lines[i].charge \in DOMAIN start.charges
                                     /\ start.lines[i].credit \in DOMAIN start.credits
    BY <1>1, <1>2, <1>3, <1>6
  <2> QED
    BY <1>2, <1>4, <1>6, <2>1, <2>2 DEF Sound
<1>10. SumRemaining(start.credits) = SumRemaining(credits) + credit.amount
  <2>1. MoneyRows(start.credits)
    BY <1>9, SoundRows
  <2>2. SumRemaining(start.credits) = SumRemaining(credits) + Remaining(credit)
    <3>1. /\ Len(start.credits) = Len(credits) + 1 /\ \A i \in DOMAIN credits : start.credits[i] = credits[i]
          /\ start.credits[Len(start.credits)] = credit
      BY <1>1, <1>3
    <3>2. SumRemaining(start.credits) = SumRemaining(credits) + Remaining(start.credits[Len(start.credits)])
      BY <1>5, <2>1, <3>1, SumRemainingGrows
    <3> QED
      BY <3>1, <3>2
  <2>3. Remaining(credit) = credit.amount
    BY <1>8 DEF Remaining
  <2> QED
    BY <2>2, <2>3
<1> QED
  BY <1>1, <1>2, <1>3, <1>9, <1>10 DEF WithCredit

\* What an allocation leaves in the variables.
LEMMA AllocateLeaves ==
    ASSUME NEW cs, NEW ks, NEW start, start = [charges |-> cs, credits |-> ks, lines |-> allocations],
           Sound(start), Allocate(cs, ks)
    PROVE  Sound(Now') /\ Follows(start, Now') /\ InTurn(Now', Len(allocations)) /\ ~Owing(Now')
<1> DEFINE plan == AllocateFifo(cs, ks)
<1>1. charges' = plan.charges /\ credits' = plan.credits /\ allocations' = plan.lines
  BY DEF Allocate
<1>2. start.lines = allocations
  OBVIOUS
<1>3. Sound(plan) /\ Follows(start, plan) /\ InTurn(plan, Len(allocations)) /\ ~Owing(plan)
  <2>1. \A p : p = AllocateFifo(cs, ks) =>
            Sound(p) /\ Follows(start, p) /\ InTurn(p, Len(start.lines)) /\ ~Owing(p)
    BY AllocationEnds
  <2> QED
    BY <1>2, <2>1
<1> HIDE DEF plan
<1>4. plan = [charges |-> plan.charges, credits |-> plan.credits, lines |-> plan.lines]
  BY <1>3 DEF Sound, Books
<1>5. Now' = plan
  BY <1>1, <1>4 DEF Now
<1> QED
  BY <1>3, <1>5

Accounts ==
    /\ Sound(Now) /\ ~Owing(Now)
    /\ Running(ledger, balance)
    /\ balance = SumRemaining(charges) - SumRemaining(credits)
    /\ Len(ledger) = Len(charges) + Len(credits)
    /\ \A c \in DOMAIN charges : charges[c].kind = "REFUND" => c \notin Unsettled(charges)

SameCharge(c) ==
    /\ charges'[c].kind = charges[c].kind /\ charges'[c].source = charges[c].source
    /\ charges'[c].amount = charges[c].amount /\ charges'[c].due = charges[c].due

SameCredit(k) ==
    /\ credits'[k].kind = credits[k].kind /\ credits'[k].source = credits[k].source
    /\ credits'[k].amount = credits[k].amount

ChargesStay == \A c \in DOMAIN charges : c \in DOMAIN charges' /\ SameCharge(c)
CreditsStay == \A k \in DOMAIN credits : k \in DOMAIN credits' /\ SameCredit(k)

IsCharge(c, kind, source, amount, due) ==
    /\ charges'[c].kind = kind /\ charges'[c].source = source
    /\ charges'[c].amount = amount /\ charges'[c].due = due

IsCredit(k, kind, source, amount) ==
    credits'[k].kind = kind /\ credits'[k].source = source /\ credits'[k].amount = amount

ChargePosted(kind, source, amount, due) ==
    /\ ChargesStay /\ CreditsStay /\ DOMAIN credits' = DOMAIN credits
    /\ \A c \in DOMAIN charges' : c \in DOMAIN charges \/ IsCharge(c, kind, source, amount, due)
    /\ \E c \in DOMAIN charges' : IsCharge(c, kind, source, amount, due)

CreditPosted(kind, source, amount) ==
    /\ ChargesStay /\ CreditsStay /\ DOMAIN charges' = DOMAIN charges
    /\ \A k \in DOMAIN credits' : k \in DOMAIN credits \/ IsCredit(k, kind, source, amount)
    /\ \E k \in DOMAIN credits' : IsCredit(k, kind, source, amount)

LEMMA ChargeIsPosted ==
    ASSUME Accounts, NEW kind \in {"ORDER", "ADJUSTMENT", "REFUND"}, NEW type \in Debits,
           NEW source \in Orders \cup Adjustments, NEW amount \in Nat \ {0}, NEW due \in Nat,
           kind = "REFUND" => amount <= UnappliedCredit,
           PostCharge(kind, type, source, amount, due)
    PROVE  /\ Accounts' /\ ChargePosted(kind, source, amount, due) /\ Entered(type, source)
           /\ InTurn(Now', Len(allocations))
<1> DEFINE charge == [kind |-> kind, source |-> source, amount |-> amount, due |-> due, allocated |-> 0]
           start == [Now EXCEPT !.charges = Append(charges, charge)]
           n == Len(charges)
<1>1. /\ charge \in ChargeRows /\ charge.kind = kind /\ charge.source = source /\ charge.amount = amount
      /\ charge.due = due /\ charge.allocated = 0
  BY DEF ChargeRows
<1>2. PostLedger(type, source, amount) /\ Allocate(Append(charges, charge), credits)
  BY DEF PostCharge
<1>3. start = [charges |-> Append(charges, charge), credits |-> credits, lines |-> allocations]
  BY NowWith
<1>4. Sound(Now) /\ ~Owing(Now) /\ Running(ledger, balance)
  BY DEF Accounts
<1> HIDE DEF charge, start
<1>5. /\ Sound(start) /\ start.charges = Append(charges, charge) /\ start.credits = credits
      /\ start.lines = allocations
      /\ Len(start.charges) = n + 1 /\ start.charges[n + 1] = charge
      /\ \A c \in DOMAIN charges : c \in DOMAIN start.charges /\ start.charges[c] = charges[c]
      /\ SumRemaining(start.charges) = SumRemaining(charges) + amount
  <2>1. start = [Now EXCEPT !.charges = Append(charges, charge)]
    BY DEF start
  <2>2. WithCharge(start, charge)
    BY <1>1, <1>4, <2>1, ChargeStarts
  <2> QED
    BY <1>1, <2>2 DEF WithCharge
<1>6. Sound(Now') /\ Follows(start, Now') /\ InTurn(Now', Len(allocations)) /\ ~Owing(Now')
  BY <1>2, <1>3, <1>5, AllocateLeaves
<1>7. Running(ledger', balance') /\ balance' = balance + Signed(type, amount) /\ Entered(type, source)
  BY <1>2, <1>4, LedgerIsRunning DEF Types, Sources
<1>8. /\ charges' \in Seq(ChargeRows) /\ DOMAIN charges' = 1..Len(charges') /\ Len(charges') = n + 1 /\ n \in Nat
      /\ DOMAIN charges = 1..n /\ DOMAIN start.charges = 1..(n + 1)
      /\ Len(credits') = Len(credits) /\ DOMAIN credits' = DOMAIN credits
  <2>1. /\ charges \in Seq(ChargeRows) /\ charges' \in Seq(ChargeRows) /\ start.charges \in Seq(ChargeRows)
        /\ credits \in Seq(CreditRows) /\ credits' \in Seq(CreditRows)
    BY <1>4, <1>5, <1>6 DEF Sound, Books, Now
  <2>2. Len(charges') = Len(start.charges) /\ Len(credits') = Len(credits)
    BY <1>5, <1>6 DEF Follows, KeptCharges, KeptCredits, Now
  <2> QED
    BY <1>5, <2>1, <2>2, SeqFacts
<1>9. /\ \A c \in 1..n : SameCharge(c)
      /\ IsCharge(n + 1, kind, source, amount, due)
  <2>1. \A c \in 1..(n + 1) : /\ charges'[c].kind = start.charges[c].kind
                              /\ charges'[c].source = start.charges[c].source
                              /\ charges'[c].amount = start.charges[c].amount
                              /\ charges'[c].due = start.charges[c].due
    BY <1>6, <1>8 DEF Follows, KeptCharges, Now
  <2>2. \A c \in 1..n : start.charges[c] = charges[c]
    BY <1>5, <1>8
  <2>3. n + 1 \in 1..(n + 1) /\ \A c \in 1..n : c \in 1..(n + 1)
    BY <1>8
  <2> QED
    BY <1>1, <1>5, <2>1, <2>2, <2>3 DEF SameCharge, IsCharge
<1>10. \A k \in DOMAIN credits : SameCredit(k)
  BY <1>5, <1>6 DEF Follows, KeptCredits, Now, SameCredit
<1>11. ChargePosted(kind, source, amount, due)
  <2>1. \A c \in DOMAIN charges' : c \in DOMAIN charges \/ c = n + 1
    BY <1>8
  <2>2. n + 1 \in DOMAIN charges' /\ \A c \in DOMAIN charges : c \in DOMAIN charges'
    BY <1>8
  <2> QED
    BY <1>8, <1>9, <1>10, <2>1, <2>2 DEF ChargePosted, ChargesStay, CreditsStay
<1>12. /\ MoneyRows(charges) /\ MoneyRows(credits) /\ MoneyRows(charges') /\ MoneyRows(credits')
  BY <1>4, <1>6, SoundRows DEF Now
<1>13. SumRemaining(charges') - SumRemaining(credits') = (SumRemaining(charges) + amount) - SumRemaining(credits)
  <2>1. SumRemaining(charges') - SumRemaining(credits') = SumRemaining(start.charges) - SumRemaining(start.credits)
    BY <1>6 DEF Follows, Now
  <2>2. SumRemaining(start.charges) = SumRemaining(charges) + amount /\ start.credits = credits
    BY <1>5
  <2> QED
    BY <2>1, <2>2
<1>14. balance' = SumRemaining(charges') - SumRemaining(credits')
  <2>1. balance = SumRemaining(charges) - SumRemaining(credits) /\ balance' = balance + amount
    BY <1>7 DEF Accounts, Signed
  <2>2. SumRemaining(charges) \in Nat /\ SumRemaining(credits) \in Nat
    BY <1>12, SumRemainingType
  <2> QED
    BY <1>13, <2>1, <2>2
<1>15. ASSUME NEW c \in DOMAIN charges', charges'[c].kind = "REFUND" PROVE c \notin Unsettled(charges')
  <2>1. CASE c \in DOMAIN charges
    <3>1. c \notin Unsettled(charges) /\ SameCharge(c)
      BY <1>8, <1>9, <1>15, <2>1 DEF Accounts, SameCharge
    <3>2. start.charges[c] = charges[c] /\ charges'[c].allocated >= start.charges[c].allocated
      BY <1>5, <1>6, <2>1 DEF Follows, KeptCharges, Now
    <3>3. charges[c].amount \in Nat /\ charges[c].allocated \in Nat /\ charges'[c].allocated \in Nat
      BY <1>12, <1>15, <2>1 DEF MoneyRows
    <3> QED
      BY <2>1, <3>1, <3>2, <3>3 DEF Unsettled, SameCharge
  <2>2. CASE c \notin DOMAIN charges
    <3>1. kind = "REFUND" /\ amount <= SumRemaining(credits)
      <4>1. c = n + 1
        BY <1>8, <2>2
      <4>2. charges'[n + 1].kind = kind
        BY <1>9 DEF IsCharge
      <4> QED
        BY <1>15, <4>1, <4>2 DEF UnappliedCredit
    <3>2. /\ SumRemaining(charges) \in Nat /\ SumRemaining(credits) \in Nat
          /\ SumRemaining(charges') \in Nat /\ SumRemaining(credits') \in Nat
      BY <1>12, SumRemainingType
    <3>3. SumRemaining(charges) = 0
      <4>1. SumRemaining(credits) # 0
        BY <3>1, <3>2
      <4>2. Unsettled(credits) # {}
        BY <1>12, <4>1, SumRemainingSettled
      <4>3. Unsettled(charges) = {}
        BY <1>4, <4>2 DEF Owing, Now
      <4> QED
        BY <1>12, <4>3, SumRemainingSettled
    <3>4. SumRemaining(charges') <= SumRemaining(credits')
      BY <1>13, <3>1, <3>2, <3>3
    <3>5. Unsettled(charges') = {}
      <4>1. CASE Unsettled(credits') = {}
        <5>1. SumRemaining(credits') = 0
          BY <1>12, <4>1, SumRemainingSettled
        <5>2. SumRemaining(charges') = 0
          BY <3>2, <3>4, <5>1
        <5> QED
          BY <1>12, <5>2, SumRemainingSettled
      <4>2. CASE Unsettled(credits') # {}
        BY <1>6, <4>2 DEF Owing, Now
      <4> QED
        BY <4>1, <4>2
    <3> QED
      BY <3>5
  <2> QED
    BY <2>1, <2>2
<1>16. Len(ledger') = Len(charges') + Len(credits')
  <2>1. Len(ledger') = Len(ledger) + 1 /\ Len(ledger) = n + Len(credits) /\ Len(credits) \in Nat
    BY <1>7, <1>12 DEF Entered, Accounts, MoneyRows
  <2> QED
    BY <1>8, <2>1
<1> QED
  BY <1>6, <1>7, <1>11, <1>14, <1>15, <1>16 DEF Accounts

LEMMA CreditIsPosted ==
    ASSUME Accounts, NEW kind \in {"PAYMENT", "ADJUSTMENT", "CREDIT_NOTE"},
           NEW type \in {"PAYMENT", "ADJUSTMENT_CREDIT", "CREDIT_NOTE"},
           NEW source \in Payments \cup Adjustments \cup Returns, NEW amount \in Nat \ {0},
           PostCredit(kind, type, source, amount)
    PROVE  /\ Accounts' /\ CreditPosted(kind, source, amount) /\ Entered(type, source)
           /\ InTurn(Now', Len(allocations))
<1> DEFINE credit == [kind |-> kind, source |-> source, amount |-> amount, allocated |-> 0]
           start == [Now EXCEPT !.credits = Append(credits, credit)]
           n == Len(credits)
<1>1. /\ credit \in CreditRows /\ credit.kind = kind /\ credit.source = source /\ credit.amount = amount
      /\ credit.allocated = 0
  BY DEF CreditRows
<1>2. PostLedger(type, source, amount) /\ Allocate(charges, Append(credits, credit))
  BY DEF PostCredit
<1>3. start = [charges |-> charges, credits |-> Append(credits, credit), lines |-> allocations]
  BY NowWith
<1>4. Sound(Now) /\ ~Owing(Now) /\ Running(ledger, balance)
  BY DEF Accounts
<1> HIDE DEF credit, start
<1>5. /\ Sound(start) /\ start.credits = Append(credits, credit) /\ start.charges = charges
      /\ start.lines = allocations
      /\ Len(start.credits) = n + 1 /\ start.credits[n + 1] = credit
      /\ \A k \in DOMAIN credits : k \in DOMAIN start.credits /\ start.credits[k] = credits[k]
      /\ SumRemaining(start.credits) = SumRemaining(credits) + amount
  <2>1. start = [Now EXCEPT !.credits = Append(credits, credit)]
    BY DEF start
  <2>2. WithCredit(start, credit)
    BY <1>1, <1>4, <2>1, CreditStarts
  <2> QED
    BY <1>1, <2>2 DEF WithCredit
<1>6. Sound(Now') /\ Follows(start, Now') /\ InTurn(Now', Len(allocations)) /\ ~Owing(Now')
  BY <1>2, <1>3, <1>5, AllocateLeaves
<1>7. Running(ledger', balance') /\ balance' = balance + Signed(type, amount) /\ Entered(type, source)
  BY <1>2, <1>4, LedgerIsRunning DEF Types, Sources
<1>8. /\ credits' \in Seq(CreditRows) /\ DOMAIN credits' = 1..Len(credits') /\ Len(credits') = n + 1 /\ n \in Nat
      /\ DOMAIN credits = 1..n /\ DOMAIN start.credits = 1..(n + 1)
      /\ Len(charges') = Len(charges) /\ DOMAIN charges' = DOMAIN charges
  <2>1. /\ credits \in Seq(CreditRows) /\ credits' \in Seq(CreditRows) /\ start.credits \in Seq(CreditRows)
        /\ charges \in Seq(ChargeRows) /\ charges' \in Seq(ChargeRows)
    BY <1>4, <1>5, <1>6 DEF Sound, Books, Now
  <2>2. Len(credits') = Len(start.credits) /\ Len(charges') = Len(charges)
    BY <1>5, <1>6 DEF Follows, KeptCharges, KeptCredits, Now
  <2> QED
    BY <1>5, <2>1, <2>2, SeqFacts
<1>9. /\ \A k \in 1..n : SameCredit(k)
      /\ IsCredit(n + 1, kind, source, amount)
  <2>1. \A k \in 1..(n + 1) : /\ credits'[k].kind = start.credits[k].kind
                              /\ credits'[k].source = start.credits[k].source
                              /\ credits'[k].amount = start.credits[k].amount
    BY <1>6, <1>8 DEF Follows, KeptCredits, Now
  <2>2. \A k \in 1..n : start.credits[k] = credits[k]
    BY <1>5, <1>8
  <2>3. n + 1 \in 1..(n + 1) /\ \A k \in 1..n : k \in 1..(n + 1)
    BY <1>8
  <2> QED
    BY <1>1, <1>5, <2>1, <2>2, <2>3 DEF SameCredit, IsCredit
<1>10. \A c \in DOMAIN charges : SameCharge(c) /\ charges'[c].allocated >= charges[c].allocated
  BY <1>5, <1>6 DEF Follows, KeptCharges, Now, SameCharge
<1>11. CreditPosted(kind, source, amount)
  <2>1. \A k \in DOMAIN credits' : k \in DOMAIN credits \/ k = n + 1
    BY <1>8
  <2>2. n + 1 \in DOMAIN credits' /\ \A k \in DOMAIN credits : k \in DOMAIN credits'
    BY <1>8
  <2> QED
    BY <1>8, <1>9, <1>10, <2>1, <2>2 DEF CreditPosted, ChargesStay, CreditsStay
<1>12. /\ MoneyRows(charges) /\ MoneyRows(credits) /\ MoneyRows(charges') /\ MoneyRows(credits')
  BY <1>4, <1>6, SoundRows DEF Now
<1>13. SumRemaining(charges') - SumRemaining(credits') = SumRemaining(charges) - (SumRemaining(credits) + amount)
  BY <1>5, <1>6 DEF Follows, Now
<1>14. balance' = SumRemaining(charges') - SumRemaining(credits')
  <2>1. balance = SumRemaining(charges) - SumRemaining(credits) /\ balance' = balance - amount
    BY <1>7 DEF Accounts, Signed, Debits
  <2>2. SumRemaining(charges) \in Nat /\ SumRemaining(credits) \in Nat
    BY <1>12, SumRemainingType
  <2> QED
    BY <1>13, <2>1, <2>2
<1>15. ASSUME NEW c \in DOMAIN charges', charges'[c].kind = "REFUND" PROVE c \notin Unsettled(charges')
  <2>1. c \in DOMAIN charges /\ c \notin Unsettled(charges) /\ SameCharge(c)
        /\ charges'[c].allocated >= charges[c].allocated
    BY <1>8, <1>10, <1>15 DEF Accounts, SameCharge
  <2>2. charges[c].amount \in Nat /\ charges[c].allocated \in Nat /\ charges'[c].allocated \in Nat
    BY <1>12, <1>15, <2>1 DEF MoneyRows
  <2> QED
    BY <2>1, <2>2 DEF Unsettled, SameCharge
<1>16. Len(ledger') = Len(charges') + Len(credits')
  <2>1. Len(ledger') = Len(ledger) + 1 /\ Len(ledger) = Len(charges) + n /\ Len(charges) \in Nat
    BY <1>7, <1>12 DEF Entered, Accounts, MoneyRows
  <2> QED
    BY <1>8, <2>1
<1> QED
  BY <1>6, <1>7, <1>11, <1>14, <1>15, <1>16 DEF Accounts
-----------------------------------------------------------------------------
(***************************************************************************)
(* The inductive invariant of the ledger: the accounts, and that there is  *)
(* one posting for every paper that calls for one.                         *)
(***************************************************************************)
PapersTypeOK ==
    /\ today \in Nat
    /\ delivered \in [Orders -> OrderPapers \cup {None}]
    /\ payment \in [Payments -> PaymentPapers \cup {None}]
    /\ adjustment \in [Adjustments -> AdjustmentPapers \cup {None}]
    /\ note \in [Returns -> Amounts \cup {None}]

LEMMA NoneIsNoPaper ==
    /\ None \notin OrderPapers /\ None \notin PaymentPapers /\ None \notin AdjustmentPapers /\ None \notin Amounts
    /\ \A amount \in Amounts : amount \in Nat \ {0}
BY LedgerAssumption

ChargeCause(orders, adjustments, row) ==
    \/ row.kind = "ORDER" /\ row.source \in Orders /\ orders[row.source] = [total |-> row.amount, due |-> row.due]
    \/ /\ row.kind # "ORDER" /\ row.source \in Adjustments
       /\ adjustments[row.source] # None /\ adjustments[row.source].status = "APPROVED"
       /\ adjustments[row.source].type = IF row.kind = "REFUND" THEN "REFUND" ELSE "DEBIT"
       /\ adjustments[row.source].amount = row.amount

CreditCause(payments, adjustments, notes, row) ==
    \/ /\ row.kind = "PAYMENT" /\ row.source \in Payments
       /\ payments[row.source] # None /\ payments[row.source].status = "CONFIRMED"
       /\ payments[row.source].amount = row.amount
    \/ row.kind = "CREDIT_NOTE" /\ row.source \in Returns /\ notes[row.source] = row.amount
    \/ /\ row.kind = "ADJUSTMENT" /\ row.source \in Adjustments
       /\ adjustments[row.source] # None /\ adjustments[row.source].status = "APPROVED"
       /\ adjustments[row.source].type = "CREDIT" /\ adjustments[row.source].amount = row.amount

Causes ==
    /\ \A c \in DOMAIN charges : ChargeCause(delivered, adjustment, charges[c])
    /\ \A k \in DOMAIN credits : CreditCause(payment, adjustment, note, credits[k])

DeliveredOrders == {o \in Orders : delivered[o] # None /\ delivered[o].total > 0}
ConfirmedPayments == {p \in Payments : IsConfirmed(p)}
ApprovedAdjustments == {a \in Adjustments : IsApproved(a)}
NotedReturns == {r \in Returns : note[r] # None}

Presence ==
    /\ \A o \in DeliveredOrders : Posts(charges, "ORDER", o)
    /\ \A p \in ConfirmedPayments : Posts(credits, "PAYMENT", p) /\ Enters("PAYMENT", p)

Counted ==
    /\ IsFiniteSet(DeliveredOrders) /\ IsFiniteSet(ConfirmedPayments)
    /\ IsFiniteSet(ApprovedAdjustments) /\ IsFiniteSet(NotedReturns)
    /\ Len(ledger) = Cardinality(DeliveredOrders) + Cardinality(ConfirmedPayments)
                   + Cardinality(ApprovedAdjustments) + Cardinality(NotedReturns)

LedgerInv == PapersTypeOK /\ Accounts /\ Causes /\ Presence /\ Counted

\* What no step takes back.
PapersStay ==
    /\ \A o \in Orders : delivered[o] # None => delivered'[o] = delivered[o]
    /\ \A p \in Payments : IsConfirmed(p) => payment'[p] = payment[p]
    /\ \A a \in Adjustments : IsApproved(a) => adjustment'[a] = adjustment[a]
    /\ \A r \in Returns : note[r] # None => note'[r] = note[r]

LEMMA ChargeCauseStays ==
    ASSUME PapersStay, NEW row \in ChargeRows, ChargeCause(delivered, adjustment, row),
           NEW now, now.kind = row.kind, now.source = row.source, now.amount = row.amount, now.due = row.due
    PROVE  ChargeCause(delivered', adjustment', now)
<1>1. CASE row.kind = "ORDER"
  <2>1. row.source \in Orders /\ delivered[row.source] = [total |-> row.amount, due |-> row.due]
    BY <1>1 DEF ChargeCause
  <2>2. [total |-> row.amount, due |-> row.due] \in OrderPapers
    BY DEF ChargeRows, OrderPapers
  <2>3. delivered'[row.source] = delivered[row.source]
    BY <2>1, <2>2, NoneIsNoPaper DEF PapersStay
  <2> QED
    BY <1>1, <2>1, <2>3 DEF ChargeCause
<1>2. CASE row.kind # "ORDER"
  <2>1. adjustment'[row.source] = adjustment[row.source]
    BY <1>2 DEF ChargeCause, PapersStay, IsApproved
  <2> QED
    BY <1>2, <2>1 DEF ChargeCause
<1> QED
  BY <1>1, <1>2

LEMMA CreditCauseStays ==
    ASSUME PapersStay, NEW row \in CreditRows, CreditCause(payment, adjustment, note, row),
           NEW now, now.kind = row.kind, now.source = row.source, now.amount = row.amount,
           row.kind = "CREDIT_NOTE" => row.amount # None
    PROVE  CreditCause(payment', adjustment', note', now)
<1>1. CASE row.kind = "PAYMENT"
  <2>1. payment'[row.source] = payment[row.source]
    BY <1>1 DEF CreditCause, PapersStay, IsConfirmed
  <2> QED
    BY <1>1, <2>1 DEF CreditCause
<1>2. CASE row.kind = "CREDIT_NOTE"
  <2>1. note'[row.source] = note[row.source]
    BY <1>2 DEF CreditCause, PapersStay
  <2> QED
    BY <1>2, <2>1 DEF CreditCause
<1>3. CASE row.kind = "ADJUSTMENT"
  <2>1. adjustment'[row.source] = adjustment[row.source]
    BY <1>3 DEF CreditCause, PapersStay, IsApproved
  <2> QED
    BY <1>3, <2>1 DEF CreditCause
<1> QED
  BY <1>1, <1>2, <1>3 DEF CreditRows

\* The postings that are there keep their causes, whatever is posted beside them.
LEMMA OldCausesStay ==
    ASSUME LedgerInv, PapersStay, ChargesStay, CreditsStay
    PROVE  /\ \A c \in DOMAIN charges : ChargeCause(delivered', adjustment', charges'[c])
           /\ \A k \in DOMAIN credits : CreditCause(payment', adjustment', note', credits'[k])
<1>1. Now \in Books /\ Now.charges = charges /\ Now.credits = credits
  BY DEF LedgerInv, Accounts, Sound, Now
<1>2. ASSUME NEW c \in DOMAIN charges
      PROVE  ChargeCause(delivered', adjustment', charges'[c])
  <2>1. charges[c] \in ChargeRows /\ ChargeCause(delivered, adjustment, charges[c])
    BY <1>1, BooksFacts DEF LedgerInv, Causes
  <2>2. SameCharge(c)
    BY DEF ChargesStay
  <2> QED
    BY <2>1, <2>2, ChargeCauseStays DEF SameCharge
<1>3. ASSUME NEW k \in DOMAIN credits
      PROVE  CreditCause(payment', adjustment', note', credits'[k])
  <2>1. credits[k] \in CreditRows /\ CreditCause(payment, adjustment, note, credits[k])
    BY <1>1, BooksFacts DEF LedgerInv, Causes
  <2>2. SameCredit(k)
    BY DEF CreditsStay
  <2>3. credits[k].amount # None
    BY <2>1, LedgerAssumption DEF CreditRows
  <2> QED
    BY <2>1, <2>2, <2>3, CreditCauseStays DEF SameCredit
<1> QED
  BY <1>2, <1>3

Grows(old, new, x) == x \notin old /\ new = old \cup {x}

LEMMA OneMore ==
    ASSUME NEW old, IsFiniteSet(old), NEW new, NEW x, Grows(old, new, x)
    PROVE  IsFiniteSet(new) /\ Cardinality(new) = Cardinality(old) + 1
BY FS_AddElement DEF Grows

LEMMA CardinalitiesAreNat ==
    ASSUME Counted
    PROVE  /\ Cardinality(DeliveredOrders) \in Nat /\ Cardinality(ConfirmedPayments) \in Nat
           /\ Cardinality(ApprovedAdjustments) \in Nat /\ Cardinality(NotedReturns) \in Nat
BY FS_CardinalityType DEF Counted

\* A step that posts nothing.
LEMMA NothingPosted ==
    ASSUME LedgerInv, PapersTypeOK', PapersStay, UNCHANGED books,
           DeliveredOrders' = DeliveredOrders, ConfirmedPayments' = ConfirmedPayments,
           ApprovedAdjustments' = ApprovedAdjustments, NotedReturns' = NotedReturns
    PROVE  LedgerInv'
<1>1. /\ charges' = charges /\ credits' = credits /\ allocations' = allocations /\ ledger' = ledger
      /\ balance' = balance
  BY DEF books
<1>2. Accounts'
  BY <1>1 DEF LedgerInv, Accounts, Now
<1>3. ChargesStay /\ CreditsStay
  BY <1>1 DEF ChargesStay, CreditsStay, SameCharge, SameCredit
<1>4. Causes'
  BY <1>1, <1>3, OldCausesStay DEF Causes
<1>5. Presence'
  BY <1>1 DEF LedgerInv, Presence, Posts, Enters
<1>6. Counted'
  BY <1>1 DEF LedgerInv, Counted
<1> QED
  BY <1>2, <1>4, <1>5, <1>6 DEF LedgerInv

LEMMA OldPostsStay ==
    ASSUME ChargesStay, CreditsStay, NEW type, NEW source, Entered(type, source)
    PROVE  /\ \A k, x : Posts(charges, k, x) => Posts(charges', k, x)
           /\ \A k, x : Posts(credits, k, x) => Posts(credits', k, x)
           /\ \A t, x : Enters(t, x) => \E i \in DOMAIN ledger' : ledger'[i].type = t /\ ledger'[i].source = x
<1>1. ASSUME NEW k, NEW x, Posts(charges, k, x) PROVE Posts(charges', k, x)
  BY <1>1 DEF Posts, ChargesStay, SameCharge
<1>2. ASSUME NEW k, NEW x, Posts(credits, k, x) PROVE Posts(credits', k, x)
  BY <1>2 DEF Posts, CreditsStay, SameCredit
<1>3. ASSUME NEW t, NEW x, Enters(t, x)
      PROVE  \E i \in DOMAIN ledger' : ledger'[i].type = t /\ ledger'[i].source = x
  BY <1>3 DEF Enters, Entered
<1> QED
  BY <1>1, <1>2, <1>3

\* A step that posts a charge for a paper that had none.
LEMMA ChargeIsCounted ==
    ASSUME LedgerInv, PapersTypeOK', PapersStay,
           NEW kind \in {"ORDER", "ADJUSTMENT", "REFUND"}, NEW type \in Debits,
           NEW source \in Orders \cup Adjustments, NEW amount \in Nat \ {0}, NEW due \in Nat,
           kind = "REFUND" => amount <= UnappliedCredit,
           PostCharge(kind, type, source, amount, due),
           \A row : row.kind = kind /\ row.source = source /\ row.amount = amount /\ row.due = due
                    => ChargeCause(delivered', adjustment', row),
           \/ /\ kind = "ORDER" /\ Grows(DeliveredOrders, DeliveredOrders', source)
              /\ ApprovedAdjustments' = ApprovedAdjustments
           \/ /\ kind # "ORDER" /\ Grows(ApprovedAdjustments, ApprovedAdjustments', source)
              /\ DeliveredOrders' = DeliveredOrders,
           ConfirmedPayments' = ConfirmedPayments, NotedReturns' = NotedReturns
    PROVE  LedgerInv' /\ InTurn(Now', Len(allocations)) /\ ChargesStay /\ CreditsStay
<1>1. /\ Accounts' /\ ChargePosted(kind, source, amount, due) /\ Entered(type, source)
      /\ InTurn(Now', Len(allocations))
  BY ChargeIsPosted DEF LedgerInv
<1>2. ChargesStay /\ CreditsStay /\ DOMAIN credits' = DOMAIN credits
  BY <1>1 DEF ChargePosted
<1>3. Causes'
  <2>1. \A c \in DOMAIN charges' : ChargeCause(delivered', adjustment', charges'[c])
    <3> SUFFICES ASSUME NEW c \in DOMAIN charges' PROVE ChargeCause(delivered', adjustment', charges'[c])
      OBVIOUS
    <3>1. CASE c \in DOMAIN charges
      BY <1>2, <3>1, OldCausesStay
    <3>2. CASE IsCharge(c, kind, source, amount, due)
      BY <3>2 DEF IsCharge
    <3> QED
      BY <1>1, <3>1, <3>2 DEF ChargePosted
  <2>2. \A k \in DOMAIN credits' : CreditCause(payment', adjustment', note', credits'[k])
    BY <1>2, OldCausesStay
  <2> QED
    BY <2>1, <2>2 DEF Causes
<1>4. Presence'
  <2>1. ASSUME NEW o \in DeliveredOrders' PROVE Posts(charges', "ORDER", o)
    <3>1. CASE o \in DeliveredOrders
      BY <1>1, <1>2, <3>1, OldPostsStay DEF LedgerInv, Presence
    <3>2. CASE o \notin DeliveredOrders
      BY <1>1, <2>1, <3>2 DEF Grows, ChargePosted, IsCharge, Posts
    <3> QED
      BY <3>1, <3>2
  <2>2. ASSUME NEW p \in ConfirmedPayments'
        PROVE  /\ Posts(credits', "PAYMENT", p)
               /\ \E i \in DOMAIN ledger' : ledger'[i].type = "PAYMENT" /\ ledger'[i].source = p
    BY <1>1, <1>2, OldPostsStay DEF LedgerInv, Presence
  <2> QED
    BY <2>1, <2>2 DEF Presence, Enters
<1>5. Counted'
  <2>1. Len(ledger') = Len(ledger) + 1
    BY <1>1 DEF Entered
  <2>2. CASE Grows(DeliveredOrders, DeliveredOrders', source) /\ ApprovedAdjustments' = ApprovedAdjustments
    <3>1. IsFiniteSet(DeliveredOrders') /\ Cardinality(DeliveredOrders') = Cardinality(DeliveredOrders) + 1
      BY <2>2, OneMore DEF LedgerInv, Counted
    <3>2. /\ Cardinality(DeliveredOrders) \in Nat /\ Cardinality(ConfirmedPayments) \in Nat
          /\ Cardinality(ApprovedAdjustments) \in Nat /\ Cardinality(NotedReturns) \in Nat
      BY CardinalitiesAreNat DEF LedgerInv
    <3> QED
      BY <2>1, <2>2, <3>1, <3>2 DEF LedgerInv, Counted
  <2>3. CASE Grows(ApprovedAdjustments, ApprovedAdjustments', source) /\ DeliveredOrders' = DeliveredOrders
    <3>1. IsFiniteSet(ApprovedAdjustments') /\ Cardinality(ApprovedAdjustments') = Cardinality(ApprovedAdjustments) + 1
      BY <2>3, OneMore DEF LedgerInv, Counted
    <3>2. /\ Cardinality(DeliveredOrders) \in Nat /\ Cardinality(ConfirmedPayments) \in Nat
          /\ Cardinality(ApprovedAdjustments) \in Nat /\ Cardinality(NotedReturns) \in Nat
      BY CardinalitiesAreNat DEF LedgerInv
    <3> QED
      BY <2>1, <2>3, <3>1, <3>2 DEF LedgerInv, Counted
  <2> QED
    BY <2>2, <2>3
<1> QED
  BY <1>1, <1>2, <1>3, <1>4, <1>5 DEF LedgerInv

\* A step that posts a credit for a paper that had none.
LEMMA CreditIsCounted ==
    ASSUME LedgerInv, PapersTypeOK', PapersStay,
           NEW kind \in {"PAYMENT", "ADJUSTMENT", "CREDIT_NOTE"},
           NEW type \in {"PAYMENT", "ADJUSTMENT_CREDIT", "CREDIT_NOTE"},
           NEW source \in Payments \cup Adjustments \cup Returns, NEW amount \in Nat \ {0},
           PostCredit(kind, type, source, amount), kind = "PAYMENT" => type = "PAYMENT",
           \A row : row.kind = kind /\ row.source = source /\ row.amount = amount
                    => CreditCause(payment', adjustment', note', row),
           \/ /\ kind = "PAYMENT" /\ Grows(ConfirmedPayments, ConfirmedPayments', source)
              /\ ApprovedAdjustments' = ApprovedAdjustments /\ NotedReturns' = NotedReturns
           \/ /\ kind = "ADJUSTMENT" /\ Grows(ApprovedAdjustments, ApprovedAdjustments', source)
              /\ ConfirmedPayments' = ConfirmedPayments /\ NotedReturns' = NotedReturns
           \/ /\ kind = "CREDIT_NOTE" /\ Grows(NotedReturns, NotedReturns', source)
              /\ ConfirmedPayments' = ConfirmedPayments /\ ApprovedAdjustments' = ApprovedAdjustments,
           DeliveredOrders' = DeliveredOrders
    PROVE  /\ LedgerInv' /\ InTurn(Now', Len(allocations)) /\ ChargesStay /\ CreditsStay
           /\ Posts(credits', kind, source)
<1>1. /\ Accounts' /\ CreditPosted(kind, source, amount) /\ Entered(type, source)
      /\ InTurn(Now', Len(allocations))
  BY CreditIsPosted DEF LedgerInv
<1>2. ChargesStay /\ CreditsStay /\ DOMAIN charges' = DOMAIN charges
  BY <1>1 DEF CreditPosted
<1>3. Causes'
  <2>1. \A k \in DOMAIN credits' : CreditCause(payment', adjustment', note', credits'[k])
    <3> SUFFICES ASSUME NEW k \in DOMAIN credits' PROVE CreditCause(payment', adjustment', note', credits'[k])
      OBVIOUS
    <3>1. CASE k \in DOMAIN credits
      BY <1>2, <3>1, OldCausesStay
    <3>2. CASE IsCredit(k, kind, source, amount)
      BY <3>2 DEF IsCredit
    <3> QED
      BY <1>1, <3>1, <3>2 DEF CreditPosted
  <2>2. \A c \in DOMAIN charges' : ChargeCause(delivered', adjustment', charges'[c])
    BY <1>2, OldCausesStay
  <2> QED
    BY <2>1, <2>2 DEF Causes
<1>4. Posts(credits', kind, source)
  BY <1>1 DEF CreditPosted, IsCredit, Posts
<1>5. Presence'
  <2>1. \A o \in DeliveredOrders' : Posts(charges', "ORDER", o)
    BY <1>1, <1>2, OldPostsStay DEF LedgerInv, Presence
  <2>2. ASSUME NEW p \in ConfirmedPayments'
        PROVE  /\ Posts(credits', "PAYMENT", p)
               /\ \E i \in DOMAIN ledger' : ledger'[i].type = "PAYMENT" /\ ledger'[i].source = p
    <3>1. CASE p \in ConfirmedPayments
      BY <1>1, <1>2, <3>1, OldPostsStay DEF LedgerInv, Presence
    <3>2. CASE p \notin ConfirmedPayments
      <4>1. kind = "PAYMENT" /\ p = source /\ type = "PAYMENT"
        BY <2>2, <3>2 DEF Grows
      <4> QED
        BY <1>1, <1>4, <4>1 DEF Entered
    <3> QED
      BY <3>1, <3>2
  <2> QED
    BY <2>1, <2>2 DEF Presence, Enters
<1>6. Counted'
  <2>1. Len(ledger') = Len(ledger) + 1
    BY <1>1 DEF Entered
  <2>2. /\ Cardinality(DeliveredOrders) \in Nat /\ Cardinality(ConfirmedPayments) \in Nat
        /\ Cardinality(ApprovedAdjustments) \in Nat /\ Cardinality(NotedReturns) \in Nat
    BY CardinalitiesAreNat DEF LedgerInv
  <2>3. CASE /\ Grows(ConfirmedPayments, ConfirmedPayments', source)
             /\ ApprovedAdjustments' = ApprovedAdjustments /\ NotedReturns' = NotedReturns
    <3>1. IsFiniteSet(ConfirmedPayments') /\ Cardinality(ConfirmedPayments') = Cardinality(ConfirmedPayments) + 1
      BY <2>3, OneMore DEF LedgerInv, Counted
    <3> QED
      BY <2>1, <2>2, <2>3, <3>1 DEF LedgerInv, Counted
  <2>4. CASE /\ Grows(ApprovedAdjustments, ApprovedAdjustments', source)
             /\ ConfirmedPayments' = ConfirmedPayments /\ NotedReturns' = NotedReturns
    <3>1. IsFiniteSet(ApprovedAdjustments') /\ Cardinality(ApprovedAdjustments') = Cardinality(ApprovedAdjustments) + 1
      BY <2>4, OneMore DEF LedgerInv, Counted
    <3> QED
      BY <2>1, <2>2, <2>4, <3>1 DEF LedgerInv, Counted
  <2>5. CASE /\ Grows(NotedReturns, NotedReturns', source)
             /\ ConfirmedPayments' = ConfirmedPayments /\ ApprovedAdjustments' = ApprovedAdjustments
    <3>1. IsFiniteSet(NotedReturns') /\ Cardinality(NotedReturns') = Cardinality(NotedReturns) + 1
      BY <2>5, OneMore DEF LedgerInv, Counted
    <3> QED
      BY <2>1, <2>2, <2>5, <3>1 DEF LedgerInv, Counted
  <2> QED
    BY <2>3, <2>4, <2>5
<1> QED
  BY <1>1, <1>2, <1>3, <1>4, <1>5, <1>6 DEF LedgerInv
-----------------------------------------------------------------------------
(***************************************************************************)
(* Every operation on the books.                                           *)
(***************************************************************************)
GoodStep ==
    /\ LedgerInv' /\ PapersStay /\ ChargesStay /\ CreditsStay
    /\ allocations' = allocations \/ InTurn(Now', Len(allocations))

LEMMA BooksUnchanged ==
    ASSUME LedgerInv, PapersTypeOK', PapersStay, UNCHANGED books,
           DeliveredOrders' = DeliveredOrders, ConfirmedPayments' = ConfirmedPayments,
           ApprovedAdjustments' = ApprovedAdjustments, NotedReturns' = NotedReturns
    PROVE  GoodStep
<1>1. LedgerInv'
  BY NothingPosted
<1>2. charges' = charges /\ credits' = credits /\ allocations' = allocations
  BY DEF books
<1> QED
  BY <1>1, <1>2 DEF GoodStep, ChargesStay, CreditsStay, SameCharge, SameCredit

LEMMA PapersUnchanged ==
    ASSUME LedgerInv, UNCHANGED papers, today' \in Nat, UNCHANGED books
    PROVE  GoodStep
<1>1. delivered' = delivered /\ payment' = payment /\ adjustment' = adjustment /\ note' = note
  BY DEF papers
<1>2. PapersTypeOK' /\ PapersStay
  BY <1>1 DEF LedgerInv, PapersTypeOK, PapersStay
<1>3. /\ DeliveredOrders' = DeliveredOrders /\ ConfirmedPayments' = ConfirmedPayments
      /\ ApprovedAdjustments' = ApprovedAdjustments /\ NotedReturns' = NotedReturns
  BY <1>1 DEF DeliveredOrders, ConfirmedPayments, ApprovedAdjustments, NotedReturns, IsConfirmed, IsApproved
<1> QED
  BY <1>2, <1>3, BooksUnchanged

LEMMA DeliverIsGood ==
    ASSUME LedgerInv, NEW o \in Orders, NEW total \in Amounts \cup {0}, NEW days \in CreditDays,
           Deliver(o, total, days)
    PROVE  GoodStep
<1> DEFINE order == [total |-> total, due |-> today + days]
<1>1. /\ delivered[o] = None /\ delivered' = [delivered EXCEPT ![o] = order] /\ CreateOrderCharge(o, order)
      /\ today' = today /\ payment' = payment /\ adjustment' = adjustment /\ note' = note
  BY DEF Deliver
<1>2. today \in Nat /\ days \in Nat /\ total \in Nat /\ (total # 0 => total \in Nat \ {0})
  BY LedgerAssumption DEF LedgerInv, PapersTypeOK
<1>3. /\ order \in OrderPapers /\ order # None /\ order.total = total /\ order.due = today + days
      /\ today + days \in Nat
  <2>1. order \in OrderPapers
    BY <1>2 DEF OrderPapers
  <2> QED
    BY <1>2, <2>1, NoneIsNoPaper
<1>4. order = [total |-> total, due |-> today + days]
  OBVIOUS
<1> HIDE DEF order
<1>5. delivered'[o] = order /\ \A x \in Orders \ {o} : delivered'[x] = delivered[x]
  BY <1>1 DEF LedgerInv, PapersTypeOK
<1>6. PapersTypeOK' /\ PapersStay
  BY <1>1, <1>3, <1>5 DEF LedgerInv, PapersTypeOK, PapersStay
<1>7. /\ ConfirmedPayments' = ConfirmedPayments /\ ApprovedAdjustments' = ApprovedAdjustments
      /\ NotedReturns' = NotedReturns
  BY <1>1 DEF ConfirmedPayments, ApprovedAdjustments, NotedReturns, IsConfirmed, IsApproved
<1>8. CASE total = 0
  <2>1. UNCHANGED books
    BY <1>1, <1>3, <1>8 DEF CreateOrderCharge
  <2>2. DeliveredOrders' = DeliveredOrders
    BY <1>1, <1>3, <1>5, <1>8 DEF DeliveredOrders
  <2> QED
    BY <1>6, <1>7, <2>1, <2>2, BooksUnchanged
<1>9. CASE total # 0
  <2>1. ~ \E c \in DOMAIN charges : charges[c].kind = "ORDER" /\ charges[c].source = o
    <3> SUFFICES ASSUME NEW c \in DOMAIN charges, charges[c].kind = "ORDER", charges[c].source = o PROVE FALSE
      OBVIOUS
    <3>1. delivered[o] = [total |-> charges[c].amount, due |-> charges[c].due]
      BY DEF LedgerInv, Causes, ChargeCause
    <3>2. charges[c] \in ChargeRows
      <4>1. Now \in Books /\ Now.charges = charges
        BY DEF LedgerInv, Accounts, Sound, Now
      <4> QED
        BY <4>1, BooksFacts
    <3>3. [total |-> charges[c].amount, due |-> charges[c].due] \in OrderPapers
      BY <3>2 DEF ChargeRows, OrderPapers
    <3> QED
      BY <1>1, <3>1, <3>3, NoneIsNoPaper
  <2>2. PostCharge("ORDER", "CHARGE", o, total, today + days)
    BY <1>1, <1>3, <1>9, <2>1 DEF CreateOrderCharge
  <2>3. Grows(DeliveredOrders, DeliveredOrders', o)
    <3>1. o \notin DeliveredOrders
      BY <1>1 DEF DeliveredOrders
    <3>2. \A x \in Orders \ {o} : x \in DeliveredOrders' <=> x \in DeliveredOrders
      BY <1>5 DEF DeliveredOrders
    <3>3. o \in DeliveredOrders'
      BY <1>2, <1>3, <1>5, <1>9 DEF DeliveredOrders
    <3>4. DeliveredOrders \subseteq Orders /\ DeliveredOrders' \subseteq Orders
      BY DEF DeliveredOrders
    <3> QED
      BY <3>1, <3>2, <3>3, <3>4 DEF Grows
  <2>4. \A row : row.kind = "ORDER" /\ row.source = o /\ row.amount = total /\ row.due = today + days
                 => ChargeCause(delivered', adjustment', row)
    BY <1>4, <1>5 DEF ChargeCause
  <2>5. "CHARGE" \in Debits
    BY DEF Debits
  <2>6. LedgerInv' /\ InTurn(Now', Len(allocations)) /\ ChargesStay /\ CreditsStay
    BY <1>2, <1>3, <1>6, <1>7, <1>9, <2>2, <2>3, <2>4, <2>5, ChargeIsCounted
  <2> QED
    BY <1>6, <2>6 DEF GoodStep
<1> QED
  BY <1>8, <1>9

LEMMA DeliverAgainIsGood ==
    ASSUME LedgerInv, NEW o \in Orders, DeliverAgain(o)
    PROVE  GoodStep
<1>1. delivered[o] # None /\ CreateOrderCharge(o, delivered[o]) /\ UNCHANGED papers /\ today' = today
  BY DEF DeliverAgain
<1>2. delivered[o].total \in Nat /\ today \in Nat
  <2>1. delivered[o] \in OrderPapers /\ today \in Nat
    BY <1>1 DEF LedgerInv, PapersTypeOK
  <2> QED
    BY <2>1 DEF OrderPapers
<1>3. delivered[o].total = 0 \/ \E c \in DOMAIN charges : charges[c].kind = "ORDER" /\ charges[c].source = o
  <2>1. delivered[o].total # 0 => o \in DeliveredOrders
    BY <1>1, <1>2 DEF DeliveredOrders
  <2> QED
    BY <2>1 DEF LedgerInv, Presence, Posts
<1>4. UNCHANGED books
  BY <1>1, <1>3 DEF CreateOrderCharge
<1> QED
  BY <1>1, <1>2, <1>4, PapersUnchanged

\* A payment moves on, and with it the set of those that are confirmed.
LEMMA PaymentChanges ==
    ASSUME LedgerInv, NEW p \in Payments, ~IsConfirmed(p), NEW row \in PaymentPapers,
           payment' = [payment EXCEPT ![p] = row], UNCHANGED <<today, delivered, adjustment, note>>
    PROVE  /\ PapersTypeOK' /\ PapersStay
           /\ DeliveredOrders' = DeliveredOrders /\ ApprovedAdjustments' = ApprovedAdjustments
           /\ NotedReturns' = NotedReturns
           /\ row.status # "CONFIRMED" => ConfirmedPayments' = ConfirmedPayments
           /\ row.status = "CONFIRMED" => /\ Grows(ConfirmedPayments, ConfirmedPayments', p)
                                          /\ payment'[p] = row /\ row # None
<1>1. payment'[p] = row /\ (\A x \in Payments \ {p} : payment'[x] = payment[x]) /\ row # None
  BY NoneIsNoPaper DEF LedgerInv, PapersTypeOK
<1>2. PapersTypeOK' /\ PapersStay
  BY <1>1 DEF LedgerInv, PapersTypeOK, PapersStay
<1>3. /\ DeliveredOrders' = DeliveredOrders /\ ApprovedAdjustments' = ApprovedAdjustments
      /\ NotedReturns' = NotedReturns
  BY DEF DeliveredOrders, ApprovedAdjustments, NotedReturns, IsApproved
<1>4. \A x \in Payments \ {p} : x \in ConfirmedPayments' <=> x \in ConfirmedPayments
  BY <1>1 DEF ConfirmedPayments, IsConfirmed
<1>5. p \notin ConfirmedPayments /\ (p \in ConfirmedPayments' <=> row.status = "CONFIRMED")
  BY <1>1 DEF ConfirmedPayments, IsConfirmed
<1>6. ConfirmedPayments \subseteq Payments /\ ConfirmedPayments' \subseteq Payments
  BY DEF ConfirmedPayments
<1> QED
  BY <1>1, <1>2, <1>3, <1>4, <1>5, <1>6 DEF Grows

LEMMA PaymentIsConfirmed ==
    ASSUME LedgerInv, NEW p \in Payments, ~IsConfirmed(p), NEW row \in PaymentPapers, row.status = "CONFIRMED",
           payment' = [payment EXCEPT ![p] = row], UNCHANGED <<today, delivered, adjustment, note>>,
           PostCredit("PAYMENT", "PAYMENT", p, row.amount)
    PROVE  GoodStep
<1>1. /\ PapersTypeOK' /\ PapersStay
      /\ DeliveredOrders' = DeliveredOrders /\ ApprovedAdjustments' = ApprovedAdjustments
      /\ NotedReturns' = NotedReturns
      /\ Grows(ConfirmedPayments, ConfirmedPayments', p)
      /\ payment'[p] = row /\ row # None
  BY PaymentChanges
<1>2. row.amount \in Nat \ {0}
  BY NoneIsNoPaper DEF PaymentPapers
<1>3. \A r : r.kind = "PAYMENT" /\ r.source = p /\ r.amount = row.amount
             => CreditCause(payment', adjustment', note', r)
  BY <1>1 DEF CreditCause
<1>4. LedgerInv' /\ InTurn(Now', Len(allocations)) /\ ChargesStay /\ CreditsStay
  BY <1>1, <1>2, <1>3, CreditIsCounted
<1> QED
  BY <1>1, <1>4 DEF GoodStep

LEMMA RecordPaymentIsGood ==
    ASSUME LedgerInv, NEW p \in Payments, NEW amount \in Amounts, NEW confirm \in BOOLEAN,
           RecordPayment(p, amount, confirm)
    PROVE  GoodStep
<1> DEFINE row == [status |-> IF confirm THEN "CONFIRMED" ELSE "PENDING", amount |-> amount]
<1>1. /\ ~IsConfirmed(p) /\ payment' = [payment EXCEPT ![p] = row]
      /\ UNCHANGED <<today, delivered, adjustment, note>>
      /\ row.amount = amount
  BY DEF RecordPayment, IsConfirmed
<1>2. row \in PaymentPapers /\ (confirm <=> row.status = "CONFIRMED")
  BY DEF PaymentPapers
<1>3. IF confirm THEN PostCredit("PAYMENT", "PAYMENT", p, amount) ELSE UNCHANGED books
  BY DEF RecordPayment
<1> HIDE DEF row
<1>4. CASE confirm
  <2>1. PostCredit("PAYMENT", "PAYMENT", p, row.amount)
    BY <1>1, <1>3, <1>4
  <2> QED
    BY <1>1, <1>2, <1>4, <2>1, PaymentIsConfirmed
<1>5. CASE ~confirm
  <2>1. UNCHANGED books
    BY <1>3, <1>5
  <2> QED
    BY <1>1, <1>2, <1>5, <2>1, PaymentChanges, BooksUnchanged
<1> QED
  BY <1>4, <1>5

LEMMA PendingPaymentMoves ==
    ASSUME LedgerInv, NEW p \in Payments, PendingPayment(p), NEW status \in {"CONFIRMED", "REJECTED", "CANCELLED"},
           PaymentIs(p, status)
    PROVE  \E row \in PaymentPapers :
              /\ row.status = status /\ row.amount = payment[p].amount
              /\ payment' = [payment EXCEPT ![p] = row]
              /\ ~IsConfirmed(p) /\ UNCHANGED <<today, delivered, adjustment, note>>
<1> DEFINE row == [payment[p] EXCEPT !.status = status]
<1>1. payment[p] \in PaymentPapers
  BY DEF LedgerInv, PapersTypeOK, PendingPayment
<1>2. row \in PaymentPapers /\ row.status = status /\ row.amount = payment[p].amount
  BY <1>1 DEF PaymentPapers
<1>3. payment' = [payment EXCEPT ![p] = row] /\ UNCHANGED <<today, delivered, adjustment, note>>
  BY DEF PaymentIs
<1>4. ~IsConfirmed(p)
  BY DEF PendingPayment, IsConfirmed
<1> QED
  BY <1>2, <1>3, <1>4

LEMMA ConfirmPaymentIsGood ==
    ASSUME LedgerInv, NEW p \in Payments, ConfirmPayment(p)
    PROVE  GoodStep
<1>1. PendingPayment(p) /\ PaymentIs(p, "CONFIRMED") /\ PostCredit("PAYMENT", "PAYMENT", p, payment[p].amount)
  BY DEF ConfirmPayment
<1>2. PICK row \in PaymentPapers :
              /\ row.status = "CONFIRMED" /\ row.amount = payment[p].amount
              /\ payment' = [payment EXCEPT ![p] = row]
              /\ ~IsConfirmed(p) /\ UNCHANGED <<today, delivered, adjustment, note>>
  BY <1>1, PendingPaymentMoves
<1>3. PostCredit("PAYMENT", "PAYMENT", p, row.amount)
  BY <1>1, <1>2
<1> QED
  BY <1>2, <1>3, PaymentIsConfirmed

LEMMA FinishPaymentIsGood ==
    ASSUME LedgerInv, NEW p \in Payments, NEW status \in {"REJECTED", "CANCELLED"}, FinishPayment(p, status)
    PROVE  GoodStep
<1>1. PendingPayment(p) /\ PaymentIs(p, status) /\ UNCHANGED books
  BY DEF FinishPayment
<1>2. PICK row \in PaymentPapers :
              /\ row.status = status /\ row.amount = payment[p].amount
              /\ payment' = [payment EXCEPT ![p] = row]
              /\ ~IsConfirmed(p) /\ UNCHANGED <<today, delivered, adjustment, note>>
  BY <1>1, PendingPaymentMoves
<1>3. row.status # "CONFIRMED"
  BY <1>2
<1> QED
  BY <1>1, <1>2, <1>3, PaymentChanges, BooksUnchanged

LEMMA CreateCreditNoteIsGood ==
    ASSUME LedgerInv, NEW r \in Returns, NEW amount \in Amounts, CreateCreditNote(r, amount)
    PROVE  GoodStep
<1>1. CASE note[r] = amount /\ UNCHANGED ledgerVars
  <2>1. UNCHANGED papers /\ UNCHANGED books /\ today' \in Nat
    BY <1>1 DEF ledgerVars, papers, books, LedgerInv, PapersTypeOK
  <2> QED
    BY <2>1, PapersUnchanged
<1>2. CASE /\ note[r] = None /\ note' = [note EXCEPT ![r] = amount]
           /\ PostCredit("CREDIT_NOTE", "CREDIT_NOTE", r, amount)
           /\ UNCHANGED <<today, delivered, payment, adjustment>>
  <2>1. note'[r] = amount /\ (\A x \in Returns \ {r} : note'[x] = note[x]) /\ amount # None /\ amount \in Nat \ {0}
    BY <1>2, NoneIsNoPaper DEF LedgerInv, PapersTypeOK
  <2>2. PapersTypeOK' /\ PapersStay
    BY <1>2, <2>1 DEF LedgerInv, PapersTypeOK, PapersStay
  <2>3. /\ DeliveredOrders' = DeliveredOrders /\ ApprovedAdjustments' = ApprovedAdjustments
        /\ ConfirmedPayments' = ConfirmedPayments
    BY <1>2 DEF DeliveredOrders, ApprovedAdjustments, ConfirmedPayments, IsApproved, IsConfirmed
  <2>4. Grows(NotedReturns, NotedReturns', r)
    BY <1>2, <2>1 DEF NotedReturns, Grows
  <2>5. \A row : row.kind = "CREDIT_NOTE" /\ row.source = r /\ row.amount = amount
                 => CreditCause(payment', adjustment', note', row)
    BY <2>1 DEF CreditCause
  <2>6. LedgerInv' /\ InTurn(Now', Len(allocations)) /\ ChargesStay /\ CreditsStay
    BY <1>2, <2>1, <2>2, <2>3, <2>4, <2>5, CreditIsCounted
  <2> QED
    BY <2>2, <2>6 DEF GoodStep
<1> QED
  BY <1>1, <1>2 DEF CreateCreditNote

\* An adjustment is created or decided.
LEMMA AdjustmentChanges ==
    ASSUME LedgerInv, NEW a \in Adjustments, ~IsApproved(a), NEW row \in AdjustmentPapers,
           adjustment' = [adjustment EXCEPT ![a] = row], UNCHANGED <<today, delivered, payment, note>>
    PROVE  /\ PapersTypeOK' /\ PapersStay
           /\ DeliveredOrders' = DeliveredOrders /\ ConfirmedPayments' = ConfirmedPayments
           /\ NotedReturns' = NotedReturns
           /\ row.status # "APPROVED" => ApprovedAdjustments' = ApprovedAdjustments
           /\ row.status = "APPROVED" => Grows(ApprovedAdjustments, ApprovedAdjustments', a)
           /\ adjustment'[a] = row /\ row # None
<1>1. adjustment'[a] = row /\ (\A x \in Adjustments \ {a} : adjustment'[x] = adjustment[x]) /\ row # None
  BY NoneIsNoPaper DEF LedgerInv, PapersTypeOK
<1>2. PapersTypeOK' /\ PapersStay
  BY <1>1 DEF LedgerInv, PapersTypeOK, PapersStay
<1>3. /\ DeliveredOrders' = DeliveredOrders /\ ConfirmedPayments' = ConfirmedPayments
      /\ NotedReturns' = NotedReturns
  BY DEF DeliveredOrders, ConfirmedPayments, NotedReturns, IsConfirmed
<1>4. \A x \in Adjustments \ {a} : x \in ApprovedAdjustments' <=> x \in ApprovedAdjustments
  BY <1>1 DEF ApprovedAdjustments, IsApproved
<1>5. a \notin ApprovedAdjustments /\ (a \in ApprovedAdjustments' <=> row.status = "APPROVED")
  BY <1>1 DEF ApprovedAdjustments, IsApproved
<1>6. ApprovedAdjustments \subseteq Adjustments /\ ApprovedAdjustments' \subseteq Adjustments
  BY DEF ApprovedAdjustments
<1> QED
  BY <1>1, <1>2, <1>3, <1>4, <1>5, <1>6 DEF Grows

LEMMA AdjustmentIsApproved ==
    ASSUME LedgerInv, NEW a \in Adjustments, ~IsApproved(a), NEW row \in AdjustmentPapers, row.status = "APPROVED",
           adjustment' = [adjustment EXCEPT ![a] = row], UNCHANGED <<today, delivered, payment, note>>,
           PostAdjustment(a, row.type, row.amount)
    PROVE  GoodStep /\ (row.type = "CREDIT" => Posts(credits', "ADJUSTMENT", a))
<1>1. /\ PapersTypeOK' /\ PapersStay
      /\ DeliveredOrders' = DeliveredOrders /\ ConfirmedPayments' = ConfirmedPayments
      /\ NotedReturns' = NotedReturns
      /\ Grows(ApprovedAdjustments, ApprovedAdjustments', a)
      /\ adjustment'[a] = row /\ row # None
  BY AdjustmentChanges
<1>2. row.amount \in Nat \ {0} /\ today \in Nat
  BY NoneIsNoPaper DEF AdjustmentPapers, LedgerInv, PapersTypeOK
<1>3. CASE row.type = "CREDIT" /\ PostCredit("ADJUSTMENT", "ADJUSTMENT_CREDIT", a, row.amount)
  <2>1. \A r : r.kind = "ADJUSTMENT" /\ r.source = a /\ r.amount = row.amount
               => CreditCause(payment', adjustment', note', r)
    BY <1>1, <1>3 DEF CreditCause
  <2>2. /\ LedgerInv' /\ InTurn(Now', Len(allocations)) /\ ChargesStay /\ CreditsStay
        /\ Posts(credits', "ADJUSTMENT", a)
    BY <1>1, <1>2, <1>3, <2>1, CreditIsCounted
  <2> QED
    BY <1>1, <2>2 DEF GoodStep
<1>4. ASSUME NEW kind \in {"ADJUSTMENT", "REFUND"}, NEW type \in Debits,
             row.type = IF kind = "REFUND" THEN "REFUND" ELSE "DEBIT",
             kind = "REFUND" => row.amount <= UnappliedCredit,
             PostCharge(kind, type, a, row.amount, today)
      PROVE  GoodStep
  <2>1. \A r : r.kind = kind /\ r.source = a /\ r.amount = row.amount /\ r.due = today
               => ChargeCause(delivered', adjustment', r)
    BY <1>1, <1>4 DEF ChargeCause
  <2>2. kind # "ORDER" /\ kind \in {"ORDER", "ADJUSTMENT", "REFUND"}
    OBVIOUS
  <2>3. LedgerInv' /\ InTurn(Now', Len(allocations)) /\ ChargesStay /\ CreditsStay
    BY <1>1, <1>2, <1>4, <2>1, <2>2, ChargeIsCounted
  <2> QED
    BY <1>1, <2>3 DEF GoodStep
<1>5. CASE row.type = "DEBIT" /\ PostCharge("ADJUSTMENT", "ADJUSTMENT_DEBIT", a, row.amount, today)
  BY <1>4, <1>5 DEF Debits
<1>6. CASE row.type = "REFUND" /\ row.amount <= UnappliedCredit /\ PostCharge("REFUND", "REFUND", a, row.amount, today)
  BY <1>4, <1>6 DEF Debits
<1> QED
  BY <1>3, <1>5, <1>6 DEF PostAdjustment

LEMMA CreateAdjustmentIsGood ==
    ASSUME LedgerInv, NEW a \in Adjustments, NEW type \in AdjustmentTypes, NEW amount \in Amounts,
           NEW source \in Orders \cup {None}, NEW byOwner \in BOOLEAN,
           CreateAdjustment(a, type, amount, source, byOwner)
    PROVE  /\ GoodStep
           /\ adjustment[a] = None
           /\ adjustment'[a] = [status |-> IF byOwner THEN "APPROVED" ELSE "PENDING_APPROVAL",
                                type |-> type, amount |-> amount, source |-> source]
           /\ adjustment'[a] # None
           /\ \A x \in Adjustments \ {a} : adjustment'[x] = adjustment[x]
           /\ delivered' = delivered
           /\ byOwner /\ type = "CREDIT" => Posts(credits', "ADJUSTMENT", a)
<1> DEFINE row == [status |-> IF byOwner THEN "APPROVED" ELSE "PENDING_APPROVAL",
                   type |-> type, amount |-> amount, source |-> source]
<1>1. /\ adjustment[a] = None /\ ~IsApproved(a) /\ adjustment' = [adjustment EXCEPT ![a] = row]
      /\ UNCHANGED <<today, delivered, payment, note>>
      /\ row.amount = amount /\ row.type = type
  BY DEF CreateAdjustment, IsApproved
<1>2. row \in AdjustmentPapers /\ (byOwner <=> row.status = "APPROVED")
  BY DEF AdjustmentPapers
<1>3. IF byOwner THEN PostAdjustment(a, type, amount) ELSE UNCHANGED books
  BY DEF CreateAdjustment
<1>4. row = [status |-> IF byOwner THEN "APPROVED" ELSE "PENDING_APPROVAL",
             type |-> type, amount |-> amount, source |-> source]
  OBVIOUS
<1> HIDE DEF row
<1>5. adjustment'[a] = row /\ row # None /\ \A x \in Adjustments \ {a} : adjustment'[x] = adjustment[x]
  BY <1>1, <1>2, NoneIsNoPaper DEF LedgerInv, PapersTypeOK
<1>6. CASE byOwner
  <2>1. PostAdjustment(a, row.type, row.amount)
    BY <1>1, <1>3, <1>6
  <2>2. GoodStep /\ (row.type = "CREDIT" => Posts(credits', "ADJUSTMENT", a))
    BY <1>1, <1>2, <1>6, <2>1, AdjustmentIsApproved
  <2> QED
    BY <1>1, <1>4, <1>5, <2>2
<1>7. CASE ~byOwner
  <2>1. UNCHANGED books
    BY <1>3, <1>7
  <2>2. GoodStep
    BY <1>1, <1>2, <1>7, <2>1, AdjustmentChanges, BooksUnchanged
  <2> QED
    BY <1>1, <1>4, <1>5, <1>7, <2>2
<1> QED
  BY <1>6, <1>7

LEMMA DecideAdjustmentIsGood ==
    ASSUME LedgerInv, NEW a \in Adjustments, NEW status \in {"APPROVED", "REJECTED"}, DecideAdjustment(a, status)
    PROVE  /\ GoodStep
           /\ adjustment'[a] # None /\ adjustment'[a].status = status
           /\ adjustment'[a].type = adjustment[a].type /\ adjustment'[a].source = adjustment[a].source
           /\ adjustment'[a].amount = adjustment[a].amount
           /\ \A x \in Adjustments \ {a} : adjustment'[x] = adjustment[x]
           /\ delivered' = delivered
           /\ status = "APPROVED" /\ adjustment[a].type = "CREDIT" => Posts(credits', "ADJUSTMENT", a)
<1> DEFINE row == [adjustment[a] EXCEPT !.status = status]
<1>1. AwaitsApproval(a) /\ adjustment' = [adjustment EXCEPT ![a] = row] /\ UNCHANGED <<today, delivered, payment, note>>
  BY DEF DecideAdjustment
<1>2. adjustment[a] \in AdjustmentPapers /\ ~IsApproved(a)
  BY <1>1 DEF LedgerInv, PapersTypeOK, AwaitsApproval, IsApproved
<1>3. /\ row \in AdjustmentPapers /\ row.status = status /\ row.amount = adjustment[a].amount
      /\ row.type = adjustment[a].type /\ row.source = adjustment[a].source
  BY <1>2 DEF AdjustmentPapers
<1>4. IF status = "APPROVED" THEN PostAdjustment(a, adjustment[a].type, adjustment[a].amount) ELSE UNCHANGED books
  BY DEF DecideAdjustment
<1> HIDE DEF row
<1>5. adjustment'[a] = row /\ row # None /\ \A x \in Adjustments \ {a} : adjustment'[x] = adjustment[x]
  BY <1>1, <1>3, NoneIsNoPaper DEF LedgerInv, PapersTypeOK
<1>6. CASE status = "APPROVED"
  <2>1. PostAdjustment(a, row.type, row.amount)
    BY <1>3, <1>4, <1>6
  <2>2. GoodStep /\ (row.type = "CREDIT" => Posts(credits', "ADJUSTMENT", a))
    BY <1>1, <1>2, <1>3, <1>6, <2>1, AdjustmentIsApproved
  <2> QED
    BY <1>1, <1>3, <1>5, <2>2
<1>7. CASE status # "APPROVED"
  <2>1. UNCHANGED books
    BY <1>4, <1>7
  <2>2. GoodStep
    BY <1>1, <1>2, <1>3, <1>7, <2>1, AdjustmentChanges, BooksUnchanged
  <2> QED
    BY <1>1, <1>3, <1>5, <1>7, <2>2
<1> QED
  BY <1>6, <1>7

LEMMA MoneyMovesIsGood ==
    ASSUME LedgerInv, MoneyMoves
    PROVE  GoodStep /\ adjustment' = adjustment
<1>1. ASSUME NEW o \in Orders, NEW total \in Amounts \cup {0}, NEW days \in CreditDays, Deliver(o, total, days)
      PROVE  GoodStep /\ adjustment' = adjustment
  BY <1>1, DeliverIsGood DEF Deliver
<1>2. ASSUME NEW o \in Orders, DeliverAgain(o)
      PROVE  GoodStep /\ adjustment' = adjustment
  BY <1>2, DeliverAgainIsGood DEF DeliverAgain, papers
<1>3. ASSUME NEW p \in Payments, NEW amount \in Amounts, NEW confirm \in BOOLEAN, RecordPayment(p, amount, confirm)
      PROVE  GoodStep /\ adjustment' = adjustment
  BY <1>3, RecordPaymentIsGood DEF RecordPayment
<1>4. ASSUME NEW p \in Payments, ConfirmPayment(p)
      PROVE  GoodStep /\ adjustment' = adjustment
  BY <1>4, ConfirmPaymentIsGood DEF ConfirmPayment, PaymentIs
<1>5. ASSUME NEW p \in Payments, NEW status \in {"REJECTED", "CANCELLED"}, FinishPayment(p, status)
      PROVE  GoodStep /\ adjustment' = adjustment
  BY <1>5, FinishPaymentIsGood DEF FinishPayment, PaymentIs
<1>6. ASSUME NEW r \in Returns, NEW amount \in Amounts, CreateCreditNote(r, amount)
      PROVE  GoodStep /\ adjustment' = adjustment
  BY <1>6, CreateCreditNoteIsGood DEF CreateCreditNote, ledgerVars, papers
<1>7. ASSUME NextDay PROVE GoodStep /\ adjustment' = adjustment
  <2>1. today' \in Nat /\ UNCHANGED papers /\ UNCHANGED books
    BY <1>7 DEF NextDay, LedgerInv, PapersTypeOK
  <2> QED
    BY <2>1, PapersUnchanged DEF papers
<1> QED
  BY <1>1, <1>2, <1>3, <1>4, <1>5, <1>6, <1>7 DEF MoneyMoves
-----------------------------------------------------------------------------
(***************************************************************************)
(* The disputes.                                                           *)
(***************************************************************************)
DisputeRows == [status : {"OPEN", "UNDER_REVIEW", "RESOLVED", "REJECTED", "WITHDRAWN"},
                resolution : Resolutions \cup {None},
                pending : Adjustments \cup {None}, credit : Adjustments \cup {None}]

IsOpenRow(row) == row # None /\ row.status \in OpenStatuses

CreditFor(orders, adjustments, o, a) ==
    /\ adjustments[a].type = "CREDIT" /\ adjustments[a].source = o
    /\ adjustments[a].amount <= orders[o].total

DisputeOK(orders, adjustments, posted, o, row) ==
    row # None =>
        /\ orders[o] # None
        /\ IsOpenRow(row) => (row.pending = None <=> row.resolution = None) /\ row.resolution # "NO_ACTION"
        /\ IsOpenRow(row) /\ row.pending # None =>
              /\ adjustments[row.pending] # None /\ adjustments[row.pending].status = "PENDING_APPROVAL"
              /\ CreditFor(orders, adjustments, o, row.pending)
        /\ row.credit # None <=> (row.status = "RESOLVED" /\ row.resolution = "ADJUSTMENT_CREDIT")
        /\ row.credit # None =>
              CreditFor(orders, adjustments, o, row.credit) /\ Posts(posted, "ADJUSTMENT", row.credit)

DisputeInv ==
    /\ dispute \in [Orders -> DisputeRows \cup {None}]
    /\ \A o \in Orders : DisputeOK(delivered, adjustment, credits, o, dispute[o])

Inv == LedgerInv /\ DisputeInv

LEMMA PostedIsApproved ==
    ASSUME LedgerInv, NEW a, Posts(credits, "ADJUSTMENT", a)
    PROVE  a \in Adjustments /\ IsApproved(a)
<1> PICK k \in DOMAIN credits : credits[k].kind = "ADJUSTMENT" /\ credits[k].source = a
  BY DEF Posts
<1> QED
  BY DEF LedgerInv, Causes, CreditCause, IsApproved

\* Nothing but its own adjustment can disturb a dispute.
LEMMA DisputeStaysOK ==
    ASSUME LedgerInv, GoodStep, NEW o \in Orders, NEW row, DisputeOK(delivered, adjustment, credits, o, row),
           IsOpenRow(row) /\ row.pending # None => adjustment'[row.pending] = adjustment[row.pending]
    PROVE  DisputeOK(delivered', adjustment', credits', o, row)
<1> SUFFICES ASSUME row # None PROVE DisputeOK(delivered', adjustment', credits', o, row)
  BY DEF DisputeOK
<1>1. delivered[o] # None /\ delivered'[o] = delivered[o]
  BY DEF GoodStep, PapersStay, DisputeOK
<1>2. IsOpenRow(row) /\ row.pending # None =>
              /\ adjustment'[row.pending] # None /\ adjustment'[row.pending].status = "PENDING_APPROVAL"
              /\ CreditFor(delivered', adjustment', o, row.pending)
  BY <1>1 DEF DisputeOK, CreditFor
<1>3. ASSUME row.credit # None
      PROVE  CreditFor(delivered', adjustment', o, row.credit) /\ Posts(credits', "ADJUSTMENT", row.credit)
  <2>1. CreditFor(delivered, adjustment, o, row.credit) /\ Posts(credits, "ADJUSTMENT", row.credit)
    BY <1>3 DEF DisputeOK
  <2>2. row.credit \in Adjustments /\ IsApproved(row.credit)
    BY <2>1, PostedIsApproved
  <2>3. adjustment'[row.credit] = adjustment[row.credit]
    BY <2>2 DEF GoodStep, PapersStay
  <2>4. Posts(credits', "ADJUSTMENT", row.credit)
    BY <2>1 DEF GoodStep, CreditsStay, SameCredit, Posts
  <2> QED
    BY <1>1, <2>1, <2>3, <2>4 DEF CreditFor
<1> QED
  BY <1>1, <1>2, <1>3 DEF DisputeOK

\* A step of the ledger that touches no adjustment a dispute waits for.
LEMMA LedgerStepKeepsDisputes ==
    ASSUME Inv, GoodStep, dispute' = dispute,
           \A a \in Adjustments : adjustment[a] # None => adjustment'[a] = adjustment[a]
    PROVE  Inv'
<1>1. ASSUME NEW o \in Orders
      PROVE  DisputeOK(delivered', adjustment', credits', o, dispute[o])
  <2>1. DisputeOK(delivered, adjustment, credits, o, dispute[o]) /\ dispute[o] \in DisputeRows \cup {None}
    BY DEF Inv, DisputeInv
  <2>2. IsOpenRow(dispute[o]) /\ dispute[o].pending # None
        => adjustment'[dispute[o].pending] = adjustment[dispute[o].pending]
    BY <2>1 DEF IsOpenRow, DisputeOK, DisputeRows
  <2> QED
    BY <2>1, <2>2, DisputeStaysOK DEF Inv
<1> QED
  BY <1>1 DEF Inv, DisputeInv, GoodStep

LEMMA LedgerUnchanged ==
    ASSUME LedgerInv, UNCHANGED ledgerVars
    PROVE  GoodStep
BY PapersUnchanged DEF ledgerVars, LedgerInv, PapersTypeOK

\* A step that changes one dispute.
LEMMA OneDisputeChanges ==
    ASSUME Inv, GoodStep, NEW o \in Orders, NEW row \in DisputeRows,
           dispute' = [dispute EXCEPT ![o] = row],
           DisputeOK(delivered', adjustment', credits', o, row),
           \A a \in Adjustments : adjustment[a] # None => adjustment'[a] = adjustment[a]
    PROVE  Inv'
<1>1. ASSUME NEW x \in Orders
      PROVE  DisputeOK(delivered', adjustment', credits', x, dispute'[x])
  <2>1. CASE x = o
    BY <2>1 DEF Inv, DisputeInv
  <2>2. CASE x # o
    <3>1. DisputeOK(delivered, adjustment, credits, x, dispute[x]) /\ dispute[x] \in DisputeRows \cup {None}
      BY DEF Inv, DisputeInv
    <3>2. IsOpenRow(dispute[x]) /\ dispute[x].pending # None
          => adjustment'[dispute[x].pending] = adjustment[dispute[x].pending]
      BY <3>1 DEF IsOpenRow, DisputeOK, DisputeRows
    <3>3. DisputeOK(delivered', adjustment', credits', x, dispute[x])
      BY <3>1, <3>2, DisputeStaysOK DEF Inv
    <3> QED
      BY <2>2, <3>3 DEF Inv, DisputeInv
  <2> QED
    BY <2>1, <2>2
<1>2. dispute' \in [Orders -> DisputeRows \cup {None}]
  BY DEF Inv, DisputeInv
<1> QED
  BY <1>1, <1>2 DEF Inv, DisputeInv, GoodStep

LEMMA OpenFacts ==
    ASSUME Inv, NEW o \in Orders, IsOpen(o)
    PROVE  /\ dispute[o] # None /\ dispute[o] \in DisputeRows /\ IsOpenRow(dispute[o])
           /\ dispute[o].credit = None /\ delivered[o] # None
           /\ DisputeOK(delivered, adjustment, credits, o, dispute[o])
<1>1. /\ dispute[o] # None /\ dispute[o] \in DisputeRows /\ IsOpenRow(dispute[o])
      /\ DisputeOK(delivered, adjustment, credits, o, dispute[o])
  BY DEF Inv, DisputeInv, IsOpen, IsOpenRow
<1> QED
  BY <1>1 DEF DisputeOK, IsOpenRow, OpenStatuses

LEMMA OpenKeepsInv ==
    ASSUME Inv, NEW o \in Orders, Open(o)
    PROVE  Inv' /\ GoodStep
<1> DEFINE row == [status |-> "OPEN", resolution |-> None, pending |-> None, credit |-> None]
<1>1. delivered[o] # None /\ dispute' = [dispute EXCEPT ![o] = row] /\ UNCHANGED ledgerVars
  BY DEF Open
<1>2. row \in DisputeRows
  BY DEF DisputeRows
<1>3. GoodStep /\ delivered' = delivered /\ adjustment' = adjustment
  BY <1>1, LedgerUnchanged DEF Inv, ledgerVars, papers
<1>4. DisputeOK(delivered', adjustment', credits', o, row)
  BY <1>1, <1>3, DisputesAssumption DEF DisputeOK, Resolutions
<1> HIDE DEF row
<1> QED
  BY <1>1, <1>2, <1>3, <1>4, OneDisputeChanges

LEMMA StartReviewKeepsInv ==
    ASSUME Inv, NEW o \in Orders, StartReview(o)
    PROVE  Inv' /\ GoodStep
<1> DEFINE row == [dispute[o] EXCEPT !.status = "UNDER_REVIEW"]
<1>1. IsOpen(o) /\ dispute' = [dispute EXCEPT ![o] = row] /\ UNCHANGED ledgerVars
  BY DEF StartReview, IsOpen, OpenStatuses
<1>2. /\ dispute[o] # None /\ dispute[o] \in DisputeRows /\ IsOpenRow(dispute[o])
      /\ dispute[o].credit = None /\ delivered[o] # None
      /\ DisputeOK(delivered, adjustment, credits, o, dispute[o])
  BY <1>1, OpenFacts
<1>3. /\ row \in DisputeRows /\ row.status = "UNDER_REVIEW" /\ row.resolution = dispute[o].resolution
      /\ row.pending = dispute[o].pending /\ row.credit = None
  BY <1>2 DEF DisputeRows
<1> HIDE DEF row
<1>4. GoodStep /\ delivered' = delivered /\ adjustment' = adjustment /\ credits' = credits
  BY <1>1, LedgerUnchanged DEF Inv, ledgerVars, papers, books
<1>5. DisputeOK(delivered', adjustment', credits', o, row)
  BY <1>2, <1>3, <1>4 DEF DisputeOK, IsOpenRow
<1> QED
  BY <1>1, <1>3, <1>4, <1>5, OneDisputeChanges

LEMMA ResolveKeepsInv ==
    ASSUME Inv, NEW o \in Orders, Resolve(o)
    PROVE  Inv' /\ GoodStep
<1> DEFINE row == [dispute[o] EXCEPT !.status = "RESOLVED", !.resolution = "NO_ACTION"]
<1>1. IsOpen(o) /\ dispute' = [dispute EXCEPT ![o] = row] /\ UNCHANGED ledgerVars
  BY DEF Resolve
<1>2. dispute[o] \in DisputeRows /\ dispute[o].credit = None /\ delivered[o] # None
  BY <1>1, OpenFacts
<1>3. row \in DisputeRows /\ row.status = "RESOLVED" /\ row.resolution = "NO_ACTION" /\ row.credit = None
  BY <1>2 DEF DisputeRows, Resolutions
<1> HIDE DEF row
<1>4. GoodStep /\ delivered' = delivered /\ adjustment' = adjustment
  BY <1>1, LedgerUnchanged DEF Inv, ledgerVars, papers
<1>5. DisputeOK(delivered', adjustment', credits', o, row)
  BY <1>2, <1>3, <1>4 DEF DisputeOK, IsOpenRow, OpenStatuses
<1> QED
  BY <1>1, <1>3, <1>4, <1>5, OneDisputeChanges

LEMMA CloseKeepsInv ==
    ASSUME Inv, NEW o \in Orders, NEW status \in {"REJECTED", "WITHDRAWN"}, Close(o, status)
    PROVE  Inv' /\ GoodStep
<1> DEFINE row == [dispute[o] EXCEPT !.status = status]
<1>1. IsOpen(o) /\ dispute' = [dispute EXCEPT ![o] = row] /\ UNCHANGED ledgerVars
  BY DEF Close
<1>2. dispute[o] \in DisputeRows /\ dispute[o].credit = None /\ delivered[o] # None
  BY <1>1, OpenFacts
<1>3. row \in DisputeRows /\ row.status = status /\ row.credit = None
  BY <1>2 DEF DisputeRows
<1> HIDE DEF row
<1>4. GoodStep /\ delivered' = delivered /\ adjustment' = adjustment
  BY <1>1, LedgerUnchanged DEF Inv, ledgerVars, papers
<1>5. DisputeOK(delivered', adjustment', credits', o, row)
  BY <1>2, <1>3, <1>4 DEF DisputeOK, IsOpenRow, OpenStatuses
<1> QED
  BY <1>1, <1>3, <1>4, <1>5, OneDisputeChanges

LEMMA SettleKeepsInv ==
    ASSUME Inv, NEW o \in Orders, NEW a \in Adjustments, NEW amount \in Amounts, NEW byOwner \in BOOLEAN,
           SettleWithCredit(o, a, amount, byOwner)
    PROVE  Inv' /\ GoodStep
<1> DEFINE granted == [dispute[o] EXCEPT !.status = "RESOLVED", !.resolution = "ADJUSTMENT_CREDIT", !.credit = a]
           waiting == [dispute[o] EXCEPT !.status = "UNDER_REVIEW", !.resolution = "ADJUSTMENT_CREDIT", !.pending = a]
<1>1. /\ IsOpen(o) /\ amount <= delivered[o].total /\ CreateAdjustment(a, "CREDIT", amount, o, byOwner)
      /\ dispute' = [dispute EXCEPT ![o] = IF byOwner THEN granted ELSE waiting]
  BY DEF SettleWithCredit
<1>2. dispute[o] \in DisputeRows /\ dispute[o].credit = None /\ delivered[o] # None
  BY <1>1, OpenFacts
<1>3. /\ GoodStep /\ adjustment[a] = None
      /\ adjustment'[a] = [status |-> IF byOwner THEN "APPROVED" ELSE "PENDING_APPROVAL",
                           type |-> "CREDIT", amount |-> amount, source |-> o]
      /\ adjustment'[a] # None
      /\ \A x \in Adjustments \ {a} : adjustment'[x] = adjustment[x]
      /\ delivered' = delivered
      /\ byOwner => Posts(credits', "ADJUSTMENT", a)
  BY <1>1, CreateAdjustmentIsGood DEF Inv, AdjustmentTypes
<1>4. CreditFor(delivered', adjustment', o, a) /\ a # None /\ "ADJUSTMENT_CREDIT" # None
  BY <1>1, <1>3, LedgerAssumption, DisputesAssumption DEF CreditFor, Resolutions
<1>5. \A x \in Adjustments : adjustment[x] # None => adjustment'[x] = adjustment[x]
  BY <1>3
<1>6. /\ granted \in DisputeRows /\ granted.status = "RESOLVED" /\ granted.resolution = "ADJUSTMENT_CREDIT"
      /\ granted.credit = a
  BY <1>2 DEF DisputeRows, Resolutions
<1>7. /\ waiting \in DisputeRows /\ waiting.status = "UNDER_REVIEW" /\ waiting.resolution = "ADJUSTMENT_CREDIT"
      /\ waiting.pending = a /\ waiting.credit = None
  BY <1>2 DEF DisputeRows, Resolutions
<1> HIDE DEF granted, waiting
<1>8. CASE byOwner
  <2>1. DisputeOK(delivered', adjustment', credits', o, granted)
    BY <1>2, <1>3, <1>4, <1>6, <1>8 DEF DisputeOK, IsOpenRow, OpenStatuses
  <2>2. dispute' = [dispute EXCEPT ![o] = granted]
    BY <1>1, <1>8
  <2> QED
    BY <1>3, <1>5, <1>6, <2>1, <2>2, OneDisputeChanges
<1>9. CASE ~byOwner
  <2>1. adjustment'[a].status = "PENDING_APPROVAL"
    BY <1>3, <1>9
  <2>2. DisputeOK(delivered', adjustment', credits', o, waiting)
    BY <1>2, <1>3, <1>4, <1>7, <2>1 DEF DisputeOK, IsOpenRow, OpenStatuses
  <2>3. dispute' = [dispute EXCEPT ![o] = waiting]
    BY <1>1, <1>9
  <2> QED
    BY <1>3, <1>5, <1>7, <2>2, <2>3, OneDisputeChanges
<1> QED
  BY <1>8, <1>9

LEMMA DecideKeepsInv ==
    ASSUME Inv, NEW a \in Adjustments, NEW status \in {"APPROVED", "REJECTED"}, Decide(a, status)
    PROVE  Inv' /\ GoodStep
<1>1. DecideAdjustment(a, status) /\ AdjustmentDecided(a, status)
  BY DEF Decide
<1>2. /\ GoodStep /\ adjustment'[a] # None /\ adjustment'[a].status = status
      /\ adjustment'[a].type = adjustment[a].type /\ adjustment'[a].source = adjustment[a].source
      /\ adjustment'[a].amount = adjustment[a].amount
      /\ \A x \in Adjustments \ {a} : adjustment'[x] = adjustment[x]
      /\ delivered' = delivered
      /\ status = "APPROVED" /\ adjustment[a].type = "CREDIT" => Posts(credits', "ADJUSTMENT", a)
  BY <1>1, DecideAdjustmentIsGood DEF Inv
<1>3. a # None /\ "ADJUSTMENT_CREDIT" # None
  BY LedgerAssumption, DisputesAssumption DEF Resolutions
<1>4. ASSUME NEW o \in Orders
      PROVE  dispute'[o] \in DisputeRows \cup {None} /\ DisputeOK(delivered', adjustment', credits', o, dispute'[o])
  <2>1. DisputeOK(delivered, adjustment, credits, o, dispute[o]) /\ dispute[o] \in DisputeRows \cup {None}
    BY DEF Inv, DisputeInv
  <2>2. CASE ~(IsOpen(o) /\ dispute[o].pending = a)
    <3>1. dispute'[o] = dispute[o]
      BY <1>1, <2>2 DEF AdjustmentDecided
    <3>2. IsOpenRow(dispute[o]) /\ dispute[o].pending # None
          => adjustment'[dispute[o].pending] = adjustment[dispute[o].pending]
      BY <1>2, <2>1, <2>2 DEF IsOpenRow, IsOpen, DisputeRows
    <3>3. DisputeOK(delivered', adjustment', credits', o, dispute[o])
      BY <1>2, <2>1, <3>2, DisputeStaysOK DEF Inv
    <3> QED
      BY <2>1, <3>1, <3>3
  <2>3. CASE IsOpen(o) /\ dispute[o].pending = a /\ status = "APPROVED"
    <3> DEFINE row == [dispute[o] EXCEPT !.status = "RESOLVED", !.pending = None, !.credit = a]
    <3>1. dispute'[o] = row
      BY <1>1, <2>3 DEF AdjustmentDecided
    <3>2. /\ dispute[o] \in DisputeRows /\ IsOpenRow(dispute[o]) /\ delivered[o] # None
          /\ DisputeOK(delivered, adjustment, credits, o, dispute[o]) /\ dispute[o] # None
      BY <2>3, OpenFacts
    <3>3. dispute[o].resolution # None /\ CreditFor(delivered, adjustment, o, a)
      BY <1>3, <2>3, <3>2 DEF DisputeOK
    <3>4. /\ row \in DisputeRows /\ row.status = "RESOLVED" /\ row.resolution = dispute[o].resolution
          /\ row.credit = a
      BY <3>2 DEF DisputeRows
    <3> HIDE DEF row
    <3>5. CreditFor(delivered', adjustment', o, a) /\ Posts(credits', "ADJUSTMENT", a)
      BY <1>2, <2>3, <3>3 DEF CreditFor
    <3>6. DisputeOK(delivered', adjustment', credits', o, row)
      <4>1. dispute[o].resolution = "ADJUSTMENT_CREDIT"
        BY <3>2, <3>3 DEF DisputeOK, DisputeRows, Resolutions
      <4> QED
        BY <1>2, <1>3, <3>2, <3>3, <3>4, <3>5, <4>1 DEF DisputeOK, IsOpenRow, OpenStatuses
    <3> QED
      BY <3>1, <3>4, <3>6
  <2>4. CASE IsOpen(o) /\ dispute[o].pending = a /\ status # "APPROVED"
    <3> DEFINE row == [dispute[o] EXCEPT !.pending = None, !.resolution = None]
    <3>1. dispute'[o] = row
      BY <1>1, <2>4 DEF AdjustmentDecided
    <3>2. /\ dispute[o] \in DisputeRows /\ IsOpenRow(dispute[o]) /\ delivered[o] # None /\ dispute[o].credit = None
      BY <2>4, OpenFacts
    <3>3. /\ row \in DisputeRows /\ row.status = dispute[o].status /\ row.resolution = None
          /\ row.pending = None /\ row.credit = None
      BY <3>2 DEF DisputeRows
    <3> HIDE DEF row
    <3>4. DisputeOK(delivered', adjustment', credits', o, row)
      BY <1>2, <3>2, <3>3, DisputesAssumption DEF DisputeOK, IsOpenRow, OpenStatuses, Resolutions
    <3> QED
      BY <3>1, <3>3, <3>4
  <2> QED
    BY <2>2, <2>3, <2>4
<1>5. dispute' \in [Orders -> DisputeRows \cup {None}]
  BY <1>1, <1>4 DEF AdjustmentDecided
<1> QED
  BY <1>2, <1>4, <1>5 DEF Inv, DisputeInv, GoodStep
-----------------------------------------------------------------------------
(***************************************************************************)
(* The invariant is inductive, and what follows from it.                   *)
(***************************************************************************)
LEMMA NextKeepsInv ==
    ASSUME Inv, [Next]_vars
    PROVE  Inv' /\ (allocations' = allocations \/ InTurn(Now', Len(allocations)))
<1>1. CASE UNCHANGED vars
  <2>1. UNCHANGED ledgerVars /\ dispute' = dispute
    BY <1>1 DEF vars
  <2>2. GoodStep /\ adjustment' = adjustment /\ allocations' = allocations
    BY <2>1, LedgerUnchanged DEF Inv, ledgerVars, papers, books
  <2> QED
    BY <2>1, <2>2, LedgerStepKeepsDisputes
<1>2. CASE MoneyMoves /\ UNCHANGED dispute
  <2>1. GoodStep /\ adjustment' = adjustment /\ dispute' = dispute
    BY <1>2, MoneyMovesIsGood DEF Inv
  <2> QED
    BY <2>1, LedgerStepKeepsDisputes DEF GoodStep
<1>3. CASE AdjustByHand /\ UNCHANGED dispute
  <2> PICK a \in Adjustments, type \in AdjustmentTypes, amount \in Amounts, byOwner \in BOOLEAN :
            CreateAdjustment(a, type, amount, None, byOwner)
    BY <1>3 DEF AdjustByHand
  <2>1. GoodStep /\ adjustment[a] = None /\ \A x \in Adjustments \ {a} : adjustment'[x] = adjustment[x]
    BY CreateAdjustmentIsGood DEF Inv
  <2> QED
    BY <1>3, <2>1, LedgerStepKeepsDisputes DEF GoodStep
<1>4. CASE \E o \in Orders : Dispute(o)
  <2> PICK o \in Orders : Dispute(o)
    BY <1>4
  <2>1. CASE Open(o)
    BY <2>1, OpenKeepsInv DEF GoodStep
  <2>2. CASE StartReview(o)
    BY <2>2, StartReviewKeepsInv DEF GoodStep
  <2>3. CASE Resolve(o)
    BY <2>3, ResolveKeepsInv DEF GoodStep
  <2>4. ASSUME NEW status \in {"REJECTED", "WITHDRAWN"}, Close(o, status)
        PROVE  Inv' /\ (allocations' = allocations \/ InTurn(Now', Len(allocations)))
    BY <2>4, CloseKeepsInv DEF GoodStep
  <2>5. ASSUME NEW a \in Adjustments, NEW amount \in Amounts, NEW byOwner \in BOOLEAN,
               SettleWithCredit(o, a, amount, byOwner)
        PROVE  Inv' /\ (allocations' = allocations \/ InTurn(Now', Len(allocations)))
    BY <2>5, SettleKeepsInv DEF GoodStep
  <2> QED
    BY <2>1, <2>2, <2>3, <2>4, <2>5 DEF Dispute
<1>5. ASSUME NEW a \in Adjustments, NEW status \in {"APPROVED", "REJECTED"}, Decide(a, status)
      PROVE  Inv' /\ (allocations' = allocations \/ InTurn(Now', Len(allocations)))
  BY <1>5, DecideKeepsInv DEF GoodStep
<1> QED
  BY <1>1, <1>2, <1>3, <1>4, <1>5 DEF Next

LEMMA InitMakesInv == Init => Inv
<1> SUFFICES ASSUME Init PROVE Inv
  OBVIOUS
<1>1. /\ today = 1 /\ balance = 0
      /\ charges = <<>> /\ credits = <<>> /\ allocations = <<>> /\ ledger = <<>>
      /\ delivered = [o \in Orders |-> None] /\ payment = [p \in Payments |-> None]
      /\ adjustment = [a \in Adjustments |-> None] /\ note = [r \in Returns |-> None]
      /\ dispute = [o \in Orders |-> None]
  BY DEF Init, LedgerInit
<1>2. PapersTypeOK
  BY <1>1 DEF PapersTypeOK
<1>3. Sound(Now)
  <2>1. Now = [charges |-> <<>>, credits |-> <<>>, lines |-> <<>>]
    BY <1>1 DEF Now
  <2>2. Now \in Books
    BY <2>1 DEF Books
  <2> QED
    BY <2>1, <2>2 DEF Sound
<1>4. Unsettled(charges) = {} /\ Unsettled(credits) = {} /\ MoneyRows(charges) /\ MoneyRows(credits)
  BY <1>1 DEF Unsettled, MoneyRows
<1>5. SumRemaining(charges) = 0 /\ SumRemaining(credits) = 0
  BY <1>4, SumRemainingSettled
<1>6. SignedSum(ledger) = 0
  <2> DEFINE f == [i \in DOMAIN ledger |-> Signed(ledger[i].type, ledger[i].amount)]
  <2>1. DOMAIN f = {} /\ IsFiniteSet({})
    BY <1>1, FS_EmptySet
  <2>2. SumFunctionOnSet(f, {}) = 0
    <3> HIDE DEF f
    <3> QED BY SumEmpty
  <2> QED
    BY <2>1, <2>2 DEF SignedSum, SumFunction
<1>7. Running(ledger, balance)
  BY <1>1, <1>6 DEF Running
<1>8. Accounts
  BY <1>1, <1>3, <1>4, <1>5, <1>7 DEF Accounts, Owing, Now
<1>9. Causes
  BY <1>1 DEF Causes
<1>10. DeliveredOrders = {} /\ ConfirmedPayments = {} /\ ApprovedAdjustments = {} /\ NotedReturns = {}
  BY <1>1 DEF DeliveredOrders, ConfirmedPayments, ApprovedAdjustments, NotedReturns, IsConfirmed, IsApproved
<1>11. Presence
  BY <1>10 DEF Presence
<1>12. Counted
  <2>1. IsFiniteSet({}) /\ Cardinality({}) = 0
    BY FS_EmptySet
  <2> QED
    BY <1>1, <1>10, <2>1 DEF Counted
<1>13. DisputeInv
  BY <1>1 DEF DisputeInv, DisputeOK
<1> QED
  BY <1>2, <1>8, <1>9, <1>11, <1>12, <1>13 DEF Inv, LedgerInv

LEMMA BooksFollow ==
    ASSUME Inv
    PROVE  BooksAreTrue
<1>1. LedgerInv /\ Accounts /\ Sound(Now)
  BY DEF Inv, LedgerInv, Accounts
<1>2. BalanceLedger
  <2>1. balance = SignedSum(ledger)
    BY <1>1 DEF Accounts, Running
  <2> QED
    BY <2>1 DEF BalanceLedger, SignedSum, SignedAt
<1>3. BalanceOutstanding
  BY <1>1 DEF Accounts, BalanceOutstanding, UnappliedCredit
<1>4. ChargeAllocation /\ CreditAllocation
  BY <1>1 DEF Sound, Now, ChargeAllocation, CreditAllocation
<1>5. OrderCharge
  BY <1>1 DEF LedgerInv, Presence, DeliveredOrders, OrderCharge
<1>6. PaymentCredit /\ PaymentLedger
  BY <1>1 DEF LedgerInv, Presence, ConfirmedPayments, PaymentCredit, PaymentLedger
<1>7. \A c \in DOMAIN charges : ChargeHasCause(charges[c])
  <2> SUFFICES ASSUME NEW c \in DOMAIN charges PROVE ChargeHasCause(charges[c])
    OBVIOUS
  <2>1. ChargeCause(delivered, adjustment, charges[c])
    BY <1>1 DEF LedgerInv, Causes
  <2> QED
    BY <2>1 DEF ChargeCause, ChargeHasCause, IsApproved
<1>8. \A k \in DOMAIN credits : CreditHasCause(credits[k])
  <2> SUFFICES ASSUME NEW k \in DOMAIN credits PROVE CreditHasCause(credits[k])
    OBVIOUS
  <2>1. CreditCause(payment, adjustment, note, credits[k])
    BY <1>1 DEF LedgerInv, Causes
  <2> QED
    BY <2>1 DEF CreditCause, CreditHasCause, IsApproved, IsConfirmed
<1>9. Len(ledger) = Len(charges) + Len(credits)
  BY <1>1 DEF Accounts
<1>10. Len(ledger) = Cardinality(DeliveredOrders) + Cardinality(ConfirmedPayments)
                   + Cardinality(ApprovedAdjustments) + Cardinality(NotedReturns)
  BY <1>1 DEF LedgerInv, Counted
<1>11. \A i \in DOMAIN ledger : ledger[i].after = SignedAt(i) + IF i = 1 THEN 0 ELSE ledger[i - 1].after
  BY <1>1 DEF Accounts, Running, SignedAt
<1>12. EveryPostingHasItsCause
  BY <1>7, <1>8, <1>9, <1>10, <1>11
     DEF EveryPostingHasItsCause, DeliveredOrders, ConfirmedPayments, ApprovedAdjustments, NotedReturns
<1> QED
  BY <1>2, <1>3, <1>4, <1>5, <1>6, <1>12 DEF BooksAreTrue, NothingToReconcile

LEMMA NoIdleMoneyFollows ==
    ASSUME Inv
    PROVE  NoIdleMoney
<1>1. /\ ~Owing(Now) /\ MoneyRows(charges)
      /\ \A c \in DOMAIN charges : charges[c].kind = "REFUND" => c \notin Unsettled(charges)
  BY SoundRows DEF Inv, LedgerInv, Accounts, Now
<1>2. ASSUME NEW c \in DOMAIN charges, charges[c].kind = "REFUND" PROVE ChargeStatus(charges[c]) = "PAID"
  BY <1>1, <1>2 DEF MoneyRows, Unsettled, ChargeStatus
<1> QED
  BY <1>1, <1>2 DEF NoIdleMoney, Owing, Now

LEMMA InTurnIsOldestFirst ==
    ASSUME Inv, Inv', allocations' = allocations \/ InTurn(Now', Len(allocations)),
           NEW n \in DOMAIN allocations' \ DOMAIN allocations
    PROVE  LET line == allocations'[n]
           IN  /\ \A c \in DOMAIN charges' :
                     \/ charges'[c].due < charges'[line.charge].due
                     \/ charges'[c].due = charges'[line.charge].due /\ c < line.charge
                     => ChargeStatus(charges'[c]) = "PAID"
               /\ \A k \in 1..(line.credit - 1) : k \notin Unsettled(credits')
<1> DEFINE line == allocations'[n]
<1>1. InTurn(Now', Len(allocations))
  OBVIOUS
<1>2. n > Len(allocations)
  <2>1. DOMAIN allocations = 1..Len(allocations) /\ Len(allocations) \in Nat
    BY SoundRows DEF Inv, LedgerInv, Accounts, Now, LinesOK
  <2>2. DOMAIN allocations' = 1..Len(allocations') /\ Len(allocations') \in Nat
    <3>1. Sound(Now')
      BY DEF Inv, LedgerInv, Accounts
    <3> QED
      BY <3>1, SoundRows DEF Now, LinesOK
  <2> QED
    BY <2>1, <2>2
<1>3. /\ \A c \in Unsettled(charges') : ~Before(charges', c, line.charge)
      /\ \A k \in Unsettled(credits') : ~(k < line.credit)
  BY <1>1, <1>2 DEF InTurn, Now
<1>4. MoneyRows(charges') /\ line.credit \in Nat
  <2>1. Sound(Now')
    BY DEF Inv, LedgerInv, Accounts
  <2>2. MoneyRows(charges')
    BY <2>1, SoundRows DEF Now
  <2>3. allocations'[n] \in LineRows
    BY <2>1, BooksFacts DEF Sound, Now
  <2> QED
    BY <2>2, <2>3 DEF LineRows
<1>5. ASSUME NEW c \in DOMAIN charges', Before(charges', c, line.charge)
      PROVE  ChargeStatus(charges'[c]) = "PAID"
  BY <1>3, <1>4, <1>5 DEF MoneyRows, Unsettled, ChargeStatus
<1>6. \A k \in 1..(line.credit - 1) : k \notin Unsettled(credits')
  BY <1>3, <1>4
<1> QED
  BY <1>5, <1>6 DEF Before

LEMMA CreditsAreAwaited ==
    ASSUME Inv
    PROVE  DisputesAwaitTheirCredit
<1> SUFFICES ASSUME NEW o \in Orders, dispute[o] # None
             PROVE  /\ IsOpen(o) => (dispute[o].pending = None) = (dispute[o].resolution = None)
                    /\ IsOpen(o) /\ dispute[o].pending # None =>
                          AwaitsApproval(dispute[o].pending) /\ IsCreditFor(o, dispute[o].pending)
                    /\ (dispute[o].credit # None) =
                          (dispute[o].status = "RESOLVED" /\ dispute[o].resolution = "ADJUSTMENT_CREDIT")
                    /\ dispute[o].credit # None =>
                          /\ IsCreditFor(o, dispute[o].credit)
                          /\ Posts(credits, "ADJUSTMENT", dispute[o].credit)
  BY DEF DisputesAwaitTheirCredit
<1>1. DisputeOK(delivered, adjustment, credits, o, dispute[o])
  BY DEF Inv, DisputeInv
<1> QED
  BY <1>1 DEF DisputeOK, IsOpenRow, IsOpen, AwaitsApproval, IsCreditFor, CreditFor

THEOREM InvHolds == Spec => []Inv
<1>1. Inv /\ [Next]_vars => Inv'
  BY NextKeepsInv
<1> QED
  BY <1>1, InitMakesInv, PTL DEF Spec

\* The nightly reconciliation never has anything to report, and what it does not ask is in order too: every
\* posting has its cause and is there once, however long the books are.
THEOREM BooksStayTrue == Spec => []BooksAreTrue
BY InvHolds, BooksFollow, PTL

\* _allocate_fifo leaves no credit beside an open charge, and a refund is settled when it is approved.
THEOREM MoneyIsNeverIdle == Spec => []NoIdleMoney
BY InvHolds, NoIdleMoneyFollows, PTL

\* Every line that any operation allocates goes to the debt that is due first, from the oldest credit.
THEOREM DebtsArePaidInOrder == Spec => OldestDebtFirst
<1>1. Inv /\ Inv' /\ [Next]_vars =>
        [\A n \in DOMAIN allocations' \ DOMAIN allocations :
            LET line == allocations'[n]
            IN  /\ \A c \in DOMAIN charges' :
                      \/ charges'[c].due < charges'[line.charge].due
                      \/ charges'[c].due = charges'[line.charge].due /\ c < line.charge
                      => ChargeStatus(charges'[c]) = "PAID"
                /\ \A k \in 1..(line.credit - 1) : k \notin Unsettled(credits')]_ledgerVars
  BY NextKeepsInv, InTurnIsOldestFirst
<1> QED
  BY <1>1, InvHolds, PTL DEF Spec, OldestDebtFirst

\* A dispute that is to end with a credit waits for one that an owner can still decide, or has one in the books.
THEOREM DisputesGetTheirCredit == Spec => []DisputesAwaitTheirCredit
BY InvHolds, CreditsAreAwaited, PTL
=============================================================================
