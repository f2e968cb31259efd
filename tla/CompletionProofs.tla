-------------------------- MODULE CompletionProofs --------------------------
(***************************************************************************)
(* Theorems about the completion job, for any number of companies, orders  *)
(* and overlapping runs, and any number of killed workers.                 *)
(***************************************************************************)
EXTENDS Completion, WellFoundedInduction, TLAPS

OrderStatuses == {"IN_TRANSIT", "DELIVERED", "DISPUTED", "COMPLETED"}

CompletionTypeOK ==
    /\ orgStatus \in [Companies -> {"ACTIVE", "SUSPENDED"}]
    /\ status \in [Orders -> OrderStatuses]
    /\ windowOver \in [Orders -> BOOLEAN]
    /\ dispute \in [Orders -> BOOLEAN]
    /\ job \in [Workers -> [busy : BOOLEAN, todo : SUBSET Orders, done : SUBSET Orders]]
    /\ announced \in [Orders -> Nat]
    /\ crashes \in Nat

\* Nothing stands against completing an order, its company included.
Due(o) == MayComplete(o) /\ orgStatus[CompanyOf[o]] = "ACTIVE"

\* What a run has completed and not yet committed still waits for it.
DoneIsDue ==
    \A w \in Workers : \A o \in job[w].done : Due(o)

\* Two runs never hold the same company.
RunsAreApart ==
    \A w, v \in Workers : w # v => Held(w) \cap Held(v) = {}

\* A run goes through the companies in their order.
RunsGoForward ==
    \A w \in Workers : \A o \in job[w].done, q \in job[w].todo : CompanyOf[o] <= CompanyOf[q]

\* A run that is not under way holds nothing.
IdleHoldsNothing ==
    \A w \in Workers : ~job[w].busy => job[w].todo = {} /\ job[w].done = {}

CompletionInv ==
    /\ CompletionTypeOK
    /\ DisputedWhileOpen
    /\ AnnouncedOnce
    /\ DoneIsDue
    /\ RunsAreApart
    /\ RunsGoForward
    /\ IdleHoldsNothing
-----------------------------------------------------------------------------
LEMMA InitCompletionInv == CompletionInit => CompletionInv
BY NumbersAssumption
   DEF CompletionInit, CompletionInv, CompletionTypeOK, OrderStatuses, Idle, DisputedWhileOpen,
       AnnouncedOnce, DoneIsDue, RunsAreApart, RunsGoForward, IdleHoldsNothing, Held

\* A step that leaves the runs alone and respects the companies they hold.
LEMMA OutsideStep ==
    ASSUME CompletionInv, CompletionTypeOK', DisputedWhileOpen', AnnouncedOnce',
           UNCHANGED job,
           \A o \in Orders : ~Free(CompanyOf[o]) /\ Due(o) => Due(o)'
    PROVE  CompletionInv'
<1>1. DoneIsDue'
  <2> SUFFICES ASSUME NEW w \in Workers, NEW o \in job[w].done PROVE Due(o)'
    BY DEF DoneIsDue
  <2>1. o \in Orders /\ Due(o)
    BY DEF CompletionInv, CompletionTypeOK, DoneIsDue
  <2>2. ~Free(CompanyOf[o])
    BY DEF Free, Held
  <2> QED
    BY <2>1, <2>2
<1> QED
  BY <1>1 DEF CompletionInv, RunsAreApart, RunsGoForward, IdleHoldsNothing, Held

LEMMA OrderStepInv ==
    ASSUME CompletionInv, NEW o \in Orders,
           Deliver(o) \/ OpenDispute(o) \/ CloseDispute(o) \/ WindowEnds(o)
    PROVE  CompletionInv'
<1> USE DEF CompletionInv, CompletionTypeOK, OrderStatuses, OthersStay, LockCompanyOf
<1>1. CompletionTypeOK'
  <2>1. CASE Deliver(o)
    BY <2>1 DEF Deliver
  <2>2. CASE OpenDispute(o)
    BY <2>2 DEF OpenDispute
  <2>3. CASE CloseDispute(o)
    BY <2>3 DEF CloseDispute
  <2>4. CASE WindowEnds(o)
    BY <2>4 DEF WindowEnds
  <2> QED
    BY <2>1, <2>2, <2>3, <2>4
<1>2. DisputedWhileOpen'
  BY DEF Deliver, OpenDispute, CloseDispute, WindowEnds, DisputedWhileOpen
<1>3. AnnouncedOnce'
  BY DEF Deliver, OpenDispute, CloseDispute, WindowEnds, AnnouncedOnce
<1>4. UNCHANGED job
  BY DEF Deliver, OpenDispute, CloseDispute, WindowEnds
<1>5. \A q \in Orders : ~Free(CompanyOf[q]) /\ Due(q) => Due(q)'
  BY DEF Deliver, OpenDispute, CloseDispute, WindowEnds, Due, MayComplete
<1> QED
  BY <1>1, <1>2, <1>3, <1>4, <1>5, OutsideStep

LEMMA AdministratorInv ==
    ASSUME CompletionInv, NEW c \in Companies, SetOrganizationStatus(c)
    PROVE  CompletionInv'
<1> USE DEF CompletionInv, CompletionTypeOK, SetOrganizationStatus
<1>1. CompletionTypeOK'
  OBVIOUS
<1>2. DisputedWhileOpen' /\ AnnouncedOnce'
  BY DEF DisputedWhileOpen, AnnouncedOnce
<1>3. \A q \in Orders : ~Free(CompanyOf[q]) /\ Due(q) => Due(q)'
  BY DEF Due, MayComplete
<1> QED
  BY <1>1, <1>2, <1>3, OutsideStep
-----------------------------------------------------------------------------
\* A step that ends a run, one way or the other, sets it back.
LEMMA ResetInv ==
    ASSUME CompletionInv, NEW w \in Workers,
           job' = [job EXCEPT ![w] = Idle],
           \A v \in Workers \ {w} : \A o \in job[v].done : Due(o)'
    PROVE  DoneIsDue' /\ RunsAreApart' /\ RunsGoForward' /\ IdleHoldsNothing'
<1>1. \A v \in Workers : job'[v] = IF v = w THEN Idle ELSE job[v]
  BY DEF CompletionInv, CompletionTypeOK
<1>2. DoneIsDue'
  BY <1>1 DEF Idle, DoneIsDue
<1>3. RunsAreApart'
  <2>1. \A v \in Workers : Held(v)' = IF v = w THEN {} ELSE Held(v)
    BY <1>1 DEF Held, Idle
  <2> QED
    BY <2>1 DEF CompletionInv, RunsAreApart
<1>4. RunsGoForward' /\ IdleHoldsNothing'
  BY <1>1 DEF CompletionInv, Idle, RunsGoForward, IdleHoldsNothing
<1> QED
  BY <1>2, <1>3, <1>4

LEMMA RollbackInv ==
    ASSUME CompletionInv, NEW w \in Workers, job' = [job EXCEPT ![w] = Idle],
           crashes' \in Nat, OthersStay, UNCHANGED <<status, announced>>
    PROVE  CompletionInv'
<1>1. DoneIsDue' /\ RunsAreApart' /\ RunsGoForward' /\ IdleHoldsNothing'
  BY ResetInv DEF CompletionInv, CompletionTypeOK, DoneIsDue, Due, MayComplete, OthersStay
<1> QED
  BY <1>1 DEF CompletionInv, CompletionTypeOK, Idle, OthersStay, DisputedWhileOpen, AnnouncedOnce

LEMMA SelectIdsInv ==
    ASSUME CompletionInv, NEW w \in Workers, SelectIds(w)
    PROVE  CompletionInv'
<1> USE DEF CompletionInv, CompletionTypeOK, SelectIds, OthersStay
<1>1. CompletionTypeOK'
  OBVIOUS
<1>2. DisputedWhileOpen' /\ AnnouncedOnce'
  BY DEF DisputedWhileOpen, AnnouncedOnce
<1>3. DoneIsDue'
  BY DEF DoneIsDue, Due, MayComplete
<1>4. RunsAreApart' /\ RunsGoForward' /\ IdleHoldsNothing'
  BY DEF RunsAreApart, RunsGoForward, IdleHoldsNothing, Held
<1> QED
  BY <1>1, <1>2, <1>3, <1>4

LEMMA TakeOneInv ==
    ASSUME CompletionInv, NEW w \in Workers, TakeOne(w)
    PROVE  CompletionInv'
<1> PICK o \in Coming(w) :
       /\ FreeFor(w, CompanyOf[o])
       /\ job' = [job EXCEPT ![w] =
                     IF orgStatus[CompanyOf[o]] # "ACTIVE" THEN Idle
                     ELSE [busy |-> TRUE,
                           todo |-> @.todo \ {o},
                           done |-> @.done \cup {q \in {o} : MayComplete(q)}]]
       /\ OthersStay /\ UNCHANGED <<status, announced, crashes>>
  BY DEF TakeOne
<1>0. o \in Orders /\ o \in job[w].todo /\ (\A q \in job[w].todo : o <= q)
  BY DEF Coming, CompletionInv, CompletionTypeOK
<1>1. CASE orgStatus[CompanyOf[o]] # "ACTIVE"
  BY <1>1, RollbackInv DEF CompletionInv, CompletionTypeOK
<1>2. CASE orgStatus[CompanyOf[o]] = "ACTIVE"
  <2> USE <1>2 DEF CompletionInv, CompletionTypeOK, OthersStay
  <2> DEFINE D == job[w].done \cup {q \in {o} : MayComplete(q)}
  <2>1. job' = [job EXCEPT ![w] = [busy |-> TRUE, todo |-> job[w].todo \ {o}, done |-> D]]
    OBVIOUS
  <2>2. D \subseteq Orders /\ D \subseteq job[w].done \cup {o} /\ \A q \in D : Due(q)
    BY <1>0 DEF DoneIsDue, Due
  <2> HIDE DEF D
  <2>3. CompletionTypeOK'
    BY <2>1, <2>2
  <2>4. DisputedWhileOpen' /\ AnnouncedOnce'
    BY DEF DisputedWhileOpen, AnnouncedOnce
  <2>5. DoneIsDue'
    BY <2>1, <2>2 DEF DoneIsDue, Due, MayComplete
  <2>6. RunsAreApart'
    <3>1. \A v \in Workers \ {w} : Held(v)' = Held(v)
      BY <2>1 DEF Held
    <3>2. Held(w)' \subseteq Held(w) \cup {CompanyOf[o]}
      BY <2>1, <2>2 DEF Held
    <3> QED
      BY <3>1, <3>2 DEF RunsAreApart, FreeFor
  <2>7. RunsGoForward'
    BY <1>0, <2>1, <2>2, QueryOrderAssumption DEF RunsGoForward
  <2>8. IdleHoldsNothing'
    BY <1>0, <2>1 DEF IdleHoldsNothing
  <2> QED
    BY <2>3, <2>4, <2>5, <2>6, <2>7, <2>8
<1> QED
  BY <1>1, <1>2

LEMMA CommitInv ==
    ASSUME CompletionInv, NEW w \in Workers, Commit(w)
    PROVE  CompletionInv'
<1> USE DEF CompletionInv, CompletionTypeOK, OrderStatuses, OthersStay
<1>1. CompletionTypeOK'
  BY DEF Commit, Idle
<1>2. DisputedWhileOpen'
  BY DEF Commit, DisputedWhileOpen, DoneIsDue, Due, MayComplete
<1>3. AnnouncedOnce'
  BY DEF Commit, AnnouncedOnce, DoneIsDue, Due, MayComplete
<1>4. ASSUME NEW v \in Workers \ {w}, NEW o \in job[v].done PROVE Due(o)'
  <2>1. o \notin job[w].done
    <3> SUFFICES ASSUME o \in job[w].done PROVE FALSE
      OBVIOUS
    <3>1. CompanyOf[o] \in Held(v) \cap Held(w)
      BY DEF Held
    <3> QED
      BY <3>1 DEF RunsAreApart
  <2> QED
    BY <2>1 DEF Commit, DoneIsDue, Due, MayComplete
<1> QED
  BY <1>1, <1>2, <1>3, <1>4, ResetInv DEF Commit

LEMMA CompletionInvariant == CompletionSpec => []CompletionInv
<1>1. CompletionInv /\ [CompletionNext]_completionVars => CompletionInv'
  <2> SUFFICES ASSUME CompletionInv, [CompletionNext]_completionVars PROVE CompletionInv'
    OBVIOUS
  <2>1. ASSUME NEW w \in Workers, Crash(w) PROVE CompletionInv'
    <3>1. crashes' \in Nat
      BY <2>1 DEF Crash, CompletionInv, CompletionTypeOK
    <3> QED
      BY <2>1, <3>1, RollbackInv DEF Crash
  <2>2. CASE UNCHANGED completionVars
    BY <2>2 DEF completionVars, CompletionInv, CompletionTypeOK, DisputedWhileOpen, AnnouncedOnce,
                DoneIsDue, Due, MayComplete, RunsAreApart, RunsGoForward, IdleHoldsNothing, Held
  <2> QED
    BY <2>1, <2>2, SelectIdsInv, TakeOneInv, CommitInv, OrderStepInv, AdministratorInv
       DEF CompletionNext
<1> QED
  BY <1>1, InitCompletionInv, PTL DEF CompletionSpec

(***************************************************************************)
(* An order is disputed exactly while its dispute is open: the job never   *)
(* closes an order over the store's head.                                  *)
(***************************************************************************)
THEOREM DisputesStayVisible == CompletionSpec => []DisputedWhileOpen
BY CompletionInvariant, PTL DEF CompletionInv

(***************************************************************************)
(* ORDER_COMPLETED is published exactly once for a completed order.        *)
(***************************************************************************)
THEOREM CompletionIsAnnouncedOnce == CompletionSpec => []AnnouncedOnce
BY CompletionInvariant, PTL DEF CompletionInv

(***************************************************************************)
(* ORD-041: no delivered order is completed before its window has passed.  *)
(***************************************************************************)
THEOREM CompletionWaitsForTheWindow == CompletionSpec => CompletedAfterWindow
<1> DEFINE A == \A o \in Orders :
                   status[o] = "DELIVERED" /\ status'[o] = "COMPLETED" => windowOver[o]
<1>1. CompletionInv /\ [CompletionNext]_completionVars => [A]_completionVars
  <2> SUFFICES ASSUME CompletionInv, CompletionNext, NEW q \in Orders,
                      status[q] = "DELIVERED", status'[q] = "COMPLETED"
               PROVE  windowOver[q]
    BY DEF CompletionNext
  <2> USE DEF CompletionInv, CompletionTypeOK
  <2>1. ASSUME NEW w \in Workers, Commit(w) PROVE windowOver[q]
    BY <2>1 DEF Commit, DoneIsDue, Due, MayComplete
  <2>2. ASSUME NEW w \in Workers, SelectIds(w) \/ TakeOne(w) \/ Crash(w) PROVE FALSE
    BY <2>2 DEF SelectIds, TakeOne, Crash
  <2>3. ASSUME NEW o \in Orders,
               Deliver(o) \/ OpenDispute(o) \/ CloseDispute(o) \/ WindowEnds(o)
        PROVE  FALSE
    BY <2>3 DEF Deliver, OpenDispute, CloseDispute, WindowEnds
  <2>4. ASSUME NEW c \in Companies, SetOrganizationStatus(c) PROVE FALSE
    BY <2>4 DEF SetOrganizationStatus
  <2> QED
    BY <2>1, <2>2, <2>3, <2>4 DEF CompletionNext
<1> QED
  BY <1>1, CompletionInvariant, PTL DEF CompletionSpec, CompletedAfterWindow
-----------------------------------------------------------------------------
\* A set of companies that is not empty has a last one.
LEMMA LastCompany ==
    ASSUME NEW S \in SUBSET Companies, S # {}
    PROVE  \E c \in S : \A d \in S : d <= c
<1> DEFINE Below == OpToRel(<, Nat)
           Bounds == {n \in Nat : \A c \in S : c <= n}
<1>1. Bounds # {}
  BY CompaniesAssumption, NumbersAssumption
<1>2. PICK n \in Bounds : \A m \in Bounds : ~(<<m, n>> \in Below)
  <2> HIDE DEF Below, Bounds
  <2>1. Bounds \subseteq Nat
    BY DEF Bounds
  <2>2. IsWellFoundedOn(Below, Nat)
    BY NatLessThanWellFounded DEF Below
  <2> QED
    BY <1>1, <2>1, <2>2, WFMin
<1>3. \A m \in Bounds : ~(m < n)
  BY <1>2 DEF OpToRel
<1>4. n \in S
  <2> SUFFICES ASSUME n \notin S PROVE FALSE
    OBVIOUS
  <2>1. \A c \in S : c \in Nat /\ c < n
    BY NumbersAssumption
  <2>2. n - 1 \in Bounds
    BY <2>1
  <2> QED
    BY <1>3, <2>2
<1> QED
  BY <1>4

(***************************************************************************)
(* Overlapping runs of the job cannot deadlock: of the runs that hold      *)
(* companies, the one with the last of them waits for nobody.              *)
(***************************************************************************)
THEOREM JobsCannotDeadlock == CompletionSpec => []JobsNeverWaitInACircle
<1>1. CompletionInv => JobsNeverWaitInACircle
  <2> SUFFICES ASSUME CompletionInv, NEW w \in Workers, Waits(w)
               PROVE  \E v \in Workers : job[v].busy /\ ~Waits(v)
    BY DEF JobsNeverWaitInACircle
  <2> USE DEF CompletionInv, CompletionTypeOK
  <2> DEFINE S == UNION {Held(v) : v \in Workers}
  <2>1. S \subseteq Companies
    BY NumbersAssumption DEF Held
  <2>2. S # {}
    BY DEF Waits, WaitsFor
  <2>3. PICK c \in S : \A d \in S : d <= c
    BY <2>1, <2>2, LastCompany
  <2>4. PICK v \in Workers : c \in Held(v)
    OBVIOUS
  <2>5. job[v].busy
    BY <2>4 DEF Held, IdleHoldsNothing
  <2>6. ~Waits(v)
    <3> SUFFICES ASSUME NEW u \in Workers \ {v}, NEW o \in Coming(v), CompanyOf[o] \in Held(u)
                 PROVE  FALSE
      BY DEF Waits, WaitsFor
    <3>1. CompanyOf[o] <= c
      BY <2>3
    <3>2. c <= CompanyOf[o]
      BY <2>4 DEF Held, Coming, RunsGoForward
    <3>3. CompanyOf[o] = c
      <4>1. c \in Nat /\ CompanyOf[o] \in Nat
        BY <2>1, NumbersAssumption DEF Coming
      <4> QED
        BY <3>1, <3>2, <4>1
    <3> QED
      BY <2>4, <3>3 DEF RunsAreApart
  <2> QED
    BY <2>5, <2>6
<1> QED
  BY <1>1, CompletionInvariant, PTL
-----------------------------------------------------------------------------
(***************************************************************************)
(* The job implements Closing: one step of it or none for every step.      *)
(***************************************************************************)
LEMMA InitCloses == CompletionInit => Promised!Init
BY DEF CompletionInit, Promised!Init, LifeOf

\* What every abstract move needs of the companies and the clock.
LEMMA GoesOn ==
    ASSUME CompletionInv, NEW os \in SUBSET Orders, NEW from, NEW to,
           UNCHANGED <<orgStatus, windowOver>>,
           \A o \in os : LifeOf(o) = from /\ orgStatus[CompanyOf[o]] = "ACTIVE",
           \A o \in Orders : LifeOf(o)' = IF o \in os THEN to ELSE LifeOf(o)
    PROVE  Promised!Go(os, from, to)
BY NumbersAssumption DEF Promised!Go

LEMMA NothingIsTold ==
    ASSUME UNCHANGED <<status, dispute, orgStatus, windowOver, announced>>
    PROVE  UNCHANGED Promised!closingVars
BY DEF Promised!closingVars, LifeOf

LEMMA OrderStepCloses ==
    ASSUME CompletionInv, NEW o \in Orders,
           Deliver(o) \/ OpenDispute(o) \/ CloseDispute(o) \/ WindowEnds(o)
    PROVE  Promised!Next
<1> USE DEF CompletionInv, CompletionTypeOK, OrderStatuses, DisputedWhileOpen, OthersStay,
            LockCompanyOf, LifeOf
<1>1. CASE Deliver(o)
  <2>1. Promised!Go({o}, "road", "open")
    BY <1>1, GoesOn DEF Deliver
  <2> QED
    BY <1>1, <2>1 DEF Deliver, Promised!Arrive, Promised!Next
<1>2. CASE OpenDispute(o)
  <2>1. Promised!Go({o}, "open", "disputed")
    BY <1>2, GoesOn DEF OpenDispute
  <2> QED
    BY <1>2, <2>1 DEF OpenDispute, Promised!Dispute, Promised!Next
<1>3. CASE CloseDispute(o)
  <2>1. Promised!Go({o}, "disputed", "closed")
    BY <1>3, GoesOn DEF CloseDispute
  <2>2. Promised!Tell({o})
    BY <1>3 DEF CloseDispute, Promised!Tell
  <2> QED
    BY <2>1, <2>2 DEF Promised!Settle, Promised!Next
<1>4. CASE WindowEnds(o)
  <2>1. Promised!WindowEnds(o)
    BY <1>4 DEF WindowEnds, Promised!WindowEnds
  <2> QED
    BY <2>1 DEF Promised!Next
<1> QED
  BY <1>1, <1>2, <1>3, <1>4

LEMMA CommitCloses ==
    ASSUME CompletionInv, NEW w \in Workers, Commit(w)
    PROVE  Promised!Close(job[w].done)
<1> USE DEF CompletionInv, CompletionTypeOK, OrderStatuses, DisputedWhileOpen, OthersStay,
            DoneIsDue, Due, MayComplete
<1>1. job[w].done \in SUBSET Orders
  OBVIOUS
<1>2. Promised!Go(job[w].done, "open", "closed")
  BY <1>1, GoesOn DEF Commit, LifeOf
<1>3. Promised!Tell(job[w].done)
  BY DEF Commit, Promised!Tell
<1> QED
  BY <1>1, <1>2, <1>3 DEF Promised!Close

LEMMA StepCloses ==
    ASSUME CompletionInv, [CompletionNext]_completionVars
    PROVE  [Promised!Next]_Promised!closingVars
<1>1. ASSUME NEW w \in Workers, SelectIds(w) \/ TakeOne(w) \/ Crash(w)
      PROVE  UNCHANGED Promised!closingVars
  BY <1>1, NothingIsTold DEF SelectIds, TakeOne, Crash, OthersStay
<1>2. ASSUME NEW w \in Workers, Commit(w) PROVE Promised!Next
  <2>1. job[w].done \in SUBSET Orders
    BY DEF CompletionInv, CompletionTypeOK
  <2> QED
    BY <1>2, <2>1, CommitCloses DEF Promised!Next
<1>3. ASSUME NEW c \in Companies, SetOrganizationStatus(c) PROVE Promised!Next
  <2>1. PICK cs \in SUBSET Companies : cs = {d \in Companies : orgStatus[d] = "ACTIVE"}'
    OBVIOUS
  <2>2. Promised!Allow(cs)
    BY <1>3, <2>1 DEF SetOrganizationStatus, Promised!Allow, LifeOf
  <2> QED
    BY <2>2 DEF Promised!Next
<1>4. CASE UNCHANGED completionVars
  BY <1>4, NothingIsTold DEF completionVars
<1> QED
  BY <1>1, <1>2, <1>3, <1>4, OrderStepCloses DEF CompletionNext

(***************************************************************************)
(* However many runs of the job overlap, wait for each other and are       *)
(* killed, what they commit is what one step would have closed.            *)
(***************************************************************************)
THEOREM CompletionClosesAtOnce == CompletionSpec => ClosesAtOnce
<1>1. CompletionInit => Promised!Init
  BY InitCloses
<1>2. CompletionInv /\ [CompletionNext]_completionVars => [Promised!Next]_Promised!closingVars
  BY StepCloses
<1> QED
  BY <1>1, <1>2, CompletionInvariant, PTL DEF CompletionSpec, ClosesAtOnce, Promised!Spec
=============================================================================
