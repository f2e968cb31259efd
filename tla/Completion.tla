----------------------------- MODULE Completion -----------------------------
(***************************************************************************)
(* The completion job of orders/service.py, which beat starts every half   *)
(* hour: ONE database transaction over the delivered orders of EVERY       *)
(* company.  What the rest of the platform does to a company's orders is   *)
(* one transaction under the lock of that company's row, an atomic step    *)
(* here; the job takes these locks one after another and keeps those of    *)
(* the orders it completed until it commits.  A refused order gives its    *)
(* lock back with its savepoint.  Late acknowledgement and a slow run let  *)
(* two runs of the job overlap, and a killed worker rolls its run back.    *)
(*                                                                         *)
(* Companies and orders are numbered in the order of the job's query:      *)
(* order_by(Order.company_id, Order.id).                                   *)
(***************************************************************************)
EXTENDS Integers

CONSTANTS
    Orders,         \* orders.id
    Companies,      \* organizations.id
    CompanyOf,      \* orders.company_id
    Workers,        \* the runs of the job that can overlap
    MaxCrashes      \* how many workers a model kills

ASSUME NumbersAssumption ==
    /\ Orders \subseteq Nat
    /\ Companies \subseteq Nat
    /\ CompanyOf \in [Orders -> Companies]
    /\ MaxCrashes \in Nat

\* The numbering follows the query: by company first.
ASSUME QueryOrderAssumption ==
    \A o, q \in Orders : o <= q => CompanyOf[o] <= CompanyOf[q]

\* Among finitely many companies there is a last one.
ASSUME CompaniesAssumption ==
    Companies # {} => \E last \in Companies : \A c \in Companies : c <= last

VARIABLES
    orgStatus,      \* organizations.status: SUSPENDED stands for BLOCKED too
    status,         \* orders.status, as committed
    windowOver,     \* the order's dispute window has passed
    dispute,        \* OpenDisputePort.has_open
    job,            \* per worker: the ids still to do and the orders completed
    announced,      \* the ORDER_COMPLETED rows of an order in the outbox
    crashes         \* how many workers were killed

completionVars == <<orgStatus, status, windowOver, dispute, job, announced, crashes>>

Idle == [busy |-> FALSE, todo |-> {}, done |-> {}]

CompletionInit ==
    /\ orgStatus  = [c \in Companies |-> "ACTIVE"]
    /\ status     = [o \in Orders |-> "IN_TRANSIT"]
    /\ windowOver = [o \in Orders |-> FALSE]
    /\ dispute    = [o \in Orders |-> FALSE]
    /\ job        = [w \in Workers |-> Idle]
    /\ announced  = [o \in Orders |-> 0]
    /\ crashes    = 0
-----------------------------------------------------------------------------
\* Mutant of Held: the lock goes with the savepoint of every order.
HeldNoLonger(w) == {}

\* The companies whose rows a run has locked between two of its steps.
Held(w) == {CompanyOf[o] : o \in job[w].done}

\* lock_org would not wait, for a run and for everybody else.
FreeFor(w, c) == \A v \in Workers \ {w} : c \notin Held(v)
Free(c)       == \A w \in Workers : c \notin Held(w)

\* Mutant of Coming: the query has lost its order_by.
ComingUnordered(w) == job[w].todo

\* The order the run takes next.
Coming(w) == {o \in job[w].todo : \A q \in job[w].todo : o <= q}

\* Mutant of MayComplete: the window is not looked at.
MayCompleteAnyTime(o) == status[o] = "DELIVERED" /\ ~dispute[o]

\* Mutant of MayComplete: the query has seen that it is DELIVERED.
MayCompleteAsSelected(o) == windowOver[o]

MayComplete(o) == status[o] = "DELIVERED" /\ windowOver[o] /\ ~dispute[o]

OthersStay == UNCHANGED <<orgStatus, windowOver, dispute>>
-----------------------------------------------------------------------------
(***************************************************************************)
(* A run of the job.                                                       *)
(***************************************************************************)
SelectIds(w) ==
    /\ ~job[w].busy
    /\ job' = [job EXCEPT ![w] = [busy |-> TRUE,
                                  todo |-> {o \in Orders : status[o] = "DELIVERED"},
                                  done |-> {}]]
    /\ OthersStay /\ UNCHANGED <<status, announced, crashes>>

\* One id: complete it, skip it (invalid_transition), or let the error of a
\* company that is not ACTIVE end the run and roll back all of it.
TakeOne(w) ==
    \E o \in Coming(w) :
        /\ FreeFor(w, CompanyOf[o])
        /\ job' = [job EXCEPT ![w] =
                      IF orgStatus[CompanyOf[o]] # "ACTIVE" THEN Idle
                      ELSE [busy |-> TRUE,
                            todo |-> @.todo \ {o},
                            done |-> @.done \cup {q \in {o} : MayComplete(q)}]]
        /\ OthersStay /\ UNCHANGED <<status, announced, crashes>>

\* Mutant of Commit: the session is closed without a commit.
CloseOnly(w) ==
    /\ job[w].busy /\ job[w].todo = {}
    /\ job' = [job EXCEPT ![w] = Idle]
    /\ OthersStay /\ UNCHANGED <<status, announced, crashes>>

Commit(w) ==
    /\ job[w].busy /\ job[w].todo = {}
    /\ status' = [o \in Orders |-> IF o \in job[w].done THEN "COMPLETED" ELSE status[o]]
    /\ announced' = [o \in Orders |-> IF o \in job[w].done THEN announced[o] + 1 ELSE announced[o]]
    /\ job' = [job EXCEPT ![w] = Idle]
    /\ OthersStay /\ UNCHANGED crashes

Crash(w) ==
    /\ job[w].busy /\ crashes < MaxCrashes
    /\ job' = [job EXCEPT ![w] = Idle]
    /\ crashes' = crashes + 1
    /\ OthersStay /\ UNCHANGED <<status, announced>>
-----------------------------------------------------------------------------
(***************************************************************************)
(* What happens to the orders meanwhile.                                   *)
(***************************************************************************)
LockCompanyOf(o) == Free(CompanyOf[o]) /\ orgStatus[CompanyOf[o]] = "ACTIVE"

Deliver(o) ==
    /\ LockCompanyOf(o)
    /\ status[o] = "IN_TRANSIT"
    /\ status' = [status EXCEPT ![o] = "DELIVERED"]
    /\ OthersStay /\ UNCHANGED <<job, announced, crashes>>

OpenDispute(o) ==
    /\ LockCompanyOf(o)
    /\ status[o] = "DELIVERED" /\ ~dispute[o] /\ ~windowOver[o]
    /\ dispute' = [dispute EXCEPT ![o] = TRUE]
    /\ status' = [status EXCEPT ![o] = "DISPUTED"]
    /\ UNCHANGED <<orgStatus, windowOver, job, announced, crashes>>

\* Resolved, rejected or withdrawn: the order is completed with it (T17).
CloseDispute(o) ==
    /\ LockCompanyOf(o)
    /\ dispute[o] /\ status[o] = "DISPUTED"
    /\ dispute' = [dispute EXCEPT ![o] = FALSE]
    /\ status' = [status EXCEPT ![o] = "COMPLETED"]
    /\ announced' = [announced EXCEPT ![o] = @ + 1]
    /\ UNCHANGED <<orgStatus, windowOver, job, crashes>>

WindowEnds(o) ==
    /\ status[o] # "IN_TRANSIT" /\ ~windowOver[o]
    /\ windowOver' = [windowOver EXCEPT ![o] = TRUE]
    /\ UNCHANGED <<orgStatus, status, dispute, job, announced, crashes>>

\* An administrator; the row lock makes him wait for the job like the others.
SetOrganizationStatus(c) ==
    /\ Free(c)
    /\ orgStatus' = [orgStatus EXCEPT ![c] = IF @ = "ACTIVE" THEN "SUSPENDED" ELSE "ACTIVE"]
    /\ UNCHANGED <<status, windowOver, dispute, job, announced, crashes>>
-----------------------------------------------------------------------------
CompletionNext ==
    \/ \E w \in Workers : SelectIds(w) \/ TakeOne(w) \/ Commit(w) \/ Crash(w)
    \/ \E o \in Orders : Deliver(o) \/ OpenDispute(o) \/ CloseDispute(o) \/ WindowEnds(o)
    \/ \E c \in Companies : SetOrganizationStatus(c)

CompletionSpec == CompletionInit /\ [][CompletionNext]_completionVars

(***************************************************************************)
(* Beat keeps starting the job, a run that can go on does, and time passes.*)
(* Nobody has to deliver, dispute, settle, suspend or reinstate.           *)
(***************************************************************************)
CompletionFairSpec ==
    /\ CompletionSpec
    /\ \A w \in Workers : /\ WF_completionVars(SelectIds(w))
                          /\ WF_completionVars(TakeOne(w))
                          /\ WF_completionVars(Commit(w))
    /\ \A o \in Orders : WF_completionVars(WindowEnds(o))
-----------------------------------------------------------------------------
(***************************************************************************)
(* T15 and T17 against T16: an order is disputed exactly while its dispute *)
(* is open.  A job that trusted the ids it selected would close an order   *)
(* the store has disputed since.                                           *)
(***************************************************************************)
DisputedWhileOpen ==
    \A o \in Orders : dispute[o] <=> status[o] = "DISPUTED"

(***************************************************************************)
(* ORD-041: what was DELIVERED is completed only after its dispute window, *)
(* however long before the commit the job looked at the clock.             *)
(***************************************************************************)
CompletedAfterWindow ==
    [][\A o \in Orders :
          status[o] = "DELIVERED" /\ status'[o] = "COMPLETED" => windowOver[o]]_completionVars

(***************************************************************************)
(* "Idempotent" (ORD-041): a completed order was announced once, by the    *)
(* job or by the end of its dispute, however the runs of the job overlap   *)
(* and whichever of them is killed; any other order never was.             *)
(***************************************************************************)
AnnouncedOnce ==
    \A o \in Orders : announced[o] = IF status[o] = "COMPLETED" THEN 1 ELSE 0

(***************************************************************************)
(* Runs that overlap wait for each other's companies, never in a circle.   *)
(***************************************************************************)
WaitsFor(w, v) == \E o \in Coming(w) : CompanyOf[o] \in Held(v)
Waits(w) == \E v \in Workers \ {w} : WaitsFor(w, v)

JobsNeverWaitInACircle ==
    (\E w \in Workers : Waits(w)) => \E v \in Workers : job[v].busy /\ ~Waits(v)

IsClosed(o) == status[o] \in {"DISPUTED", "COMPLETED"}

(***************************************************************************)
(* ORD-041 when no company stays suspended: every delivered order is       *)
(* completed in the end or disputed, through kills and overlapping runs.   *)
(***************************************************************************)
AllActiveAllCompleted ==
    <>[](\A c \in Companies : orgStatus[c] = "ACTIVE")
        => \A o \in Orders : status[o] = "DELIVERED" ~> IsClosed(o)

(***************************************************************************)
(* ORD-041 as TZ.md states it, for the orders of a company that is active: *)
(* they are completed whatever happens to other companies.  TakeOne breaks *)
(* it: a suspended company with a delivered order ends every run.          *)
(***************************************************************************)
ActiveCompanyCompleted ==
    \A o \in Orders :
        <>[](orgStatus[CompanyOf[o]] = "ACTIVE") => (status[o] = "DELIVERED" ~> IsClosed(o))

\* Where an order of the program is in the life that Closing tells of: an
\* open dispute counts, whatever the order's own status says of it.
LifeOf(o) ==
    IF dispute[o]                     THEN "disputed"
    ELSE IF status[o] = "IN_TRANSIT"  THEN "road"
    ELSE IF status[o] = "COMPLETED"   THEN "closed"
    ELSE "open"

Promised == INSTANCE Closing
                WITH life    <- [o \in Orders |-> LifeOf(o)],
                     over    <- {o \in Orders : windowOver[o]},
                     told    <- announced,
                     trading <- {c \in Companies : orgStatus[c] = "ACTIVE"}

(***************************************************************************)
(* ORD-041: however its runs overlap, wait and die, the job is one step    *)
(* that closes what is due: selecting, looking and locking change nothing, *)
(* and when a run commits, every order it looked at earlier is STILL open, *)
(* over its window, without a dispute and of a company that may trade.     *)
(***************************************************************************)
ClosesAtOnce == Promised!Spec
=============================================================================
