------------------------------ MODULE Courier ------------------------------
(***************************************************************************)
(* The courier's write-ahead queue: features/delivery/offline-queue.ts,    *)
(* courier-sync.ts and the stop page of courier-pages.tsx, with the        *)
(* replay of backend/app/modules/delivery/sync.py behind them.  What the   *)
(* courier does at one stop is written to the device's queue, sent when    *)
(* there is signal, and leaves the queue when the server has answered.     *)
(* Several tabs of the browser share the queue; each has its own key for   *)
(* handover codes, its own sync under way and its own view of the stop.    *)
(*                                                                         *)
(* An operation is known by its number, the order of client_created_at.    *)
(***************************************************************************)
EXTENDS Integers, Sequences, FiniteSetsExt, SequencesExt

CONSTANTS Tabs,          \* pages of the courier's browser
          Hands,         \* those the courier acts in; the others were left open
          Nobody,        \* who waits for a request that was given up
          MaxOps,        \* operations the courier records
          MaxTroubles    \* lost answers, lost signal, reloads, acts of the office, together

ASSUME CourierAssumption == {MaxOps, MaxTroubles} \subseteq Nat /\ Nobody \notin Tabs /\ Hands \subseteq Tabs

VARIABLES stop,      \* the status of the delivery, at the server
          log,       \* courier_sync_operations: operations in the order they were handled
          requests,  \* POST /courier/sync under way: who waits, what is left, what was answered
          made,      \* what the courier recorded: its kind, and the key that sealed its code
          queue,     \* the store of the device: a state and a back-off per operation
          task,      \* the syncQueue under way in a tab
          page,      \* what a tab shows: the stop, the pending operations, a busy form
          key,       \* the session key of a tab
          held, again, troubles

device == <<made, queue, task, page, key, held, again>>
backend == <<stop, log, requests>>
vars == <<backend, device, troubles>>

Closed == {"DELIVERED", "FAILED"}
OnRoad == {"IN_TRANSIT", "ARRIVED"}
Closing == {"CONFIRM", "FAIL"}
Kinds  == Closing \cup {"ARRIVE", "PAYMENT"}
Refused == {"CONFLICT", "REJECTED"}
Ops    == 1..Len(made)
Unsealed == <<Nobody, 0>>
NoTask == [stage |-> "idle", rows |-> <<>>, answers |-> <<>>]
Pending == [state |-> "PENDING", waits |-> FALSE]

Init ==
    /\ stop = "IN_TRANSIT" /\ log = <<>> /\ requests = {}
    /\ made = <<>> /\ queue = <<>>
    /\ task = [t \in Tabs |-> NoTask]
    /\ page = [t \in Hands |-> [shown |-> "IN_TRANSIT", pending |-> {}, busy |-> FALSE]]
    /\ key = [t \in Tabs |-> 0]
    /\ held = {} /\ again = {} /\ troubles = 0

Trouble == troubles < MaxTroubles /\ troubles' = troubles + 1

PendingOf(q) == {o \in DOMAIN q : q[o].state = "PENDING"}
Put(q, o, row) == [p \in DOMAIN q \cup {o} |-> IF p = o THEN row ELSE q[p]]
Drop(q, o) == [p \in DOMAIN q \ {o} |-> q[p]]

\* The one list of these operations in the order of client_created_at.
Listings(S) == {s \in [1..Cardinality(S) -> S] :
    ToSet(s) = S /\ \A i, j \in DOMAIN s : i < j => s[i] < s[j]}

\* The tab shows what the store holds now, its form is free again, and it
\* shows the stop as it is now if it could be read.
Refreshed(t, q, reads) == page' = [p \in Hands |->
    IF p # t THEN page[p]
    ELSE [shown |-> IF reads THEN stop ELSE page[p].shown, pending |-> PendingOf(q), busy |-> FALSE]]

Finish(t, q, reads) == task' = [task EXCEPT ![t] = NoTask] /\ Refreshed(t, q, reads)

(***************************************************************************)
(* The server.  Each operation of a request has a transaction and a lock   *)
(* of its own; the current state of the delivery decides.  That a company  *)
(* may not take payments now, or a member may not act, is left out: it     *)
(* refuses as a wrong code does.                                           *)
(***************************************************************************)
Handled(o) == \E i \in DOMAIN log : log[i].op = o
Verdicts(o) ==
    CASE made[o].kind = "PAYMENT" -> {<<"APPLIED", stop>>}
      [] made[o].kind = "ARRIVE"  ->
            {IF stop = "IN_TRANSIT" THEN <<"APPLIED", "ARRIVED">> ELSE <<"CONFLICT", stop>>}
      [] OTHER ->
            IF stop \notin OnRoad         THEN {<<"CONFLICT", stop>>}
            ELSE IF made[o].kind = "FAIL" THEN {<<"APPLIED", "FAILED">>}
            ELSE {<<"APPLIED", "DELIVERED">>, <<"REJECTED", stop>>}     \* the code may be wrong

Answered(r, answer) ==
    requests' = (requests \ {r}) \cup
        (IF r.tab # Nobody THEN {[r EXCEPT !.todo = Tail(@), !.answers = Append(@, answer)]}
         ELSE IF Len(r.todo) > 1 THEN {[r EXCEPT !.todo = Tail(@)]} ELSE {})

Perform(r, o) == \E v \in Verdicts(o) :
    /\ log' = Append(log, [op |-> o, result |-> v[1]])
    /\ stop' = v[2]
    /\ Answered(r, [op |-> o, result |-> v[1]])

\* Mutant of One: the log of operations is not asked.
OneUnseen(r) == r.todo # <<>> /\ Perform(r, Head(r.todo))

One(r) ==
    /\ r.todo # <<>>
    /\ LET o == Head(r.todo)
       IN  IF Handled(o)
           THEN Answered(r, [op |-> o, result |-> "DUPLICATE"]) /\ UNCHANGED <<stop, log>>
           ELSE Perform(r, o)

Serve(r) == One(r) /\ UNCHANGED <<device, troubles>>

\* A manager hands the goods over or gives the stop up, from the office.
Office(s) ==
    /\ Trouble
    /\ stop \in OnRoad
    /\ stop' = s
    /\ UNCHANGED <<log, requests, device>>

(***************************************************************************)
(* The stop page.                                                          *)
(***************************************************************************)
arrived(t) == page[t].shown = "ARRIVED" \/ \E o \in page[t].pending : made[o].kind = "ARRIVE"
pendingClose(t) == \E o \in page[t].pending : made[o].kind \in Closing
Offered(t, kind) ==
    IF kind = "PAYMENT" THEN page[t].shown \notin {"CANCELLED", "FAILED", "PLANNED"}
    ELSE /\ page[t].shown \in OnRoad
         /\ ~pendingClose(t)
         /\ kind = "ARRIVE" => ~arrived(t)

\* act: the row is written, the page refreshed, and a sync asked for.
Act(t, kind) ==
    /\ Len(made) < MaxOps
    /\ ~page[t].busy
    /\ Offered(t, kind)
    /\ made' = Append(made, [kind |-> kind, seal |-> IF kind = "CONFIRM" THEN <<t, key[t]>> ELSE Unsealed])
    /\ queue' = Put(queue, Len(made'), Pending)
    /\ page' = [page EXCEPT ![t].pending = PendingOf(queue'), ![t].busy = TRUE]
    /\ UNCHANGED <<backend, task, key, held, again, troubles>>

(***************************************************************************)
(* syncQueue: one at a time in a tab.  The interval, an event of the       *)
(* network, a mounted page and every act ask for it.                       *)
(***************************************************************************)
\* Mutant of Due: what was tried once is not tried again.
DueUntried == PendingOf(queue) \ held

Due == {o \in PendingOf(queue) : ~queue[o].waits}

\* There is nothing to send, or no signal; the stop is read every so often.
NothingToSync(t, signal) ==
    /\ task[t].stage = "idle"
    /\ signal => Due = {}
    /\ Refreshed(t, queue, signal)
    /\ UNCHANGED <<backend, made, queue, task, key, held, again, troubles>>

Begin(t) ==
    /\ task[t].stage = "idle"
    /\ Due # {}
    /\ \E rows \in Listings(Due) : task' = [task EXCEPT ![t].stage = "read", ![t].rows = rows]
    /\ UNCHANGED <<backend, made, queue, page, key, held, again, troubles>>

\* wire: a code that another key sealed cannot be sent any more.
Opens(t, o) == made[o].seal \in {Unsealed, <<t, key[t]>>}

\* Mutant of Expired: what cannot be sent is cleared away.
ExpiredCleared(q, lost) == [o \in DOMAIN q \ lost |-> q[o]]

Expired(q, lost) == [o \in DOMAIN q \cup lost |->
    IF o \in lost THEN [Pending EXCEPT !.state = "REJECTED"] ELSE q[o]]

Pack(t) ==
    /\ task[t].stage = "read"
    /\ LET sendable == {o \in ToSet(task[t].rows) : Opens(t, o)}
           lost == ToSet(task[t].rows) \ sendable
       IN  /\ queue' = Expired(queue, lost)
           /\ held' = held \cup lost
           /\ IF sendable = {}
              THEN Finish(t, queue', TRUE) /\ UNCHANGED requests
              ELSE /\ \E batch \in Listings(sendable) :
                        requests' = requests \cup {[tab |-> t, todo |-> batch, answers |-> <<>>]}
                   /\ task' = [task EXCEPT ![t].stage = "sent"]
                   /\ UNCHANGED page
    /\ UNCHANGED <<stop, log, made, key, again, troubles>>

Hear(t) == \E r \in requests :
    /\ r.tab = t /\ r.todo = <<>>
    /\ requests' = requests \ {r}
    /\ task' = [task EXCEPT ![t] = [stage |-> "heard", rows |-> <<>>, answers |-> r.answers]]
    /\ UNCHANGED <<stop, log, made, queue, page, key, held, again, troubles>>

Settled(q, a) ==
    IF a.result \in Refused THEN Put(q, a.op, [Pending EXCEPT !.state = a.result]) ELSE Drop(q, a.op)

Settle(t) ==
    /\ task[t].stage = "heard"
    /\ queue' = Settled(queue, Head(task[t].answers))
    /\ IF Len(task[t].answers) = 1
       THEN Finish(t, queue', TRUE)
       ELSE task' = [task EXCEPT ![t].answers = Tail(@)] /\ UNCHANGED page
    /\ again' = IF Head(task[t].answers).result = "DUPLICATE"
                THEN again \cup {Head(task[t].answers).op} ELSE again
    /\ UNCHANGED <<backend, made, key, held, troubles>>

(***************************************************************************)
(* No answer.  The request may have reached the server, and be handled     *)
(* there with nobody waiting for it.  Every row that was read and is still *)
(* pending is written back as it was read, to wait.                        *)
(***************************************************************************)
GivenUp(t) ==
    LET own == {r \in requests : r.tab = t}
    IN  \/ requests' = requests \ own
        \/ requests' = (requests \ own) \cup {[r EXCEPT !.tab = Nobody, !.answers = <<>>] : r \in {x \in own : x.todo # <<>>}}

Lose(t) ==
    /\ task[t].stage = "sent"
    /\ Trouble
    /\ GivenUp(t)
    /\ task' = [task EXCEPT ![t].stage = "failed"]
    /\ UNCHANGED <<stop, log, made, queue, page, key, held, again>>

Past(t) ==
    IF Len(task[t].rows) = 1
    THEN Finish(t, queue', FALSE)
    ELSE task' = [task EXCEPT ![t].stage = "failed", ![t].rows = Tail(@)] /\ UNCHANGED page

Check(t) ==
    /\ task[t].stage = "failed"
    /\ UNCHANGED queue
    /\ IF Head(task[t].rows) \in PendingOf(queue)
       THEN task' = [task EXCEPT ![t].stage = "found"] /\ UNCHANGED page
       ELSE Past(t)
    /\ UNCHANGED <<backend, made, key, held, again, troubles>>

PutBack(t) ==
    /\ task[t].stage = "found"
    /\ queue' = Put(queue, Head(task[t].rows), [Pending EXCEPT !.waits = TRUE])
    /\ held' = held \cup {Head(task[t].rows)}
    /\ Past(t)
    /\ UNCHANGED <<backend, made, key, again, troubles>>

\* next_retry_at has come.
Waited(o) == queue[o].waits /\ queue' = [queue EXCEPT ![o].waits = FALSE]

Wait(o) == Waited(o) /\ UNCHANGED <<backend, made, task, page, key, held, again, troubles>>

(***************************************************************************)
(* The browser: a tab is reloaded, or closed and another one opened with a *)
(* key of its own; the stop is closed and opened again while a sync runs,  *)
(* and shows no pending operation until it has ended.                      *)
(***************************************************************************)
Blank(t) == Refreshed(t, <<>>, FALSE)

Reload(t, k) ==
    /\ Trouble
    /\ key' = [key EXCEPT ![t] = k]
    /\ GivenUp(t)
    /\ task' = [task EXCEPT ![t] = NoTask]
    /\ Blank(t)
    /\ UNCHANGED <<stop, log, made, queue, held, again>>

Reopen(t) ==
    /\ Trouble
    /\ task[t].stage # "idle"
    /\ Blank(t)
    /\ UNCHANGED <<backend, made, queue, task, key, held, again>>

Syncs(t) == Begin(t) \/ Pack(t) \/ Hear(t) \/ Settle(t) \/ Check(t) \/ PutBack(t)

Next ==
    \/ \E r \in requests : Serve(r)
    \/ \E s \in Closed : Office(s)
    \/ \E t \in Tabs :
          \/ \E signal \in BOOLEAN : NothingToSync(t, signal)
          \/ Syncs(t)
          \/ Lose(t)
    \/ \E t \in Hands :
          \/ \E kind \in Kinds : Act(t, kind)
          \/ Reopen(t)
          \/ \E k \in {key[t], key[t] + 1} : Reload(t, k)
    \/ \E o \in DOMAIN queue : Wait(o)

Spec == Init /\ [][Next]_vars

\* The courier comes back into signal, the interval goes on asking for a
\* sync, and the server answers.
Fairness ==
    /\ \A t \in Tabs : WF_vars(Syncs(t))
    /\ WF_vars(\E r \in requests : Serve(r))
    /\ WF_vars(\E o \in DOMAIN queue : Wait(o))

FairSpec == Spec /\ Fairness

(***************************************************************************)
(* Properties                                                              *)
(***************************************************************************)
\* The server acts on an operation once, however often it is sent, and on
\* the operations of a stop in the order the courier recorded them; only
\* one that a failed try or a lost key has held back is handled after a
\* younger one.
HandledAsRecorded ==
    \A i, j \in DOMAIN log :
        /\ log[i].op = log[j].op => i = j
        /\ i < j /\ log[i].op > log[j].op => log[j].op \in held

\* Nothing the courier recorded is lost: what the device no longer keeps
\* was applied, or was refused and is no longer shown because the server
\* was asked about it a second time.
AccountedFor ==
    \A o \in Ops \ DOMAIN queue : \E i \in DOMAIN log :
        log[i].op = o /\ (log[i].result = "APPLIED" \/ o \in again)

\* Every operation gets out of the queue, or becomes an issue.
SyncedInTheEnd ==
    \A o \in 1..MaxOps : (o \in DOMAIN queue /\ queue[o].state = "PENDING")
                            ~> ~(o \in DOMAIN queue /\ queue[o].state = "PENDING")

\* What offline-queue.ts:11 says of refused operations: they leave the
\* queue and go to the issues screen.  Violated, also when every sync is
\* over: once the answer is lost, or another tab asks too, the answer is
\* DUPLICATE and the row is removed.
RefusalsAreShown ==
    (\A t \in Tabs : task[t].stage = "idle") =>
        \A i \in DOMAIN log :
            log[i].result \in Refused => log[i].op \in DOMAIN queue

Kept == INSTANCE Journal
            WITH acts     <- [o \in Ops |-> made[o].kind],
                 notes    <- DOMAIN queue,
                 delayed  <- held,
                 verdicts <- ToSet(log),
                 reviewed <- again

\* Whatever tabs send twice, in parallel, with a lost answer or behind each
\* other's back, the server decides about every operation once, while the
\* device still has it, and before its younger ones unless it was held
\* back; what the server knows and what a device forgets are steps of one
\* journal.
JournalIsKept == Kept!Spec
=============================================================================
