---------------------------- MODULE CourierProofs ----------------------------
(***************************************************************************)
(* What the courier records is handled once, in its order, and is not      *)
(* lost: for any tabs, and any numbers of operations and troubles.         *)
(*                                                                         *)
(* The argument: an operation that is neither handled nor held back is in  *)
(* the queue and due.  So whenever a younger one is read to be sent it is  *)
(* read too, and goes before it, on the device, on the wire and into the   *)
(* log.  And every answer is about an operation in the log.                *)
(***************************************************************************)
EXTENDS Courier, FiniteSetTheorems, TLAPS

Results == {"APPLIED"} \cup Refused
Entries(S) == [op : S, result : Results]
Answers(S) == [op : S, result : Results \cup {"DUPLICATE"}]
Stages == {"idle", "read", "sent", "heard", "failed", "found"}

RequestOK(r, S) ==
    /\ DOMAIN r = {"tab", "todo", "answers"}
    /\ r.todo \in Seq(S) /\ r.answers \in Seq(Answers(S))
    /\ r.tab # Nobody /\ r.todo = <<>> => r.answers # <<>>

TaskOK(x, S) ==
    /\ DOMAIN x = {"stage", "rows", "answers"}
    /\ x.stage \in Stages
    /\ x.rows \in Seq(S) /\ x.answers \in Seq(Answers(S))
    /\ x.stage = "heard" => x.answers # <<>>
    /\ x.stage \in {"read", "sent", "failed", "found"} => x.rows # <<>>

\* The log, the requests, the tabs and the queue speak of recorded operations.
MadeType == made \in Seq([kind : Kinds, seal : (Tabs \cup {Nobody}) \X Nat]) /\ key \in [Tabs -> Nat]
LogType  == log \in Seq(Entries(Ops))
WireType == \A r \in requests : RequestOK(r, Ops)
TaskType == DOMAIN task = Tabs /\ \A t \in Tabs : TaskOK(task[t], Ops)
RowsType == DOMAIN queue \subseteq Ops

TypeOK == MadeType /\ LogType /\ WireType /\ TaskType /\ RowsType

\* An operation that no younger one needs to wait for.
Over(o) == Handled(o) \/ o \in held

\* What is not over is due.
DueOrOver == \A o \in Ops : Over(o) \/ (o \in DOMAIN queue /\ queue[o] = Pending)

\* Before what is read, sent and handled goes all that is older and not over.
ReadInOrder ==
    \A t \in Tabs : task[t].stage = "read" =>
        \A x \in ToSet(task[t].rows), o \in Ops : o < x => Over(o) \/ o \in ToSet(task[t].rows)

SentInOrder ==
    \A r \in requests : \A k \in DOMAIN r.todo, o \in Ops :
        o < r.todo[k] => Over(o) \/ \E m \in DOMAIN r.todo : m < k /\ r.todo[m] = o

LogInOrder == \A i \in DOMAIN log, o \in Ops : o < log[i].op => Over(o)

InOrder == DueOrOver /\ ReadInOrder /\ SentInOrder /\ LogInOrder

\* An answer is the verdict in the log, or says that there is one.
Told(a) == \E i \in DOMAIN log : log[i].op = a.op /\ a.result \in {log[i].result, "DUPLICATE"}

AnswersAreLogged ==
    /\ \A r \in requests : \A i \in DOMAIN r.answers : Told(r.answers[i])
    /\ \A t \in Tabs : \A i \in DOMAIN task[t].answers : Told(task[t].answers[i])

CourierInv == TypeOK /\ InOrder /\ AnswersAreLogged /\ HandledAsRecorded /\ AccountedFor

(***************************************************************************)
(* Lists of operations.                                                    *)
(***************************************************************************)
LEMMA AnswerIs ==
    \A S : \A a : a \in Answers(S) <=>
        a = [op |-> a.op, result |-> a.result] /\ a.op \in S /\ a.result \in Results \cup {"DUPLICATE"}
BY DEF Answers

LEMMA EntryIs ==
    \A S : \A a : a \in Entries(S) <=>
        a = [op |-> a.op, result |-> a.result] /\ a.op \in S /\ a.result \in Results
BY DEF Entries

LEMMA MoreAnswers == \A S, T : S \subseteq T => Answers(S) \subseteq Answers(T) /\ Entries(S) \subseteq Entries(T)
BY AnswerIs, EntryIs

LEMMA MoreLists == \A S, T, s : S \subseteq T /\ s \in Seq(S) => s \in Seq(T)
OBVIOUS

LEMMA MoreOperations ==
    ASSUME NEW S, NEW T, S \subseteq T
    PROVE  /\ \A r : RequestOK(r, S) => RequestOK(r, T)
           /\ \A x : TaskOK(x, S) => TaskOK(x, T)
<1>1. Answers(S) \subseteq Answers(T)
    BY MoreAnswers
<1> QED BY <1>1, MoreLists DEF RequestOK, TaskOK

LEMMA ListingIs ==
    ASSUME NEW S, NEW n \in Nat, S \subseteq 1..n, NEW s \in Listings(S)
    PROVE  /\ s \in Seq(S) /\ ToSet(s) = S
           /\ \A i, j \in DOMAIN s : i < j => s[i] < s[j]
           /\ S # {} => s # <<>>
<1>1. IsFiniteSet(S)
    <2>1. IsFiniteSet(1..n)
        BY FS_Interval
    <2> QED BY <2>1, FS_Subset
<1>2. Cardinality(S) \in Nat
    BY <1>1, FS_CardinalityType
<1>3. s \in [1..Cardinality(S) -> S] /\ ToSet(s) = S /\ \A i, j \in DOMAIN s : i < j => s[i] < s[j]
    BY DEF Listings
<1>4. s \in Seq(S)
    BY <1>2, <1>3
<1>5. S # {} => s # <<>>
    <2>1. s = <<>> => DOMAIN s = {}
        OBVIOUS
    <2> QED BY <1>3, <2>1 DEF ToSet
<1> QED BY <1>3, <1>4, <1>5

LEMMA ListingsOf == ASSUME NEW S, NEW T, NEW s \in Seq(S) PROVE ToSet(s) \subseteq S
BY DEF ToSet

LEMMA Shorter ==
    ASSUME NEW S, NEW s \in Seq(S), s # <<>>
    PROVE  /\ Head(s) = s[1] /\ 1 \in DOMAIN s /\ s[1] \in S /\ Tail(s) \in Seq(S)
           /\ \A i \in DOMAIN Tail(s) : i + 1 \in DOMAIN s /\ Tail(s)[i] = s[i + 1] /\ i \in Nat \ {0}
           /\ \A k \in DOMAIN s : k # 1 => k - 1 \in DOMAIN Tail(s)
           /\ Len(s) # 1 => Tail(s) # <<>>
<1>1. Len(s) \in Nat \ {0} /\ DOMAIN s = 1..Len(s)
    OBVIOUS
<1>2. Tail(s) \in Seq(S) /\ DOMAIN Tail(s) = 1..(Len(s) - 1)
    BY <1>1
<1>3. \A i \in 1..(Len(s) - 1) : Tail(s)[i] = s[i + 1]
    BY <1>1
<1>4. Len(s) # 1 => Tail(s) # <<>>
    <2>1. ASSUME Len(s) # 1 PROVE 1 \in DOMAIN Tail(s)
        BY <1>1, <1>2, <2>1
    <2>2. DOMAIN <<>> = {}
        OBVIOUS
    <2> QED BY <2>1, <2>2
<1>5. Head(s) = s[1] /\ s[1] \in S
    BY <1>1
<1> QED BY <1>1, <1>2, <1>3, <1>4, <1>5

LEMMA Longer ==
    ASSUME NEW S, NEW s \in Seq(S), NEW e
    PROVE  /\ e \in S => Append(s, e) \in Seq(S)
           /\ Append(s, e) # <<>>
           /\ DOMAIN s \subseteq DOMAIN Append(s, e)
           /\ \A i \in DOMAIN s : Append(s, e)[i] = s[i] /\ i \in 1..Len(s)
           /\ \A i \in DOMAIN Append(s, e) : i \in DOMAIN s \/ (i = Len(s) + 1 /\ Append(s, e)[i] = e)
           /\ Len(s) + 1 \in DOMAIN Append(s, e) /\ Append(s, e)[Len(s) + 1] = e
<1>1. Len(s) \in Nat /\ DOMAIN s = 1..Len(s)
    OBVIOUS
<1>2. DOMAIN Append(s, e) = 1..(Len(s) + 1)
    BY <1>1
<1>3. \A i \in 1..(Len(s) + 1) : Append(s, e)[i] = IF i = Len(s) + 1 THEN e ELSE s[i]
    BY <1>1
<1>4. e \in S => Append(s, e) \in Seq(S)
    OBVIOUS
<1>5. Append(s, e) # <<>>
    BY <1>1, <1>2
<1> QED BY <1>1, <1>2, <1>3, <1>4, <1>5

(***************************************************************************)
(* What stays.                                                             *)
(***************************************************************************)
LogGrows == log' = log \/ \E e : log' = Append(log, e)

LEMMA WhatIsOverStaysOver ==
    ASSUME LogType, LogGrows, held \subseteq held'
    PROVE  /\ \A o : Over(o) => Over(o)'
           /\ \A a : Told(a) => Told(a)'
<1>1. /\ DOMAIN log \subseteq DOMAIN log'
      /\ \A i \in DOMAIN log : log'[i] = log[i]
    <2>1. CASE log' = log
        BY <2>1
    <2>2. ASSUME NEW e, log' = Append(log, e)
          PROVE  DOMAIN log \subseteq DOMAIN log' /\ \A i \in DOMAIN log : log'[i] = log[i]
        BY <2>2, Longer DEF LogType
    <2> QED BY <2>1, <2>2 DEF LogGrows
<1> QED BY <1>1 DEF Over, Handled, Told

LEMMA OpsAre == MadeType => Len(made) \in Nat /\ Ops \subseteq Nat
BY DEF MadeType, Ops

LEMMA NoTaskOK == \A S : TaskOK(NoTask, S) /\ NoTask.answers = <<>> /\ NoTask.stage # "read"
BY DEF NoTask, TaskOK, Stages

LEMMA TailOfAnswers ==
    ASSUME NEW s \in Seq(Answers(Ops)), s # <<>>, \A i \in DOMAIN s : Told(s[i])
    PROVE  \A i \in DOMAIN Tail(s) : Told(Tail(s)[i])
BY Shorter

\* What a request and a tab must be to be among the others.
WaitsRightly(r) ==
    /\ RequestOK(r, Ops)
    /\ \A i \in DOMAIN r.answers : Told(r.answers[i])
    /\ \A k \in DOMAIN r.todo, o \in Ops :
          o < r.todo[k] => Over(o) \/ \E m \in DOMAIN r.todo : m < k /\ r.todo[m] = o

WorksRightly(x) ==
    /\ TaskOK(x, Ops)
    /\ \A i \in DOMAIN x.answers : Told(x.answers[i])
    /\ x.stage = "read" =>
          \A y \in ToSet(x.rows), o \in Ops : o < y => Over(o) \/ o \in ToSet(x.rows)

LEMMA InvIs ==
    CourierInv <=>
        /\ MadeType /\ LogType /\ RowsType
        /\ \A r \in requests : WaitsRightly(r)
        /\ DOMAIN task = Tabs /\ \A t \in Tabs : WorksRightly(task[t])
        /\ DueOrOver /\ LogInOrder /\ HandledAsRecorded /\ AccountedFor
BY DEF CourierInv, TypeOK, InOrder, WireType, TaskType, AnswersAreLogged, ReadInOrder, SentInOrder,
       WaitsRightly, WorksRightly

LEMMA InvIsNext ==
    ASSUME MadeType', LogType', RowsType', \A r \in requests' : WaitsRightly(r)',
           DOMAIN task' = Tabs, \A t \in Tabs : WorksRightly(task[t])',
           DueOrOver', LogInOrder', HandledAsRecorded', AccountedFor'
    PROVE  CourierInv'
<1>1. WireType' /\ SentInOrder' /\ \A r \in requests' : (\A i \in DOMAIN r.answers : Told(r.answers[i]))'
    BY DEF WaitsRightly, WireType, SentInOrder
<1>2. TaskType' /\ ReadInOrder' /\ \A t \in Tabs : (\A i \in DOMAIN task[t].answers : Told(task[t].answers[i]))'
    BY DEF WorksRightly, TaskType, ReadInOrder
<1>3. AnswersAreLogged'
    BY <1>1, <1>2 DEF AnswersAreLogged
<1> QED
    BY <1>1, <1>2, <1>3 DEF CourierInv, TypeOK, InOrder

\* They stay so, whatever else is recorded, handled and held back.
LEMMA RightStaysRight ==
    ASSUME LogType, LogGrows, held \subseteq held', MadeType,
           made' = made \/ \E e : made' = Append(made, e)
    PROVE  /\ \A r : WaitsRightly(r) => WaitsRightly(r)'
           /\ \A x : WorksRightly(x) => WorksRightly(x)'
           /\ Ops \subseteq Ops'
<1>1. Ops \subseteq Ops' /\ \A o \in Ops', y \in Ops : o < y => o \in Ops
    <2>1. Len(made) \in Nat /\ (Len(made') = Len(made) \/ Len(made') = Len(made) + 1)
        BY DEF MadeType
    <2> QED BY <2>1 DEF Ops
<1>2. /\ \A o : Over(o) => Over(o)'
      /\ \A a : Told(a) => Told(a)'
    BY WhatIsOverStaysOver
<1>3. ASSUME NEW r, WaitsRightly(r) PROVE WaitsRightly(r)'
    <2>1. RequestOK(r, Ops')
        BY <1>1, <1>3, MoreOperations DEF WaitsRightly
    <2>2. \A k \in DOMAIN r.todo : r.todo[k] \in Ops
        BY <1>3 DEF WaitsRightly, RequestOK
    <2> QED BY <1>1, <1>2, <1>3, <2>1, <2>2 DEF WaitsRightly
<1>4. ASSUME NEW x, WorksRightly(x) PROVE WorksRightly(x)'
    <2>1. TaskOK(x, Ops')
        BY <1>1, <1>4, MoreOperations DEF WorksRightly
    <2>2. ToSet(x.rows) \subseteq Ops
        BY <1>4, ListingsOf DEF WorksRightly, TaskOK
    <2> QED BY <1>1, <1>2, <1>4, <2>1, <2>2 DEF WorksRightly
<1> QED BY <1>1, <1>3, <1>4

(***************************************************************************)
(* What a step must do to the queue, the requests and the tabs, when it    *)
(* neither records nor handles anything.                                   *)
(***************************************************************************)
QueueGoes ==
    /\ DOMAIN queue' \subseteq Ops /\ again \subseteq again' /\ held \subseteq held'
    /\ \A o \in DOMAIN queue :
          \/ o \in DOMAIN queue' /\ (queue'[o] = queue[o] \/ queue[o] # Pending \/ Handled(o) \/ o \in held')
          \/ \E i \in DOMAIN log : log[i].op = o /\ (log[i].result = "APPLIED" \/ o \in again')

LEMMA QueueStays == RowsType /\ UNCHANGED <<queue, again, held>> => QueueGoes
BY DEF QueueGoes, RowsType

RequestsGo == \A r : r \in requests' => r \in requests \/ WaitsRightly(r)'
TasksGo == DOMAIN task' = Tabs /\ \A t \in Tabs : task'[t] = task[t] \/ \E x : task'[t] = x /\ WorksRightly(x)

LEMMA GoingKeeps ==
    ASSUME CourierInv, UNCHANGED <<made, log>>, key' \in [Tabs -> Nat],
           QueueGoes, RequestsGo, TasksGo
    PROVE  CourierInv'
<1>1. held \subseteq held' /\ LogGrows /\ MadeType /\ LogType
    BY DEF QueueGoes, LogGrows, CourierInv, TypeOK
<1>2. /\ \A r : WaitsRightly(r) => WaitsRightly(r)'
      /\ \A x : WorksRightly(x) => WorksRightly(x)'
    BY <1>1, RightStaysRight
<1>3. \A o : Over(o) => Over(o)'
    BY <1>1, WhatIsOverStaysOver
<1>4. Ops' = Ops
    BY DEF Ops
<1>5. MadeType' /\ LogType' /\ RowsType'
    BY <1>1, <1>4 DEF MadeType, LogType, RowsType, QueueGoes
<1>6. \A r \in requests' : WaitsRightly(r)'
    BY <1>2, InvIs DEF RequestsGo
<1>7. ASSUME NEW t \in Tabs PROVE WorksRightly(task[t])'
    <2>1. PICK x : x = task'[t]
        OBVIOUS
    <2>2. WorksRightly(x)
        BY <2>1, InvIs DEF TasksGo
    <2> QED BY <1>2, <2>1, <2>2 DEF WorksRightly
<1>8. DueOrOver'
    <2> SUFFICES ASSUME NEW o \in Ops PROVE Over(o)' \/ (o \in DOMAIN queue' /\ queue'[o] = Pending)
        BY <1>4 DEF DueOrOver
    <2>1. Over(o) \/ (o \in DOMAIN queue /\ queue[o] = Pending)
        BY InvIs DEF DueOrOver
    <2>2. Handled(o) \/ o \in held' => Over(o)'
        BY DEF Over, Handled
    <2> QED BY <1>3, <2>1, <2>2 DEF QueueGoes, Handled
<1>9. LogInOrder' /\ HandledAsRecorded'
    BY <1>1, <1>3, <1>4, InvIs DEF LogInOrder, HandledAsRecorded
<1>10. AccountedFor'
    <2> SUFFICES ASSUME NEW o \in Ops, o \notin DOMAIN queue'
                 PROVE  \E i \in DOMAIN log : log[i].op = o /\ (log[i].result = "APPLIED" \/ o \in again')
        BY <1>4 DEF AccountedFor
    <2> QED BY InvIs DEF AccountedFor, QueueGoes
<1>11. DOMAIN task' = Tabs
    BY DEF TasksGo
<1> QED
    BY <1>5, <1>6, <1>7, <1>8, <1>9, <1>10, <1>11, InvIsNext

LEMMA OneTabGoes ==
    ASSUME CourierInv, NEW t \in Tabs, NEW x, task' = [task EXCEPT ![t] = x], WorksRightly(x)
    PROVE  TasksGo
BY InvIs DEF TasksGo

LEMMA TabsStay == CourierInv /\ UNCHANGED task => TasksGo
BY InvIs DEF TasksGo

LEMMA RequestsStay == UNCHANGED requests => RequestsGo
BY DEF RequestsGo

LEMMA IdleIsRight == WorksRightly(NoTask)
BY NoTaskOK DEF WorksRightly, NoTask

LEMMA KeyStays == CourierInv /\ UNCHANGED key => key' \in [Tabs -> Nat]
BY DEF CourierInv, TypeOK, MadeType

LEMMA OfficeKeeps == ASSUME CourierInv, NEW s, Office(s) PROVE CourierInv'
BY QueueStays, TabsStay, RequestsStay, KeyStays, GoingKeeps, InvIs DEF Office, device

LEMMA NothingToSyncKeeps == ASSUME CourierInv, NEW t, NEW signal, NothingToSync(t, signal) PROVE CourierInv'
BY QueueStays, TabsStay, RequestsStay, KeyStays, GoingKeeps, InvIs DEF NothingToSync, backend

LEMMA ReopenKeeps == ASSUME CourierInv, NEW t, Reopen(t) PROVE CourierInv'
BY QueueStays, TabsStay, RequestsStay, KeyStays, GoingKeeps, InvIs DEF Reopen, backend

LEMMA WaitKeeps == ASSUME CourierInv, NEW o \in DOMAIN queue, Wait(o) PROVE CourierInv'
<1>1. QueueGoes
    BY InvIs DEF Wait, Waited, QueueGoes, RowsType, Pending
<1> QED BY <1>1, TabsStay, RequestsStay, KeyStays, GoingKeeps DEF Wait, backend

LEMMA BeginKeeps == ASSUME CourierInv, NEW t \in Tabs, Begin(t) PROVE CourierInv'
<1>1. PICK rows \in Listings(Due) : task' = [task EXCEPT ![t].stage = "read", ![t].rows = rows]
    BY DEF Begin
<1>2. Due \subseteq Ops /\ Ops = 1..Len(made) /\ Len(made) \in Nat
    BY InvIs, OpsAre DEF Due, PendingOf, RowsType, Ops
<1>3. rows \in Seq(Due) /\ ToSet(rows) = Due /\ rows # <<>>
    BY <1>2, ListingIs DEF Begin
<1>4. PICK x : x = [task[t] EXCEPT !.stage = "read", !.rows = rows]
    OBVIOUS
<1>5. task' = [task EXCEPT ![t] = x]
    BY <1>1, <1>4, InvIs
<1>6. WorksRightly(task[t])
    BY InvIs
<1>7. /\ DOMAIN x = DOMAIN task[t] /\ x.answers = task[t].answers
      /\ x.stage = "read" /\ x.rows = rows
    BY <1>4, <1>6 DEF WorksRightly, TaskOK
<1>8. TaskOK(x, Ops)
    BY <1>2, <1>3, <1>6, <1>7, MoreLists DEF WorksRightly, TaskOK, Stages
<1>9. \A o \in Ops : Over(o) \/ o \in Due
    BY InvIs DEF DueOrOver, Due, PendingOf, Pending
<1>10. WorksRightly(x)
    BY <1>3, <1>6, <1>7, <1>8, <1>9 DEF WorksRightly
<1> QED BY <1>5, <1>10, OneTabGoes, QueueStays, RequestsStay, KeyStays, GoingKeeps, InvIs DEF Begin, backend

LEMMA HearKeeps == ASSUME CourierInv, NEW t \in Tabs, Hear(t) PROVE CourierInv'
<1>1. PICK r \in requests : /\ r.tab = t /\ r.todo = <<>>
                            /\ requests' = requests \ {r}
                            /\ task' = [task EXCEPT ![t] = [stage |-> "heard", rows |-> <<>>, answers |-> r.answers]]
    BY DEF Hear
<1>2. WaitsRightly(r) /\ r.tab # Nobody
    BY <1>1, InvIs, CourierAssumption
<1>3. PICK x : x = [stage |-> "heard", rows |-> <<>>, answers |-> r.answers]
    OBVIOUS
<1>4. DOMAIN x = {"stage", "rows", "answers"} /\ x.stage = "heard" /\ x.rows = <<>> /\ x.answers = r.answers
    BY <1>3
<1>5. TaskOK(x, Ops)
    BY <1>1, <1>2, <1>4 DEF WaitsRightly, RequestOK, TaskOK, Stages
<1>6. WorksRightly(x)
    BY <1>2, <1>4, <1>5 DEF WaitsRightly, WorksRightly
<1>7. RequestsGo
    BY <1>1 DEF RequestsGo
<1> QED BY <1>1, <1>3, <1>6, <1>7, OneTabGoes, QueueStays, KeyStays, GoingKeeps, InvIs DEF Hear

LEMMA SettleKeeps == ASSUME CourierInv, NEW t \in Tabs, Settle(t) PROVE CourierInv'
<1> DEFINE answers == task[t].answers
           a == Head(answers)
<1>1. WorksRightly(task[t])
    BY InvIs
<1>2. answers \in Seq(Answers(Ops)) /\ answers # <<>>
    BY <1>1 DEF WorksRightly, TaskOK, Settle
<1>3. a \in Answers(Ops) /\ Told(a) /\ \A i \in DOMAIN Tail(answers) : Told(Tail(answers)[i])
    BY <1>1, <1>2, Shorter, TailOfAnswers DEF WorksRightly
<1>4. a.op \in Ops /\ a.result \in {"APPLIED", "DUPLICATE"} \cup Refused
    BY <1>3, AnswerIs DEF Results
<1>5. PICK i \in DOMAIN log : log[i].op = a.op /\ a.result \in {log[i].result, "DUPLICATE"}
    BY <1>3 DEF Told
<1>6. Handled(a.op)
    BY <1>5 DEF Handled
<1>7. /\ queue' = Settled(queue, a)
      /\ again' = IF a.result = "DUPLICATE" THEN again \cup {a.op} ELSE again
      /\ UNCHANGED <<log, made, requests, key, held>>
    BY DEF Settle, backend
<1>8. IF Len(answers) = 1 THEN task' = [task EXCEPT ![t] = NoTask]
                          ELSE task' = [task EXCEPT ![t].answers = Tail(@)]
    BY DEF Settle, Finish
<1> HIDE DEF a
<1>9. QueueGoes
    <2>1. RowsType
        BY InvIs
    <2>2. CASE a.result \in Refused
        <3>1. queue' = Put(queue, a.op, [Pending EXCEPT !.state = a.result])
            BY <1>7, <2>2 DEF Settled
        <3>2. DOMAIN queue' = DOMAIN queue \cup {a.op} /\ \A o \in DOMAIN queue : o # a.op => queue'[o] = queue[o]
            BY <3>1 DEF Put
        <3> QED BY <1>4, <1>6, <1>7, <2>1, <3>2 DEF QueueGoes, RowsType
    <2>3. CASE a.result \notin Refused
        <3>1. queue' = Drop(queue, a.op)
            BY <1>7, <2>3 DEF Settled
        <3>2. DOMAIN queue' = DOMAIN queue \ {a.op} /\ \A o \in DOMAIN queue' : queue'[o] = queue[o]
            BY <3>1 DEF Drop
        <3>3. log[i].result = "APPLIED" \/ a.op \in again'
            BY <1>4, <1>5, <1>7, <2>3
        <3> QED BY <1>5, <1>7, <2>1, <3>2, <3>3 DEF QueueGoes, RowsType
    <2> QED BY <2>2, <2>3
<1>10. TasksGo
    <2>1. CASE Len(answers) = 1
        BY <1>8, <2>1, IdleIsRight, OneTabGoes
    <2>2. CASE Len(answers) # 1
        <3>1. PICK x : x = [task[t] EXCEPT !.answers = Tail(answers)]
            OBVIOUS
        <3>2. DOMAIN x = DOMAIN task[t] /\ x.answers = Tail(answers) /\ x.stage = task[t].stage /\ x.rows = task[t].rows
            BY <1>1, <3>1 DEF WorksRightly, TaskOK
        <3>3. Tail(answers) \in Seq(Answers(Ops)) /\ Tail(answers) # <<>>
            BY <1>2, <2>2, Shorter
        <3>4. WorksRightly(x)
            BY <1>1, <1>3, <3>2, <3>3 DEF WorksRightly, TaskOK
        <3>5. task' = [task EXCEPT ![t] = x]
            BY <1>8, <2>2, <3>1, InvIs
        <3> QED BY <3>4, <3>5, OneTabGoes
    <2> QED BY <2>1, <2>2
<1> QED BY <1>7, <1>9, <1>10, RequestsStay, KeyStays, GoingKeeps

\* A request that is given up may go on at the server, for nobody.
LEMMA GivenUpGoes ==
    ASSUME CourierInv, NEW t, GivenUp(t), UNCHANGED <<made, log>>, held' = held PROVE RequestsGo
<1> SUFFICES ASSUME NEW x, x \in requests', x \notin requests PROVE WaitsRightly(x)'
    BY DEF RequestsGo
<1>1. PICK r \in requests : x = [r EXCEPT !.tab = Nobody, !.answers = <<>>]
    BY DEF GivenUp
<1>2. WaitsRightly(r)
    BY InvIs
<1>3. DOMAIN x = DOMAIN r /\ x.tab = Nobody /\ x.answers = <<>> /\ x.todo = r.todo
    BY <1>1, <1>2 DEF WaitsRightly, RequestOK
<1>4. WaitsRightly(x)
    BY <1>2, <1>3 DEF WaitsRightly, RequestOK
<1>5. LogGrows /\ MadeType /\ LogType
    BY InvIs DEF LogGrows
<1> QED BY <1>4, <1>5, RightStaysRight

LEMMA LoseKeeps == ASSUME CourierInv, NEW t \in Tabs, Lose(t) PROVE CourierInv'
<1>1. WorksRightly(task[t])
    BY InvIs
<1>2. PICK x : x = [task[t] EXCEPT !.stage = "failed"]
    OBVIOUS
<1>3. task' = [task EXCEPT ![t] = x]
    BY <1>2, InvIs DEF Lose
<1>4. /\ DOMAIN x = DOMAIN task[t] /\ x.answers = task[t].answers
      /\ x.stage = "failed" /\ x.rows = task[t].rows /\ task[t].stage = "sent"
    BY <1>1, <1>2 DEF WorksRightly, TaskOK, Lose
<1>5. WorksRightly(x)
    BY <1>1, <1>4 DEF WorksRightly, TaskOK, Stages
<1>6. RequestsGo
    BY GivenUpGoes DEF Lose
<1> QED BY <1>3, <1>5, <1>6, OneTabGoes, QueueStays, KeyStays, GoingKeeps, InvIs DEF Lose

LEMMA ReloadKeeps == ASSUME CourierInv, NEW t \in Tabs, NEW k \in Nat, Reload(t, k) PROVE CourierInv'
<1>1. RequestsGo
    BY GivenUpGoes DEF Reload
<1>2. TasksGo
    BY IdleIsRight, OneTabGoes DEF Reload
<1>3. key' \in [Tabs -> Nat]
    BY InvIs DEF Reload, MadeType
<1> QED BY <1>1, <1>2, <1>3, QueueStays, GoingKeeps, InvIs DEF Reload

\* The rest of what was read is looked at, or the tab is idle again.
LEMMA PastGoes ==
    ASSUME CourierInv, NEW t \in Tabs, task[t].stage \in {"failed", "found"}, Past(t)
    PROVE  TasksGo
<1>1. WorksRightly(task[t])
    BY InvIs
<1>2. task[t].rows \in Seq(Ops) /\ task[t].rows # <<>>
    BY <1>1 DEF WorksRightly, TaskOK
<1>3. CASE Len(task[t].rows) = 1
    BY <1>3, IdleIsRight, OneTabGoes DEF Past, Finish
<1>4. CASE Len(task[t].rows) # 1
    <2>1. PICK x : x = [task[t] EXCEPT !.stage = "failed", !.rows = Tail(task[t].rows)]
        OBVIOUS
    <2>2. task' = [task EXCEPT ![t].stage = "failed", ![t].rows = Tail(@)]
        BY <1>4 DEF Past
    <2>3. task' = [task EXCEPT ![t] = x]
        BY <1>1, <2>1, <2>2, InvIs DEF WorksRightly, TaskOK
    <2>4. DOMAIN x = DOMAIN task[t] /\ x.answers = task[t].answers /\ x.stage = "failed" /\ x.rows = Tail(task[t].rows)
        BY <1>1, <2>1 DEF WorksRightly, TaskOK
    <2>5. x.rows \in Seq(Ops) /\ x.rows # <<>>
        BY <1>2, <1>4, <2>4, Shorter
    <2>6. WorksRightly(x)
        BY <1>1, <2>4, <2>5 DEF WorksRightly, TaskOK, Stages
    <2> QED BY <2>3, <2>6, OneTabGoes
<1> QED BY <1>3, <1>4

LEMMA CheckKeeps == ASSUME CourierInv, NEW t \in Tabs, Check(t) PROVE CourierInv'
<1>1. TasksGo
    <2>1. CASE Head(task[t].rows) \in PendingOf(queue)
        <3>1. PICK x : x = [task[t] EXCEPT !.stage = "found"]
            OBVIOUS
        <3>2. task' = [task EXCEPT ![t] = x]
            BY <2>1, <3>1, InvIs DEF Check
        <3>3. WorksRightly(task[t])
            BY InvIs
        <3>4. /\ DOMAIN x = DOMAIN task[t] /\ x.answers = task[t].answers
              /\ x.stage = "found" /\ x.rows = task[t].rows /\ task[t].stage = "failed"
            BY <3>1, <3>3 DEF WorksRightly, TaskOK, Check
        <3>5. WorksRightly(x)
            BY <3>3, <3>4 DEF WorksRightly, TaskOK, Stages
        <3> QED BY <3>2, <3>5, OneTabGoes
    <2>2. CASE Head(task[t].rows) \notin PendingOf(queue)
        BY <2>2, PastGoes DEF Check
    <2> QED BY <2>1, <2>2
<1> QED BY <1>1, QueueStays, RequestsStay, KeyStays, GoingKeeps, InvIs DEF Check, backend

LEMMA PutBackKeeps == ASSUME CourierInv, NEW t \in Tabs, PutBack(t) PROVE CourierInv'
<1>1. TasksGo
    BY PastGoes DEF PutBack
<1>2. PICK o : o = Head(task[t].rows)
    OBVIOUS
<1>3. o \in Ops
    BY <1>2, InvIs, Shorter DEF PutBack, WorksRightly, TaskOK
<1>4. queue' = Put(queue, o, [Pending EXCEPT !.waits = TRUE]) /\ held' = held \cup {o} /\ again' = again
    BY <1>2 DEF PutBack
<1>5. DOMAIN queue' = DOMAIN queue \cup {o} /\ \A p \in DOMAIN queue : p # o => queue'[p] = queue[p]
    BY <1>4 DEF Put
<1>6. QueueGoes
    BY <1>3, <1>4, <1>5, InvIs DEF QueueGoes, RowsType
<1> QED BY <1>1, <1>6, RequestsStay, KeyStays, GoingKeeps DEF PutBack, backend

LEMMA PackKeeps == ASSUME CourierInv, NEW t \in Tabs, Pack(t) PROVE CourierInv'
<1> DEFINE rows == task[t].rows
           sendable == {o \in ToSet(rows) : Opens(t, o)}
           lost == ToSet(rows) \ sendable
<1>1. /\ task[t].stage = "read" /\ queue' = Expired(queue, lost) /\ held' = held \cup lost
      /\ UNCHANGED <<made, log, key, again>>
      /\ IF sendable = {}
         THEN task' = [task EXCEPT ![t] = NoTask] /\ requests' = requests
         ELSE /\ \E batch \in Listings(sendable) :
                    requests' = requests \cup {[tab |-> t, todo |-> batch, answers |-> <<>>]}
              /\ task' = [task EXCEPT ![t].stage = "sent"]
    BY DEF Pack, Finish
<1>2. WorksRightly(task[t])
    BY InvIs
<1>3. rows \in Seq(Ops)
    BY <1>2 DEF WorksRightly, TaskOK
<1>4. ToSet(rows) \subseteq Ops /\ sendable \subseteq Ops /\ lost \subseteq Ops
    BY <1>3, ListingsOf
<1>5. \A y \in ToSet(rows), o \in Ops : o < y => Over(o) \/ o \in ToSet(rows)
    BY <1>1, <1>2 DEF WorksRightly
<1> HIDE DEF rows, sendable
<1>6. DOMAIN queue' = DOMAIN queue \cup lost /\ \A o \in DOMAIN queue : o \notin lost => queue'[o] = queue[o]
    BY <1>1 DEF Expired
<1> HIDE DEF lost
<1>7. QueueGoes
    BY <1>1, <1>4, <1>6, InvIs DEF QueueGoes, RowsType
<1>8. CASE sendable = {}
    <2>1. TasksGo /\ RequestsGo
        BY <1>1, <1>8, IdleIsRight, OneTabGoes, RequestsStay
    <2> QED BY <1>1, <1>7, <2>1, KeyStays, GoingKeeps
<1>9. CASE sendable # {}
    <2>1. PICK batch \in Listings(sendable) :
              requests' = requests \cup {[tab |-> t, todo |-> batch, answers |-> <<>>]}
        BY <1>1, <1>9
    <2>2. Ops = 1..Len(made) /\ Len(made) \in Nat
        BY InvIs, OpsAre DEF Ops
    <2>3. /\ batch \in Seq(sendable) /\ ToSet(batch) = sendable /\ batch # <<>>
          /\ \A i, j \in DOMAIN batch : i < j => batch[i] < batch[j]
        BY <1>4, <1>9, <2>2, ListingIs
    <2>4. ASSUME NEW x, x = [tab |-> t, todo |-> batch, answers |-> <<>>] PROVE WaitsRightly(x)'
        <3>1. DOMAIN x = {"tab", "todo", "answers"} /\ x.todo = batch /\ x.answers = <<>>
            BY <2>4
        <3>2. RequestOK(x, Ops)
            BY <1>4, <2>3, <3>1, MoreLists DEF RequestOK
        <3>3. ASSUME NEW k \in DOMAIN batch, NEW o \in Ops, o < batch[k]
              PROVE  Over(o) \/ o \in held' \/ \E m \in DOMAIN batch : m < k /\ batch[m] = o
            <4>1. batch[k] \in ToSet(rows) /\ batch[k] \in Ops
                BY <1>4, <2>3 DEF ToSet, sendable
            <4>2. CASE o \in sendable
                <5>1. PICK m \in DOMAIN batch : batch[m] = o
                    BY <2>3, <4>2 DEF ToSet
                <5>2. m \in Nat /\ k \in Nat /\ batch[k] \in Nat /\ o \in Nat
                    BY <2>2, <2>3, <4>1
                <5>3. ~(k < m) /\ k # m
                    BY <2>3, <3>3, <5>1, <5>2
                <5> QED BY <5>1, <5>2, <5>3
            <4> QED BY <1>1, <1>5, <3>3, <4>1, <4>2 DEF lost
        <3>4. Ops' = Ops /\ (\A o : Over(o) \/ o \in held' => Over(o)') /\ \A i : i \notin DOMAIN <<>>
            BY <1>1 DEF Ops, Over, Handled
        <3> QED BY <3>1, <3>2, <3>3, <3>4 DEF WaitsRightly
    <2>5. RequestsGo
        BY <2>1, <2>4 DEF RequestsGo
    <2>6. TasksGo
        <3>1. PICK x : x = [task[t] EXCEPT !.stage = "sent"]
            OBVIOUS
        <3>2. task' = [task EXCEPT ![t] = x]
            BY <1>1, <1>9, <3>1, InvIs
        <3>3. /\ DOMAIN x = DOMAIN task[t] /\ x.answers = task[t].answers
              /\ x.stage = "sent" /\ x.rows = task[t].rows
            BY <1>2, <3>1 DEF WorksRightly, TaskOK
        <3>4. WorksRightly(x)
            BY <1>1, <1>2, <3>3 DEF WorksRightly, TaskOK, Stages
        <3> QED BY <3>2, <3>4, OneTabGoes
    <2> QED BY <1>1, <1>7, <2>5, <2>6, KeyStays, GoingKeeps
<1> QED BY <1>8, <1>9

(***************************************************************************)
(* The server.                                                             *)
(***************************************************************************)
LEMMA AnsweredGoes ==
    ASSUME CourierInv, NEW r \in requests, r.todo # <<>>, NEW a \in Answers(Ops), a.op = Head(r.todo),
           Answered(r, a), Told(a)', Handled(a.op)', LogGrows, UNCHANGED <<made, held>>
    PROVE  RequestsGo
<1> SUFFICES ASSUME NEW x, x \in requests', x \notin requests PROVE WaitsRightly(x)'
    BY DEF RequestsGo
<1>1. WaitsRightly(r) /\ LogType /\ MadeType
    BY InvIs
<1>2. r.todo \in Seq(Ops) /\ r.answers \in Seq(Answers(Ops)) /\ DOMAIN r = {"tab", "todo", "answers"}
    BY <1>1 DEF WaitsRightly, RequestOK
<1>3. /\ DOMAIN x = DOMAIN r /\ x.tab = r.tab /\ x.todo = Tail(r.todo)
      /\ x.answers = r.answers \/ x.answers = Append(r.answers, a)
      /\ r.tab # Nobody => x.answers = Append(r.answers, a)
    <2>1. CASE r.tab # Nobody
        <3>1. x = [r EXCEPT !.todo = Tail(@), !.answers = Append(@, a)]
            BY <2>1 DEF Answered
        <3> QED BY <1>2, <3>1
    <2>2. CASE r.tab = Nobody
        <3>1. x = [r EXCEPT !.todo = Tail(@)]
            BY <2>2 DEF Answered
        <3> QED BY <1>2, <2>2, <3>1
    <2> QED BY <2>1, <2>2
<1>4. RequestOK(x, Ops)
    <2>1. x.todo \in Seq(Ops)
        BY <1>2, <1>3, Shorter
    <2>2. Append(r.answers, a) \in Seq(Answers(Ops)) /\ Append(r.answers, a) # <<>>
        BY <1>2, Longer
    <2> QED BY <1>2, <1>3, <2>1, <2>2 DEF RequestOK
<1>5. (\A o : Over(o) => Over(o)') /\ (\A b : Told(b) => Told(b)') /\ Ops' = Ops
    BY <1>1, WhatIsOverStaysOver DEF Ops
<1>6. ASSUME NEW i \in DOMAIN x.answers PROVE Told(x.answers[i])'
    <2>1. Told(x.answers[i]) \/ x.answers[i] = a
        <3>1. CASE x.answers = r.answers
            BY <1>1, <3>1 DEF WaitsRightly
        <3>2. CASE x.answers = Append(r.answers, a)
            <4>1. i \in DOMAIN r.answers \/ x.answers[i] = a
                BY <1>2, <3>2, Longer
            <4>2. i \in DOMAIN r.answers => x.answers[i] = r.answers[i]
                BY <1>2, <3>2, Longer
            <4> QED BY <1>1, <4>1, <4>2 DEF WaitsRightly
        <3> QED BY <1>3, <3>1, <3>2
    <2>2. PICK b : b = x.answers[i]
        OBVIOUS
    <2>3. Told(b)'
        BY <1>5, <2>1, <2>2
    <2> QED BY <2>2, <2>3
<1>7. ASSUME NEW k \in DOMAIN x.todo, NEW o \in Ops, o < x.todo[k]
      PROVE  Over(o)' \/ \E m \in DOMAIN x.todo : m < k /\ x.todo[m] = o
    <2>1. k + 1 \in DOMAIN r.todo /\ x.todo[k] = r.todo[k + 1] /\ k \in Nat
        BY <1>2, <1>3, Shorter
    <2>2. CASE Over(o)
        BY <1>5, <2>2
    <2>3. ASSUME NEW m \in DOMAIN r.todo, m < k + 1, r.todo[m] = o
          PROVE  Over(o)' \/ \E l \in DOMAIN x.todo : l < k /\ x.todo[l] = o
        <3>1. CASE m = 1
            <4>1. o = a.op
                BY <1>2, <2>3, <3>1, Shorter
            <4> QED BY <4>1 DEF Over
        <3>2. CASE m # 1
            <4>1. m - 1 \in DOMAIN x.todo
                BY <1>2, <1>3, <3>2, Shorter
            <4>2. x.todo[m - 1] = r.todo[(m - 1) + 1] /\ m \in Nat
                BY <1>2, <1>3, <4>1, Shorter
            <4>3. m - 1 < k /\ (m - 1) + 1 = m
                BY <2>1, <2>3, <4>2
            <4> QED BY <2>3, <4>1, <4>2, <4>3
        <3> QED BY <3>1, <3>2
    <2> QED BY <1>1, <1>7, <2>1, <2>2, <2>3 DEF WaitsRightly
<1> QED BY <1>4, <1>5, <1>6, <1>7 DEF WaitsRightly

LEMMA RepeatKeeps ==
    ASSUME CourierInv, NEW r \in requests, Serve(r), Handled(Head(r.todo)) PROVE CourierInv'
<1>1. WaitsRightly(r) /\ r.todo # <<>>
    BY InvIs DEF Serve, One
<1>2. PICK o : o = Head(r.todo)
    OBVIOUS
<1>3. o \in Ops
    BY <1>1, <1>2, Shorter DEF WaitsRightly, RequestOK
<1>4. PICK a : a = [op |-> o, result |-> "DUPLICATE"]
    OBVIOUS
<1>5. Answered(r, a) /\ UNCHANGED <<stop, log>> /\ UNCHANGED <<device, troubles>>
    BY <1>2, <1>4 DEF Serve, One
<1>6. a \in Answers(Ops) /\ a.op = o /\ a.result = "DUPLICATE"
    BY <1>3, <1>4 DEF Answers
<1>7. Handled(a.op)' /\ Told(a)'
    BY <1>2, <1>5, <1>6 DEF Handled, Told
<1>8. RequestsGo
    BY <1>1, <1>2, <1>5, <1>6, <1>7, AnsweredGoes DEF LogGrows, device
<1> QED BY <1>5, <1>8, QueueStays, TabsStay, KeyStays, GoingKeeps, InvIs DEF device

LEMMA VerdictIs ==
    ASSUME NEW o \in Ops, NEW v \in Verdicts(o)
    PROVE  v[1] \in Results
BY DEF Verdicts, Results, Refused, Kinds, Closing

LEMMA PerformKeeps ==
    ASSUME CourierInv, NEW r \in requests, Serve(r), ~Handled(Head(r.todo)) PROVE CourierInv'
<1>1. WaitsRightly(r) /\ r.todo # <<>> /\ LogType /\ MadeType
    BY InvIs DEF Serve, One
<1>2. PICK o : o = Head(r.todo)
    OBVIOUS
<1>3. o \in Ops /\ 1 \in DOMAIN r.todo /\ r.todo[1] = o /\ DOMAIN r.todo \subseteq Nat \ {0}
    BY <1>1, <1>2, Shorter DEF WaitsRightly, RequestOK
<1>4. UNCHANGED <<made, queue, task, key, held, again>>
    BY DEF Serve, device
<1>5. PICK v \in Verdicts(o) :
          log' = Append(log, [op |-> o, result |-> v[1]]) /\ Answered(r, [op |-> o, result |-> v[1]])
    BY <1>2 DEF Serve, One, Perform
<1>6. PICK a : a = [op |-> o, result |-> v[1]]
    OBVIOUS
<1>7. a \in Entries(Ops) /\ a \in Answers(Ops) /\ a.op = o
    BY <1>3, <1>6, VerdictIs DEF Entries, Answers
<1>8. PICK n : n = Len(log) + 1
    OBVIOUS
<1>9. /\ log' \in Seq(Entries(Ops)) /\ DOMAIN log \subseteq DOMAIN log'
      /\ \A i \in DOMAIN log : log'[i] = log[i] /\ i \in Nat /\ i < n
      /\ n \in DOMAIN log' /\ log'[n] = a /\ \A i \in DOMAIN log' : i \in DOMAIN log \/ i = n
    <2>1. Len(log) \in Nat /\ log \in Seq(Entries(Ops))
        BY <1>1 DEF LogType
    <2> QED BY <1>5, <1>6, <1>7, <1>8, <2>1, Longer
<1>10. Ops' = Ops /\ LogGrows
    BY <1>4, <1>5 DEF Ops, LogGrows
<1>11. LogType' /\ MadeType' /\ RowsType'
    BY <1>4, <1>9, <1>10, InvIs DEF LogType, MadeType, RowsType
<1>12. Handled(o)' /\ Told(a)'
    BY <1>7, <1>9 DEF Handled, Told
<1>13. (\A p : Over(p) => Over(p)') /\ (\A x : WaitsRightly(x) => WaitsRightly(x)')
       /\ \A x : WorksRightly(x) => WorksRightly(x)'
    BY <1>1, <1>4, <1>10, WhatIsOverStaysOver, RightStaysRight
<1>14. \A x \in requests' : WaitsRightly(x)'
    <2>1. RequestsGo
        BY <1>1, <1>2, <1>4, <1>5, <1>6, <1>7, <1>10, <1>12, AnsweredGoes
    <2> QED BY <1>13, <2>1, InvIs DEF RequestsGo
<1>15. ASSUME NEW t \in Tabs PROVE WorksRightly(task[t])'
    <2>1. PICK x : x = task[t] /\ x = task'[t]
        BY <1>4
    <2>2. WorksRightly(x)'
        BY <1>13, <2>1, InvIs
    <2> QED BY <2>1, <2>2 DEF WorksRightly
<1>16. DueOrOver'
    BY <1>4, <1>10, <1>13, InvIs DEF DueOrOver
<1>17. LogInOrder'
    <2> SUFFICES ASSUME NEW i \in DOMAIN log', NEW p \in Ops, p < log'[i].op PROVE Over(p)'
        BY <1>10 DEF LogInOrder
    <2>1. CASE i \in DOMAIN log
        BY <1>9, <1>13, <2>1, InvIs DEF LogInOrder
    <2>2. CASE i = n
        <3>1. p < r.todo[1]
            BY <1>3, <1>7, <1>9, <2>2
        <3>2. \A m \in DOMAIN r.todo : ~(m < 1)
            BY <1>3
        <3> QED BY <1>1, <1>3, <1>13, <3>1, <3>2 DEF WaitsRightly
    <2> QED BY <1>9, <2>1, <2>2
<1>18. HandledAsRecorded'
    <2>1. HandledAsRecorded /\ LogInOrder /\ ~Handled(o)
        BY <1>2, InvIs
    <2>2. ASSUME NEW i \in DOMAIN log', NEW j \in DOMAIN log', log'[i].op = log'[j].op PROVE i = j
        BY <1>7, <1>9, <2>1, <2>2 DEF HandledAsRecorded, Handled
    <2>3. ASSUME NEW i \in DOMAIN log', NEW j \in DOMAIN log', i < j, log'[i].op > log'[j].op
          PROVE  log'[j].op \in held
        <3>1. CASE i \in DOMAIN log /\ j \in DOMAIN log
            BY <1>9, <2>1, <2>3, <3>1 DEF HandledAsRecorded
        <3>2. CASE i \in DOMAIN log /\ j = n
            <4>1. log[i].op \in Ops
                BY <1>1, <3>2, EntryIs DEF LogType
            <4>2. Ops \subseteq Nat
                BY <1>1, OpsAre
            <4>3. o < log[i].op
                BY <1>3, <1>7, <1>9, <2>3, <3>2, <4>1, <4>2
            <4> QED BY <1>3, <1>7, <1>9, <2>1, <3>2, <4>3 DEF LogInOrder, Over
        <3>3. CASE i = n
            <4>1. n \in Nat
                BY <1>1, <1>8 DEF LogType
            <4> QED BY <1>9, <2>3, <3>3, <4>1
        <3> QED BY <1>9, <3>1, <3>2, <3>3
    <2> QED BY <1>4, <2>2, <2>3 DEF HandledAsRecorded
<1>19. AccountedFor'
    BY <1>4, <1>9, <1>10, InvIs DEF AccountedFor
<1> QED BY <1>4, <1>11, <1>14, <1>15, <1>16, <1>17, <1>18, <1>19, InvIs, InvIsNext

(***************************************************************************)
(* The courier.                                                            *)
(***************************************************************************)
LEMMA ActKeeps == ASSUME CourierInv, NEW t \in Hands, NEW kind \in Kinds, Act(t, kind) PROVE CourierInv'
<1>1. MadeType /\ LogType
    BY InvIs
<1>2. UNCHANGED <<log, requests, task, key, held, again>>
    BY DEF Act, backend
<1>3. PICK e : e = [kind |-> kind, seal |-> IF kind = "CONFIRM" THEN <<t, key[t]>> ELSE Unsealed]
    OBVIOUS
<1>4. made' = Append(made, e) /\ queue' = Put(queue, Len(made'), Pending)
    BY <1>3 DEF Act
<1>5. e \in [kind : Kinds, seal : (Tabs \cup {Nobody}) \X Nat]
    BY <1>1, <1>3, CourierAssumption DEF MadeType, Unsealed
<1>6. PICK n : n = Len(made) + 1
    OBVIOUS
<1>7. MadeType' /\ Len(made') = n /\ Len(made) \in Nat
    BY <1>1, <1>2, <1>4, <1>5, <1>6 DEF MadeType
<1>8. Ops' = Ops \cup {n} /\ \A o \in Ops : o < n /\ o \in Nat
    BY <1>6, <1>7 DEF Ops
<1>9. queue' = Put(queue, n, Pending)
    BY <1>4, <1>7
<1>10. DOMAIN queue' = DOMAIN queue \cup {n} /\ queue'[n] = Pending
       /\ \A o \in DOMAIN queue : o # n => queue'[o] = queue[o]
    BY <1>9 DEF Put
<1>11. LogGrows /\ held \subseteq held'
    BY <1>2 DEF LogGrows
<1>12. (\A p : Over(p) => Over(p)') /\ (\A x : WaitsRightly(x) => WaitsRightly(x)')
       /\ \A x : WorksRightly(x) => WorksRightly(x)'
    BY <1>1, <1>4, <1>11, WhatIsOverStaysOver, RightStaysRight
<1>13. LogType' /\ RowsType'
    <2>1. Entries(Ops) \subseteq Entries(Ops')
        BY <1>8, MoreAnswers
    <2>2. log' \in Seq(Entries(Ops'))
        BY <1>1, <1>2, <2>1, MoreLists DEF LogType
    <2> QED BY <1>8, <1>10, <2>2, InvIs DEF LogType, RowsType
<1>14. \A x \in requests' : WaitsRightly(x)'
    BY <1>2, <1>12, InvIs
<1>15. ASSUME NEW u \in Tabs PROVE WorksRightly(task[u])'
    <2>1. PICK x : x = task[u] /\ x = task'[u]
        BY <1>2
    <2>2. WorksRightly(x)'
        BY <1>12, <2>1, InvIs
    <2> QED BY <2>1, <2>2 DEF WorksRightly
<1>16. DueOrOver'
    BY <1>8, <1>10, <1>12, InvIs DEF DueOrOver
<1>17. LogInOrder' /\ HandledAsRecorded'
    <2>1. \A i \in DOMAIN log : log[i].op \in Ops
        BY <1>1, EntryIs DEF LogType
    <2>2. ASSUME NEW i \in DOMAIN log, NEW o \in Ops', o < log[i].op PROVE Over(o)'
        <3>1. o \in Ops
            BY <1>8, <2>1, <2>2, <1>6, <1>7
        <3> QED BY <1>12, <2>2, <3>1, InvIs DEF LogInOrder
    <2> QED BY <1>2, <2>2, InvIs DEF LogInOrder, HandledAsRecorded
<1>18. AccountedFor'
    BY <1>2, <1>8, <1>10, InvIs DEF AccountedFor
<1> QED BY <1>2, <1>7, <1>13, <1>14, <1>15, <1>16, <1>17, <1>18, InvIs, InvIsNext

(***************************************************************************)
(* Theorems.                                                               *)
(***************************************************************************)
LEMMA NothingRecordedYet == Init => CourierInv
<1> SUFFICES ASSUME Init PROVE CourierInv
    OBVIOUS
<1>1. made = <<>> /\ log = <<>> /\ queue = <<>> /\ requests = {} /\ task = [t \in Tabs |-> NoTask]
    BY DEF Init
<1>2. Ops = {} /\ DOMAIN log = {} /\ DOMAIN queue = {}
    BY <1>1 DEF Ops
<1>3. MadeType /\ LogType /\ RowsType
    BY <1>1, <1>2 DEF Init, MadeType, LogType, RowsType
<1>4. \A t \in Tabs : WorksRightly(task[t])
    BY <1>1, IdleIsRight
<1> QED
    BY <1>1, <1>2, <1>3, <1>4, InvIs DEF DueOrOver, LogInOrder, HandledAsRecorded, AccountedFor

LEMMA StepsKeepTheQueue == CourierInv /\ [Next]_vars => CourierInv'
<1> SUFFICES ASSUME CourierInv, [Next]_vars PROVE CourierInv'
    OBVIOUS
<1>1. ASSUME NEW r \in requests, Serve(r) PROVE CourierInv'
    BY <1>1, RepeatKeeps, PerformKeeps
<1>2. ASSUME NEW s \in Closed, Office(s) PROVE CourierInv'
    BY <1>2, OfficeKeeps
<1>3. ASSUME NEW t \in Tabs,
             (\E signal \in BOOLEAN : NothingToSync(t, signal)) \/ Syncs(t) \/ Lose(t)
      PROVE  CourierInv'
    BY <1>3, NothingToSyncKeeps, BeginKeeps, PackKeeps, HearKeeps, SettleKeeps, CheckKeeps, PutBackKeeps,
       LoseKeeps DEF Syncs
<1>4. ASSUME NEW t \in Hands,
             (\E kind \in Kinds : Act(t, kind)) \/ Reopen(t) \/ \E k \in {key[t], key[t] + 1} : Reload(t, k)
      PROVE  CourierInv'
    <2>1. key[t] \in Nat /\ key[t] + 1 \in Nat /\ t \in Tabs
        BY CourierAssumption, InvIs DEF MadeType
    <2> QED BY <1>4, <2>1, ActKeeps, ReopenKeeps, ReloadKeeps
<1>5. ASSUME NEW o \in DOMAIN queue, Wait(o) PROVE CourierInv'
    BY <1>5, WaitKeeps
<1>6. ASSUME UNCHANGED vars PROVE CourierInv'
    BY <1>6, QueueStays, TabsStay, RequestsStay, KeyStays, GoingKeeps, InvIs DEF vars, backend, device
<1> QED BY <1>1, <1>2, <1>3, <1>4, <1>5, <1>6 DEF Next

LEMMA QueueIsKept == Spec => []CourierInv
BY NothingRecordedYet, StepsKeepTheQueue, PTL DEF Spec

\* The server acts on an operation once, and on the operations of a stop in the order they were recorded
\* (sync.py: the operation log; offline-queue.ts: listOperations): for any tabs, operations and troubles.
THEOREM OperationsKeepTheirOrder == Spec => []HandledAsRecorded
<1>1. CourierInv => HandledAsRecorded
    BY DEF CourierInv
<1> QED BY <1>1, QueueIsKept, PTL

\* Nothing the courier recorded is lost (courier-sync.ts: what is removed from the queue, and after which
\* answer): for any tabs, operations and troubles.
THEOREM NothingRecordedIsLost == Spec => []AccountedFor
<1>1. CourierInv => AccountedFor
    BY DEF CourierInv
<1> QED BY <1>1, QueueIsKept, PTL

(***************************************************************************)
(* The journal.                                                            *)
(***************************************************************************)
Noted == [o \in Ops |-> made[o].kind]

LEMMA JournalStays ==
    ASSUME UNCHANGED <<stop, made, log, held, again>>, DOMAIN queue' = DOMAIN queue
    PROVE  UNCHANGED Kept!journalVars
BY DEF Kept!journalVars, Ops

LEMMA NotedStays == UNCHANGED made => UNCHANGED Noted /\ UNCHANGED Ops
BY DEF Noted, Ops

LEMMA KindsAre ==
    ASSUME MadeType, NEW o \in Ops
    PROVE  made[o].kind \in Kinds
<1> DEFINE S == [kind : Kinds, seal : (Tabs \cup {Nobody}) \X Nat]
<1>1. made \in Seq(S)
    BY DEF MadeType
<1>2. \A e \in S : e.kind \in Kinds
    OBVIOUS
<1> HIDE DEF S
<1>3. made[o] \in S
    BY <1>1 DEF Ops
<1> QED BY <1>2, <1>3

LEMMA AppendIs ==
    ASSUME NEW S, NEW s \in Seq(S), NEW e \in S
    PROVE  Append(s, e) = [i \in 1..(Len(s) + 1) |-> IF i = Len(s) + 1 THEN e ELSE s[i]]
<1>1. Len(s) \in Nat
    OBVIOUS
<1>2. PICK f : f = [i \in 1..(Len(s) + 1) |-> IF i = Len(s) + 1 THEN e ELSE s[i]]
    OBVIOUS
<1>3. DOMAIN f = 1..(Len(s) + 1) /\ \A i \in DOMAIN f : f[i] \in S
    BY <1>1, <1>2
<1>4. f \in Seq(S) /\ Len(f) = Len(s) + 1
    BY <1>1, <1>2, <1>3
<1>5. PICK g : g = Append(s, e)
    OBVIOUS
<1>6. g \in Seq(S) /\ Len(g) = Len(s) + 1 /\ \A i \in 1..(Len(s) + 1) : g[i] = f[i]
    BY <1>1, <1>2, <1>5
<1>7. f = g
    BY <1>1, <1>4, <1>6
<1> QED BY <1>2, <1>5, <1>7

LEMMA DecidedIsHandled == \A o : Kept!Decided(o) <=> Handled(o)
BY DEF Kept!Decided, Handled, ToSet

LEMMA LogIsJournalled ==
    ASSUME LogType, NEW i \in DOMAIN log
    PROVE  /\ [op |-> log[i].op, result |-> log[i].result] \in ToSet(log)
           /\ log[i].op \in Ops /\ log[i].result \in Results
<1>1. log[i] \in Entries(Ops)
    BY DEF LogType
<1>2. log[i] \in ToSet(log)
    BY DEF ToSet
<1> QED BY <1>1, <1>2, EntryIs

LEMMA OfficeIsJournalled == ASSUME NEW s \in Closed, Office(s) PROVE Kept!Office(s)
BY DEF Office, Kept!Office, Kept!OnRoad, OnRoad, device, Ops

LEMMA ActIsJournalled ==
    ASSUME CourierInv, NEW t \in Hands, NEW kind \in Kinds, Act(t, kind)
    PROVE  Kept!Note(kind)
<1>1. MadeType /\ UNCHANGED <<stop, log, held, again>>
    BY InvIs DEF Act, backend
<1>2. PICK e : e = [kind |-> kind, seal |-> IF kind = "CONFIRM" THEN <<t, key[t]>> ELSE Unsealed]
    OBVIOUS
<1>3. made' = Append(made, e) /\ e.kind = kind /\ queue' = Put(queue, Len(made'), Pending)
    BY <1>2 DEF Act
<1>4. PICK n \in Nat : n = Len(made)
    BY <1>1 DEF MadeType
<1>5. Len(made') = n + 1 /\ made'[n + 1] = e /\ \A o \in 1..n : made'[o] = made[o]
    BY <1>1, <1>3, <1>4 DEF MadeType
<1>6. Noted \in Seq(Kinds) /\ Len(Noted) = n
    <2>1. \A o \in 1..n : made[o].kind \in Kinds
        BY <1>1, <1>4, KindsAre DEF Ops
    <2> QED BY <1>4, <2>1 DEF Noted, Ops
<1>7. Noted' = [o \in 1..(n + 1) |-> IF o = n + 1 THEN kind ELSE Noted[o]]
    BY <1>3, <1>4, <1>5 DEF Noted, Ops
<1>8. Append(Noted, kind) = [o \in 1..(n + 1) |-> IF o = n + 1 THEN kind ELSE Noted[o]]
    <2>1. PICK s \in Seq(Kinds) : s = Noted /\ Len(s) = n
        BY <1>6
    <2> QED BY <2>1, AppendIs
<1>9. Noted' = Append(Noted, kind) /\ Len(Noted') = n + 1
    BY <1>6, <1>7, <1>8
<1>10. DOMAIN queue' = DOMAIN queue \cup {n + 1}
    BY <1>3, <1>5 DEF Put
<1> QED BY <1>1, <1>9, <1>10 DEF Kept!Note, Noted

LEMMA ServeIsJournalled ==
    ASSUME CourierInv, NEW r \in requests, Serve(r)
    PROVE  Kept!Next \/ UNCHANGED Kept!journalVars
<1>1. WaitsRightly(r) /\ r.todo # <<>> /\ LogType /\ MadeType
    BY InvIs DEF Serve, One
<1>2. PICK o : o = Head(r.todo)
    OBVIOUS
<1>3. o \in Ops /\ 1 \in DOMAIN r.todo /\ r.todo[1] = o /\ DOMAIN r.todo \subseteq Nat \ {0}
    BY <1>1, <1>2, Shorter DEF WaitsRightly, RequestOK
<1>4. UNCHANGED <<made, queue, held, again>>
    BY DEF Serve, device
<1>5. CASE Handled(o)
    BY <1>2, <1>4, <1>5, JournalStays DEF Serve, One
<1>6. CASE ~Handled(o)
    <2>1. PICK v \in Verdicts(o) : log' = Append(log, [op |-> o, result |-> v[1]]) /\ stop' = v[2]
        BY <1>2, <1>6 DEF Serve, One, Perform
    <2>2. PICK a : a = [op |-> o, result |-> v[1]]
        OBVIOUS
    <2>3. ToSet(log') = ToSet(log) \cup {a}
        <3>1. Len(log) \in Nat /\ log \in Seq(Entries(Ops))
            BY <1>1 DEF LogType
        <3>2. /\ DOMAIN log \subseteq DOMAIN log' /\ \A i \in DOMAIN log : log'[i] = log[i]
              /\ Len(log) + 1 \in DOMAIN log' /\ log'[Len(log) + 1] = a
              /\ \A i \in DOMAIN log' : i \in DOMAIN log \/ (i = Len(log) + 1 /\ log'[i] = a)
            BY <2>1, <2>2, <3>1, Longer
        <3> QED BY <3>2 DEF ToSet
    <2>4. o \in DOMAIN queue
        BY <1>3, <1>6, InvIs DEF AccountedFor, Handled
    <2>5. \A p \in Ops : p < o => Handled(p) \/ p \in held
        <3>1. \A m \in DOMAIN r.todo : ~(m < 1)
            BY <1>3
        <3> QED BY <1>1, <1>3, <3>1 DEF WaitsRightly, Over
    <2>6. Kept!Decide(o, v[1])
        BY <1>4, <1>6, <2>2, <2>3, <2>4, <2>5, NotedStays, DecidedIsHandled DEF Kept!Decide, Noted
    <2>7. made[o].kind \in Kinds
        BY <1>1, <1>3, KindsAre
    <2>8. PICK k \in Kinds : k = made[o].kind /\ Noted[o] = k
        BY <1>3, <2>7 DEF Noted
    <2>9. \/ v[1] = "APPLIED" /\ k = "PAYMENT" /\ stop' = stop
          \/ v[1] = "APPLIED" /\ k = "ARRIVE" /\ stop = "IN_TRANSIT" /\ stop' = "ARRIVED"
          \/ v[1] = "APPLIED" /\ k = "CONFIRM" /\ stop \in OnRoad /\ stop' = "DELIVERED"
          \/ v[1] = "APPLIED" /\ k = "FAIL" /\ stop \in OnRoad /\ stop' = "FAILED"
          \/ v[1] = "CONFLICT" /\ k = "ARRIVE" /\ stop # "IN_TRANSIT" /\ stop' = stop
          \/ v[1] = "CONFLICT" /\ k \in {"CONFIRM", "FAIL"} /\ stop \notin OnRoad /\ stop' = stop
          \/ v[1] = "REJECTED" /\ k = "CONFIRM" /\ stop \in OnRoad /\ stop' = stop
        <3>1. k \in {"PAYMENT", "ARRIVE", "FAIL", "CONFIRM"}
            BY DEF Kinds, Closing
        <3>2. CASE k = "PAYMENT"
            <4>1. Verdicts(o) = {<<"APPLIED", stop>>}
                BY <2>8, <3>2 DEF Verdicts
            <4> QED BY <2>1, <3>2, <4>1
        <3>3. CASE k = "ARRIVE"
            <4>1. Verdicts(o) = {IF stop = "IN_TRANSIT" THEN <<"APPLIED", "ARRIVED">> ELSE <<"CONFLICT", stop>>}
                BY <2>8, <3>3 DEF Verdicts
            <4> QED BY <2>1, <3>3, <4>1
        <3>4. CASE k \in {"FAIL", "CONFIRM"} /\ stop \notin OnRoad
            <4>1. Verdicts(o) = {<<"CONFLICT", stop>>}
                BY <2>8, <3>4 DEF Verdicts
            <4> QED BY <2>1, <3>4, <4>1
        <3>5. CASE k = "FAIL" /\ stop \in OnRoad
            <4>1. Verdicts(o) = {<<"APPLIED", "FAILED">>}
                BY <2>8, <3>5 DEF Verdicts
            <4> QED BY <2>1, <3>5, <4>1
        <3>6. CASE k = "CONFIRM" /\ stop \in OnRoad
            <4>1. Verdicts(o) = {<<"APPLIED", "DELIVERED">>, <<"REJECTED", stop>>}
                BY <2>8, <3>6 DEF Verdicts
            <4> QED BY <2>1, <3>6, <4>1
        <3> QED BY <3>1, <3>2, <3>3, <3>4, <3>5, <3>6
    <2>10. Kept!Apply(o) \/ Kept!Refuse(o)
        BY <2>6, <2>8, <2>9 DEF Kept!Apply, Kept!Refuse, Kept!OnRoad, OnRoad, Noted
    <2> QED BY <1>3, <2>10 DEF Kept!Next, Noted
<1> QED BY <1>5, <1>6

LEMMA DelayIsJournalled ==
    ASSUME NEW S \in SUBSET Ops, UNCHANGED <<stop, made, log, again>>,
           DOMAIN queue' = DOMAIN queue \cup S, held' = held \cup S
    PROVE  Kept!Next
<1>1. Kept!Delay(S)
    BY NotedStays DEF Kept!Delay, Noted
<1> QED BY <1>1 DEF Kept!Next

LEMMA PackIsJournalled ==
    ASSUME CourierInv, NEW t \in Tabs, Pack(t)
    PROVE  Kept!Next
<1> DEFINE lost == ToSet(task[t].rows) \ {o \in ToSet(task[t].rows) : Opens(t, o)}
<1>1. queue' = Expired(queue, lost) /\ held' = held \cup lost /\ UNCHANGED <<stop, made, log, again>>
    BY DEF Pack
<1>2. lost \subseteq Ops
    BY InvIs, ListingsOf DEF WorksRightly, TaskOK
<1> HIDE DEF lost
<1>3. DOMAIN queue' = DOMAIN queue \cup lost
    BY <1>1 DEF Expired
<1> QED BY <1>1, <1>2, <1>3, DelayIsJournalled

LEMMA PutBackIsJournalled ==
    ASSUME CourierInv, NEW t \in Tabs, PutBack(t)
    PROVE  Kept!Next
<1>1. PICK o : o = Head(task[t].rows)
    OBVIOUS
<1>2. o \in Ops
    BY <1>1, InvIs, Shorter DEF PutBack, WorksRightly, TaskOK
<1>3. DOMAIN queue' = DOMAIN queue \cup {o} /\ held' = held \cup {o} /\ UNCHANGED <<stop, made, log, again>>
    BY <1>1 DEF PutBack, Put, backend
<1> QED BY <1>2, <1>3, DelayIsJournalled

LEMMA SettleIsJournalled ==
    ASSUME CourierInv, NEW t \in Tabs, Settle(t)
    PROVE  Kept!Next
<1>1. WorksRightly(task[t]) /\ LogType
    BY InvIs
<1>2. PICK a : a = Head(task[t].answers)
    OBVIOUS
<1>3. a \in Answers(Ops) /\ Told(a)
    <2>1. task[t].answers \in Seq(Answers(Ops)) /\ task[t].answers # <<>>
        BY <1>1 DEF WorksRightly, TaskOK, Settle
    <2> QED BY <1>1, <1>2, <2>1, Shorter DEF WorksRightly
<1>4. a.op \in Ops /\ a.result \in {"APPLIED", "DUPLICATE"} \cup Refused
    BY <1>3, AnswerIs DEF Results
<1>5. PICK i \in DOMAIN log : log[i].op = a.op /\ a.result \in {log[i].result, "DUPLICATE"}
    BY <1>3 DEF Told
<1>6. PICK v : v = [op |-> log[i].op, result |-> log[i].result]
    OBVIOUS
<1>7. v \in ToSet(log) /\ v.op = a.op /\ Handled(a.op) /\ log[i].result \in Results
    BY <1>1, <1>5, <1>6, LogIsJournalled DEF Handled
<1>8. /\ queue' = Settled(queue, a)
      /\ again' = IF a.result = "DUPLICATE" THEN again \cup {a.op} ELSE again
      /\ UNCHANGED <<stop, log, made, held>>
    BY <1>2 DEF Settle, backend
<1>9. CASE a.result \in Refused
    <2>1. DOMAIN queue' = DOMAIN queue \cup {a.op} /\ again' = again
        BY <1>8, <1>9 DEF Settled, Put, Refused
    <2>2. v.result # "APPLIED"
        BY <1>5, <1>6, <1>9 DEF Refused
    <2>3. Kept!Show(v)
        BY <1>7, <1>8, <2>1, <2>2, NotedStays DEF Kept!Show, Noted
    <2> QED BY <1>7, <2>3 DEF Kept!Next
<1>10. CASE a.result \notin Refused
    <2>1. DOMAIN queue' = DOMAIN queue \ {a.op}
        BY <1>8, <1>10 DEF Settled, Drop
    <2>2. \/ [op |-> a.op, result |-> "APPLIED"] \in ToSet(log) /\ again' = again
          \/ again' = again \cup {a.op}
        BY <1>4, <1>5, <1>6, <1>7, <1>8, <1>10
    <2>3. Kept!Forget(a.op)
        BY <1>7, <1>8, <2>1, <2>2, NotedStays, DecidedIsHandled DEF Kept!Forget, Noted
    <2> QED BY <1>4, <2>3 DEF Kept!Next
<1> QED BY <1>9, <1>10

LEMMA StepsAreJournalled ==
    ASSUME CourierInv, [Next]_vars
    PROVE  [Kept!Next]_Kept!journalVars
<1>1. ASSUME NEW t, \/ \E signal \in BOOLEAN : NothingToSync(t, signal)
                    \/ Begin(t) \/ Hear(t) \/ Check(t) \/ Lose(t) \/ Reopen(t)
                    \/ \E k \in {key[t], key[t] + 1} : Reload(t, k)
      PROVE  UNCHANGED Kept!journalVars
    BY <1>1, JournalStays DEF NothingToSync, Begin, Hear, Check, Lose, Reopen, Reload, backend
<1>2. ASSUME NEW o \in DOMAIN queue, Wait(o) PROVE UNCHANGED Kept!journalVars
    BY <1>2, JournalStays DEF Wait, Waited, backend
<1>3. CASE UNCHANGED vars
    BY <1>3, JournalStays DEF vars, backend, device
<1>4. ASSUME NEW s \in Closed, Office(s) PROVE Kept!Next
    BY <1>4, OfficeIsJournalled DEF Kept!Next, Kept!Closed, Closed
<1>5. ASSUME NEW t \in Hands, NEW kind \in Kinds, Act(t, kind) PROVE Kept!Next
    BY <1>5, ActIsJournalled DEF Kept!Next, Kinds, Closing
<1> QED
    BY <1>1, <1>2, <1>3, <1>4, <1>5, ServeIsJournalled, PackIsJournalled, PutBackIsJournalled,
       SettleIsJournalled DEF Next, Syncs

\* However the tabs send, lose and repeat, and whatever they do behind each other's back, the device and
\* the server keep one journal (courier-sync.ts with sync.py): for any tabs, operations and troubles.
THEOREM CourierKeepsTheJournal == Spec => JournalIsKept
<1>1. Init => Kept!Init
    BY DEF Init, Kept!Init, Ops, ToSet
<1>2. CourierInv /\ [Next]_vars => [Kept!Next]_Kept!journalVars
    BY StepsAreJournalled
<1> QED BY <1>1, <1>2, QueueIsKept, PTL DEF Spec, JournalIsKept, Kept!Spec

(***************************************************************************)
(* No sync is stuck: the safety half of SyncedInTheEnd.  A tab that has    *)
(* begun a sync has what its next step takes: rows to pack or to put back, *)
(* answers to settle, or a request of its own that the server still has or *)
(* has answered.  A tab that waited for nobody would never sync again.     *)
(***************************************************************************)
SentIsOnTheWire == \A t \in Tabs : task[t].stage = "sent" => \E r \in requests : r.tab = t

NoTabIsStuck == \A t \in Tabs :
    \/ task[t].stage = "idle"
    \/ task[t].stage \in {"read", "failed", "found"} /\ task[t].rows # <<>>
    \/ task[t].stage = "sent" /\ \E r \in requests : r.tab = t /\ (r.todo # <<>> \/ r.answers # <<>>)
    \/ task[t].stage = "heard" /\ task[t].answers # <<>>

\* The server goes on with a request and keeps whom it is for.
LEMMA AnsweringKeepsTheTab ==
    ASSUME SentIsOnTheWire, NEW r \in requests, NEW a, Answered(r, a), WireType, UNCHANGED task
    PROVE  SentIsOnTheWire'
<1> SUFFICES ASSUME NEW t \in Tabs, task[t].stage = "sent"
             PROVE  \E x \in requests' : x.tab = t
    BY DEF SentIsOnTheWire
<1>1. PICK x \in requests : x.tab = t
    BY DEF SentIsOnTheWire
<1>2. CASE x = r
    <2>1. PICK y : y = [r EXCEPT !.todo = Tail(@), !.answers = Append(@, a)]
        OBVIOUS
    <2>2. y \in requests'
        BY <1>1, <1>2, <2>1, CourierAssumption DEF Answered
    <2>3. y.tab = t
        BY <1>1, <1>2, <2>1 DEF WireType, RequestOK
    <2> QED BY <2>2, <2>3
<1>3. CASE x # r
    BY <1>1, <1>3 DEF Answered
<1> QED BY <1>2, <1>3

\* A tab that goes on, or gives up, takes nobody else's request along.
LEMMA GoingOnIsAlone ==
    ASSUME SentIsOnTheWire, NEW t \in Tabs, task'[t].stage # "sent",
           \A u \in Tabs \ {t} : task'[u] = task[u], \A r \in requests : r.tab # t => r \in requests'
    PROVE  SentIsOnTheWire'
BY DEF SentIsOnTheWire

\* Each action in turn.
LEMMA StepsKeepRequests ==
    ASSUME TypeOK, SentIsOnTheWire, [Next]_vars
    PROVE  SentIsOnTheWire'
<1>0. DOMAIN task = Tabs /\ \A t \in Tabs : TaskOK(task[t], Ops)
    BY DEF TypeOK, TaskType
<1>1. ASSUME UNCHANGED <<task, requests>> PROVE SentIsOnTheWire'
    BY <1>1 DEF SentIsOnTheWire
<1>2. ASSUME NEW r \in requests, Serve(r) PROVE SentIsOnTheWire'
    <2>1. \E a : Answered(r, a)
        BY <1>2 DEF Serve, One, Perform
    <2>2. UNCHANGED task
        BY <1>2 DEF Serve, device
    <2> QED BY <2>1, <2>2, AnsweringKeepsTheTab DEF TypeOK
<1>3. ASSUME NEW t \in Tabs, Begin(t) PROVE SentIsOnTheWire'
    <2>1. PICK rows : task' = [task EXCEPT ![t].stage = "read", ![t].rows = rows]
        BY <1>3 DEF Begin
    <2>2. task'[t].stage = "read"
        BY <1>0, <2>1 DEF TaskOK
    <2> QED BY <1>0, <1>3, <2>1, <2>2, GoingOnIsAlone DEF Begin, backend
<1>4. ASSUME NEW t \in Tabs, Pack(t) PROVE SentIsOnTheWire'
    <2>1. CASE Finish(t, queue', TRUE) /\ UNCHANGED requests
        <3>1. task' = [task EXCEPT ![t] = NoTask] /\ NoTask.stage # "sent"
            BY <2>1 DEF Finish, NoTask
        <3> QED BY <1>0, <2>1, <3>1, GoingOnIsAlone
    <2>2. CASE /\ task' = [task EXCEPT ![t].stage = "sent"]
               /\ \E batch : requests' = requests \cup {[tab |-> t, todo |-> batch, answers |-> <<>>]}
        <3>1. PICK batch : requests' = requests \cup {[tab |-> t, todo |-> batch, answers |-> <<>>]}
            BY <2>2
        <3>2. \A u \in Tabs \ {t} : task'[u] = task[u]
            BY <1>0, <2>2
        <3>3. PICK r : r = [tab |-> t, todo |-> batch, answers |-> <<>>]
            OBVIOUS
        <3>4. r \in requests' /\ r.tab = t /\ requests \subseteq requests'
            BY <3>1, <3>3
        <3> QED BY <3>2, <3>4 DEF SentIsOnTheWire
    <2> QED BY <1>4, <2>1, <2>2 DEF Pack
<1>5. ASSUME NEW t \in Tabs, Hear(t) PROVE SentIsOnTheWire'
    <2>1. PICK r \in requests :
              /\ r.tab = t /\ requests' = requests \ {r}
              /\ task' = [task EXCEPT ![t] = [stage |-> "heard", rows |-> <<>>, answers |-> r.answers]]
        BY <1>5 DEF Hear
    <2>2. task'[t].stage = "heard"
        BY <1>0, <2>1
    <2> QED BY <1>0, <2>1, <2>2, GoingOnIsAlone
<1>6. ASSUME NEW t \in Tabs, Settle(t) PROVE SentIsOnTheWire'
    <2>1. task[t].stage = "heard" /\ UNCHANGED requests
        BY <1>6 DEF Settle, backend
    <2>2. CASE task' = [task EXCEPT ![t] = NoTask]
        BY <1>0, <2>1, <2>2, GoingOnIsAlone DEF NoTask
    <2>3. CASE task' = [task EXCEPT ![t].answers = Tail(@)]
        <3>1. task'[t].stage = "heard"
            BY <1>0, <2>1, <2>3 DEF TaskOK
        <3> QED BY <1>0, <2>1, <2>3, <3>1, GoingOnIsAlone
    <2> QED BY <1>6, <2>2, <2>3 DEF Settle, Finish
<1>7. ASSUME NEW t \in Tabs, Past(t), UNCHANGED requests PROVE SentIsOnTheWire'
    <2>1. CASE task' = [task EXCEPT ![t] = NoTask]
        BY <1>0, <1>7, <2>1, GoingOnIsAlone DEF NoTask
    <2>2. CASE task' = [task EXCEPT ![t].stage = "failed", ![t].rows = Tail(@)]
        <3>1. task'[t].stage = "failed"
            BY <1>0, <2>2 DEF TaskOK
        <3> QED BY <1>0, <1>7, <2>2, <3>1, GoingOnIsAlone
    <2> QED BY <1>7, <2>1, <2>2 DEF Past, Finish
<1>8. ASSUME NEW t \in Tabs, Check(t) PROVE SentIsOnTheWire'
    <2>1. CASE task' = [task EXCEPT ![t].stage = "found"]
        <3>1. task'[t].stage = "found"
            BY <1>0, <2>1 DEF TaskOK
        <3> QED BY <1>0, <1>8, <2>1, <3>1, GoingOnIsAlone DEF Check, backend
    <2> QED BY <1>7, <1>8, <2>1 DEF Check, backend
<1>9. ASSUME NEW t \in Tabs, PutBack(t) PROVE SentIsOnTheWire'
    BY <1>7, <1>9 DEF PutBack, backend
<1>10. ASSUME NEW t \in Tabs, Lose(t) \/ \E k : Reload(t, k) PROVE SentIsOnTheWire'
    <2>1. \A r \in requests : r.tab # t => r \in requests'
        BY <1>10 DEF Lose, Reload, GivenUp
    <2>2. CASE task' = [task EXCEPT ![t].stage = "failed"]
        <3>1. task'[t].stage = "failed"
            BY <1>0, <2>2 DEF TaskOK
        <3> QED BY <1>0, <2>1, <2>2, <3>1, GoingOnIsAlone
    <2>3. CASE task' = [task EXCEPT ![t] = NoTask]
        BY <1>0, <2>1, <2>3, GoingOnIsAlone DEF NoTask
    <2> QED BY <1>10, <2>2, <2>3 DEF Lose, Reload
<1>11. ASSUME NEW t \in Tabs, (\E signal \in BOOLEAN : NothingToSync(t, signal)) \/ Reopen(t)
                                \/ \E kind \in Kinds : Act(t, kind)
       PROVE  SentIsOnTheWire'
    BY <1>1, <1>11 DEF NothingToSync, Reopen, Act, backend
<1>12. ASSUME (\E s \in Closed : Office(s)) \/ (\E o \in DOMAIN queue : Wait(o)) \/ UNCHANGED vars
       PROVE  SentIsOnTheWire'
    BY <1>1, <1>12 DEF Office, Wait, vars, backend, device
<1> QED
    BY <1>2, <1>3, <1>4, <1>5, <1>6, <1>8, <1>9, <1>10, <1>11, <1>12, CourierAssumption DEF Next, Syncs

\* A tab that syncs can go on, or waits for a request of its own that the server can go on with or has
\* answered: whatever tabs, losses and reloads there are, nobody waits for an answer that cannot come.
THEOREM NoSyncIsStuck == Spec => []NoTabIsStuck
<1>1. Init => SentIsOnTheWire
    BY DEF Init, SentIsOnTheWire, NoTask
<1>2. CourierInv /\ SentIsOnTheWire /\ [Next]_vars => SentIsOnTheWire'
    BY StepsKeepRequests DEF CourierInv
<1>3. CourierInv /\ SentIsOnTheWire => NoTabIsStuck
    <2> SUFFICES ASSUME TypeOK, SentIsOnTheWire, NEW t \in Tabs,
                        task[t].stage # "idle"
                 PROVE  \/ task[t].stage \in {"read", "failed", "found"} /\ task[t].rows # <<>>
                        \/ task[t].stage = "sent" /\ \E r \in requests : r.tab = t /\ (r.todo # <<>> \/ r.answers # <<>>)
                        \/ task[t].stage = "heard" /\ task[t].answers # <<>>
        BY DEF NoTabIsStuck, CourierInv
    <2>1. TaskOK(task[t], Ops)
        BY DEF TypeOK, TaskType
    <2>2. \A r \in requests : r.tab # Nobody /\ r.todo = <<>> => r.answers # <<>>
        BY DEF TypeOK, WireType, RequestOK
    <2>3. t # Nobody
        BY CourierAssumption
    <2> QED BY <2>1, <2>2, <2>3 DEF TaskOK, Stages, SentIsOnTheWire
<1> QED BY <1>1, <1>2, <1>3, QueueIsKept, PTL DEF Spec
=============================================================================
