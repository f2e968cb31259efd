# TezFarmo: models and proofs of the order platform

TezFarmo (this repository) is a wholesale platform: companies publish catalogues,
stores place orders under a partnership, the company confirms, assembles and delivers
them, and the store owes what was handed over. It is two programs: the backend,
`src/backend/app`, FastAPI endpoints and Celery jobs over SQLAlchemy and PostgreSQL; and
the frontend, `src/frontend/src`, a React application with a query cache, forms, a shared
token refresh and an offline queue for couriers. `src/TZ.md` is the specification (in
Tajik); rule numbers such as ORD-041 or DEL-015 are its. This directory models that logic
in TLA+, checks it with TLC and proves the most important properties with TLAPS.

Contents: 1 inventory, 2 the modules, 3 the runs, 4 bounds and fairness, 5 proofs,
6 findings, 7 what is not modelled, 8 plan, 9 how to run.

## 1. Inventory

### How the parts interact

One HTTP request is one database transaction (`core/db.py`). A service publishes domain
events; *synchronous* handlers run inside the publisher's transaction, and every event is
also written to the outbox in it (`core/events.py`, `core/outbox.py`). A request that
changes a company's business first locks the company's row (`lock_org`,
`identity/team_service.py:72`), then the subscription, the partnership, the order,
delivery or return, and last the stock rows. Hence, per company, transactions are
serialized, and what can go wrong is what happens *between* transactions, in the jobs that
take many of these locks, and in the few places that commit on their own.

The frontend knows the server by what it has read. A page keeps the last reading of its
record (`app/query-client.ts` and the hooks of each `api.ts`), offers acts by tables of
its own, and sends them with the version it read, a key made for the payload
(`shared/api/idempotency.ts`), both or neither. Every request has a time-out
(`shared/api/client.ts`); the server may act after it. Calls whose access token has lapsed
wait for one refresh of their page (`shared/auth/session-store.ts`), while the cookies are
shared by all pages of the browser. A courier's acts are first written to IndexedDB and
sent when there is signal (`features/delivery/courier-sync.ts`).

| component | state | operations | correct means |
|---|---|---|---|
| inventory | stock rows (quantity, reserved), reservations, movements | receive, adjust, write off, reserve, release, ship, return in, reconcile | rows within limits; reserved = sum of ACTIVE reservations; goods neither lost nor doubled; a retry changes nothing |
| orders | order status, version, lines | create, view, confirm, reject, cancel, assemble, ready, reattempt; dispatch, deliver, fail, dispute, complete, terminate by other modules | only legal transitions; nothing reopened; goods, delivery and debt agree with the status |
| deliveries, runs | attempts of an order; a courier's run and its stops | plan, assign, unassign, cancel, dispatch, arrive, confirm, fail; create, edit, start, finish, cancel a run | one open attempt; order and delivery agree; a run leaves whole |
| completion job | ids of one run, locks it collects | select, complete or skip one order, commit | due orders are completed, once, after their window, without deadlock |
| idempotency keys | one record per key and scope | claim, replay, complete, release, take over, purge | a repeated request acts once and is told the truth |
| finance | charges, payments, adjustments, balance, ledger | charge, record, confirm, reject, cancel, allocate, adjust | balance = ledger = what charges and money sum to; money allocated once, to the oldest debt; every posting has its cause |
| returns, disputes | return and dispute records, the credit a dispute waits for | request, approve, complete; open, review, settle, resolve, reject, withdraw, hear of a decision | one open dispute; it waits for a credit that can still come, and ends with the one that came |
| partnerships | status, terms versions | request, accept, suspend, reactivate, terminate | termination leaves no open request |
| subscriptions | status, deadlines, invoices, limits | lazy evaluation, tick, pay | what is blocked stays blocked, what is under way can be closed |
| outbox, notifications | rows with attempts and back-off | publish, dispatch, send, purge | everything published is consumed or given up visibly |
| sessions, tokens | refresh families, the cookies of a browser, a page's token and its refresh under way | issue, rotate, revoke; call, refresh, sign out | one live token per session; an ended session stays ended; no false alarm of reuse; no call waits for ever |
| screens | the record as shown, the open form, its key, requests under way | read, poll, decide, submit, give up, close | what is offered is accepted; decided on what was shown; done once; shown in the end |
| courier queue and sync | IndexedDB rows, a sync under way per tab; the operation log | record, seal, sync, settle, back off; apply, replay | an operation is handled once, in order, and is never lost |
| delivery codes | attempt counter | spend an attempt, regenerate | five attempts |
| teams, organizations, verification, catalogue and imports, reports and exports, files, support, admin | rows | CRUD, review, jobs | mostly sequential; see `PROJECT.json` |

The hard behaviours are listed as `hazards` in `PROJECT.json`, each at its line, with the
properties that watch over it or the reason why none does yet.

## 2. The modules

| module | models | source |
|---|---|---|
| `OrderIds` | the set of orders, shared | |
| `Inventory` | the stock service of one company | `modules/inventory/service.py` |
| `OrderRecords` | the order row and its state machine | `modules/orders/service.py` |
| `Deliveries` | attempts and runs | `modules/delivery/service.py` |
| `Fulfilment` | the composition: one action is one transaction over orders, stock, deliveries, charge, partnership, subscription and company | the services above, `finance`, `partnerships`, `subscriptions`, `returns`, `admin` |
| `Handover` | abstract: what the platform promises about goods | |
| `FulfilmentHandover` | the refinement mapping from `Fulfilment` to `Handover` | |
| `Completion` | the completion job, its locks, overlaps and kills | `orders/service.py:590`, `celery_app.py:145` |
| `Idempotency` | `Idempotency-Key` requests as three transactions each | `core/idempotency.py` |
| `Ledger` | the finance writer of one partnership: charges, credits, FIFO allocation, ledger, balance, payments, adjustments, and what the reconciliation looks for | `modules/finance/service.py`, `domain.py`, `jobs.py` |
| `Disputes` | the disputes of orders over it, and the decision that comes back as an event | `modules/returns/service.py:599-937` |
| `Roles` | who has which permission, what a subscription and a plan allow | `core/permissions.py`, `router.tsx`, `identity/deps.py`, `subscriptions/domain.py` |
| `OrderScreens`, `ReturnScreens`, `FinanceScreens`, `PartnerScreens`, `DeliveryScreens`, `WarehouseScreens`, `CatalogScreens`, `BillingScreens`, `TeamScreens`, `AdminScreens` | what the pages of a feature offer, let through, send and read, and what the endpoints behind them take | `features/*/*.tsx`, `features/*/api.ts`, the routers and services |
| `Screens` | all of these by the kind of the record | |
| `Desk` | a person at a page: readings, a form, its key, submissions, others who move the record | `client.ts`, `idempotency.ts`, the mutations of `api.ts` |
| `Sessions` | the pages of one browser, its cookies, the refresh tokens of the server | `client.ts`, `session-store.ts`, `auth/sessions.py` |
| `Courier` | the courier's queue, its syncs in several tabs, the server's replay | `offline-queue.ts`, `courier-sync.ts`, `courier-pages.tsx`, `delivery/sync.py` |
| `Closing` | abstract: how orders end; `Completion` ends with the mapping to it | |
| `Repetition` | abstract: what a client that repeats may rely on; mapped to at the end of `Idempotency` | |
| `Rotation` | abstract: a session as a chain of tokens; mapped to at the end of `Sessions` | |
| `Journal` | abstract: the acts of a courier, decided on once and in order; mapped to at the end of `Courier` | |
| `MC...` | instances for TLC | |
| `...Proofs` | theorems | |

**Inventory.** `quantity` and `reserved` are the stock rows, `active[o]` the ACTIVE
reservation of an order by product, `shipped` and `netInflow` sum what the SHIPPED
reservations and the movements record. `Move` is `_move` for all products of a call: it
refuses the whole call when one row would leave its range. Decimal quantities are counted
in base units (thousandths in the code), `grouped` gives a function of the products.

**OrderRecords, Deliveries.** Each operator is one transition of the code's tables
(`TRANSITIONS`, `TARGETS`) with the fields it writes. They say nothing about other
modules' state, so that `Fulfilment` can conjoin them as the services call each other:
`Confirm` is `SetConfirmation /\ Reserve`, `Deliver` is the delivery, order, stock and
charge together, `StartRun` dispatches all waiting stops and drives all their orders. A
run's ordering of stops is left out; any member who may do a step stands for all who may.
Requests carry the order's current version: a stale one is refused before any change.

**Fulfilment** adds `company` (its row refuses every transaction unless ACTIVE),
`partnership`, `subscription` (three classes of statuses with the same permissions) and
`charges`. The credit check may refuse a confirmation; as any confirmation may also not be
asked for, the model leaves it out without losing or adding a behaviour of these variables.

**Completion** gives the job its real grain: it selects all delivered ids, then takes one
order at a time in a savepoint, keeps the company locks of those it completed, and
publishes everything at the commit. Everyone else's transaction is atomic and waits for
the lock. `Held`, `FreeFor` and `Coming` are those locks and the query's order.

**Idempotency** has one action per database transaction or return: the upsert of `claim`,
the look at a row in the way, the business commit together with the stored result, the
rollback, the release, its failure, the death of the process, expiry, purge. `Complete`
may lose its acknowledgement: the effect is there, and the handler goes on to abandon.

**Handover** knows of an order only where its goods are (`asked`, `held`, `road`,
`handed`, `dropped`), the free goods, the promised goods, and who owes. `Contract` in
`FulfilmentHandover` maps the detailed state to it; `KeepsTheContract` says that every
transaction of `Fulfilment` is a step of it or changes nothing of it.

**The other four abstractions** say in a page each what a part promises to those who do
not look inside, and the program's module is shown to implement them, by TLC on the
instances of section 3 and by the proofs of section 5 for all values of the constants.

* `Closing` closes any set of orders that are open, over their window and of companies that
  may trade, in *one* step that also tells of each. `Completion` takes that step when a run
  commits; all its selecting, looking, locking, waiting and dying are none.
* `Repetition` has neither table nor claims: a committed change binds its key until it is
  forgotten, and while it does, repetitions are told its result, other bodies are turned
  away, nobody changes anything under the key and nobody is told to wait. `changed`,
  `forgotten` and `told` are `effects`, `lapsed` and `answer`.
* `Rotation` has only the server's tokens: the session of each, those that are `live`, those
  that a renewal has `taken`. A renewal replaces what it has taken; a reuse, a sign-out or
  a revocation ends a chain in one step and passes by what is taken. `taken` is `Held`, the
  rows a rotation has locked.
* `Journal` has acts, notes and verdicts: an act is decided on once, while its note is kept,
  after every older act that was not delayed, by what the stop is then; a note goes only
  after that. Tabs, batches, requests, keys, back-offs and lost answers are no part of it:
  `notes` is the domain of the queue, `verdicts` the operation log.

**Ledger.** `charges`, `credits`, `allocations` and `ledger` are the tables, numbered in the
order of creation; `balance` is the projection that `_post_ledger` keeps. `PostCharge` and
`PostCredit` are what every posting does: the row, the ledger entry, and `Allocate`, which
runs the greedy plan of `domain.allocate_fifo` (`AllocateFifo`) over what is left. Every
operation locks the company and the balance before it reads (`_lock`), so it is one action;
the interleavings are those of the decisions: a payment confirmed, rejected and cancelled
by three people, an adjustment approved twice, an event delivered twice. Amounts are whole
cents; a refused call is a step that is not enabled. The seven `check_code`s of the
nightly reconciliation are seven definitions, conjoined as `NothingToReconcile`.

**Disputes** extends `Ledger` with `dispute[o]`. `SettleWithCredit` creates the adjustment
and, when an owner does it, grants it in the same transaction; a manager's waits in
`pending`. `Decide` is `approve_adjustment` or `reject_adjustment` together with the
synchronous handler `adjustment_decided` (`AdjustmentDecided`). How opening and closing
move the order is in `Fulfilment` and `Completion`.

**The screens.** A module per feature describes each kind of record by six operators: the
acts its page offers to a member (`...Offers`: the conditions of the buttons), what the
form lets through (`...Inputs`), how it is sent (`...Sends`: which version, with a key or
not, what happens after a success), what the server makes of it (`...Takes`: the guards of
the endpoint and the service, and the statuses it may leave), who else moves the record,
and what the page reads beside it (`...Asks`, against `MayRead`). Two tables are thereby
written down side by side, one from the `.tsx` files and one from the services: nothing in
the code keeps them in step. A person is a side and a role, with what holds for the company
of the contract: its subscription, whether its plan has room, is full or is exceeded, and
whether both sides are verified. A status stands for whatever the two tables tell apart: a
delivered order with an open return (`DELIVERED+RETURN`), a draft run that lost one stop to
the road (`LEFT`), a request of a store that has terms already (`TERMED`), a category that is
a parent or holds products, a price of a closed list. Every organization is active, and what
is typed is in order but where `...Inputs` names a value that is not. `Screens` selects the
screens by kind.

**Desk** runs one of these kinds. `srv` is the record, `shown` the copy of the page,
`fetch` the reading under way (a new one cancels it), `form` the open form or dialog with
the record it was opened on, `key` the submission key, `wire` the submissions under way.
`Sends` says where the version comes from: the page as it is at the press (`live`), the
panel, which is made anew for another version, or the row the dialog was opened on.
`Submit` reuses the key as long as the payload is unchanged (`forPayload`). A request that
was given up can still be performed. `acted` and `seen` are history.

**Sessions.** `tokens` are the issues of the server: family, whether the refresh token is
live, the version and the expiry of the access token. A rotation is two steps, `Consume`
(which locks the row) and `Rotate`; others that present the token wait for the lock and
find it dead. `Revoke` is one UPDATE: it does not see a replacement that commits
meanwhile, which `escaped` records. On the browser's side `jar` is shared and `access`,
`calls` and `refreshing` belong to a page; a reload loses them and not the jar.

**Courier.** `queue` is the store of the device, shared by the tabs; `task[t]` the sync of
a tab, with the rows it read; `requests` what the server has still to handle, `log` its
operation log. The rows are written back one at a time (`failed`, `found`), as the code
does between two awaits, so that another tab may delete one in between.

## 3. The runs

| run | instance | what it shows |
|---|---|---|
| `inventory` | 2 orders, 2 products, quantities 0..2 | `ReservedIsSumOfActive`, `GoodsAreAccountedFor`, `ReservationIsAllOrNothing`: any order of calls, retries included |
| `stock` | 2 orders, 1 product, quantity 2, 2 runs, 1 courier, one attempt each | `ReservationFollowsOrder`, `TerminatedHasNoRequests`, `DeliveryFollowsOrder`, `RunsGoTogether`, and the refinement `KeepsTheContract` |
| `attempts` | 1 order, 3 attempts, 2 couriers, 1 run, every subscription, company suspended at times | `TypeOK`, `OneOpenDelivery`, `ChargedOnceWhenHandedOver`, `OnRoadCanBeDelivered`, `NoWayBack` |
| `completion` | 3 orders of 2 companies, 2 overlapping job runs, 1 kill | `DisputedWhileOpen`, `AnnouncedOnce`, `JobsNeverWaitInACircle`, `AllActiveAllCompleted`, and the refinement `ClosesAtOnce` |
| `idempotency` | 3 requests, one key, two bodies | `OneEffectPerKey`, `EveryoneIsAnswered`, and the refinement `RepetitionIsSafe` |
| `desk` | every kind of record, 3 roles at the page, one form with 2 tries | `OfferedIsAccepted`, `AsksOnlyWhatItMay`, `DecidedOnWhatWasShown`, `KeyedActsOnce`, `NeverRestsOnThePast`, `PageCatchesUp` |
| `sessions` | 2 tabs, 3 calls, 2 loads, 2 troubles | `EndedSessionsStayEnded`, `AlarmsHaveAReason`, `CookiesAreGood`, `SignedOutStaysSignedOut`, `WaitingEnds`, and the refinement `SessionsAreChains` |
| `courier` | 2 tabs, 2 operations, 1 trouble | `AccountedFor`, `SyncedInTheEnd`, and the refinement `JournalIsKept` |
| `disputes` | 1 order, 1 payment, 2 adjustments, 1 return, amounts 1 and 2, 2 days, 3 entries in the ledger | `BooksAreTrue`, `NoIdleMoney`, `OldestDebtFirst`, `DisputesAwaitTheirCredit` |
| `refused` | 2 tabs, 1 operation, 2 troubles | violation: `RefusalsAreShown` |
| `suspended` | 1 order of each of 2 companies, 1 job run, no kill | violation: `ActiveCompanyCompleted` |

Some properties of `desk` name their exceptions, each a definition of its own with a
comment: `KnownRefusal` (acts a page offers, or inputs its form lets through, although the
server refuses them in that state of the record), `Unwarned` (buttons that do not ask whether
the subscription still allows the act), `Hindered` (nor whether the plan has room for one more
product, member or store, or whether both organizations are verified), `AsksInVain` (a
page that reads what its visitor may not see), `EditedUnderfoot` (a stop taken off
a run, and what a category holds, change without the version of the run or category), `AdoptOnly` (pages that
show the answer of a submission instead of reading again). Whatever is not named there
holds. `OfferedIsAccepted` says more: what is named there is refused, so that an exception
covers no act that the server takes, and a page or a service that is mended shows. It and
`AsksOnlyWhatItMay` are checked for all members with every subscription and plan, verified or
not, not only for those who sit at the page.

Four invariants are stated in the modules and proved, and no longer have a run of their
own, because a refinement that a run checks says more: `CompletedAfterWindow`
(`ClosesAtOnce`), `ResultsAreTrue` (`RepetitionIsSafe`), `OneLiveTokenPerSession`
(`SessionsAreChains`) and `HandledAsRecorded` (`JournalIsKept`).

Every property of a passing run has a mutant in the module it speaks about, written just
before the definition it would replace ("Mutant of ..."): a plausible bug under which TLC
finds the property violated on the same instance.

## 4. Bounds and fairness

*Bounds.* `MaxShipped` caps what one order may be shipped in the free-standing stock model
(in `Fulfilment` an order is shipped once, and it never binds). `MaxAttempts`, `Runs`,
`Orders`, `MaxQuantity` and `MaxCrashes` make the instances finite. Two units of one
product let an order be confirmed wholly, in part or not at all, let two orders compete for
the last unit, and put every row limit in reach; two products are needed in `inventory`
only, where a call with two lines can fail on one of them. Three attempts give a failure,
a re-attempt and a cancelled attempt before a delivery; two runs a stop that moves from one
to the other. Two job runs and two companies are the smallest deadlock, three orders the
smallest job that holds one lock and still has work in the same and in another company.
`Rounds` is 2 for the code's 3: it takes one round to collide and one to exhaust the loop.
Three requests with a key are a first, a repetition, and one that takes over from either.
Symmetry is used over orders, couriers, runs and products in runs that check safety only.

In `desk` one form with two tries is the smallest repetition, one change by others between
a reading and a submission the smallest staleness, one loss the smallest time-out; the
records, forms and inputs are all those of the screens. Its versions and tries are bounded
by these, so nothing else is. In `sessions` two calls of one page share a refresh and a
call of the other competes with it; `MaxTroubles` counts lapses, lost answers,
revocations, sign-ins and sign-outs, and any two of them meet. In `courier` one operation
closes the stop the other is for, and one tab is used while the other only goes on
syncing (`Hands`). Its invariants were also checked with two troubles (8.4 million states,
too long for a regular run).

In `disputes` three entries let two charges compete for one credit, two credits pay one
charge, and a refund meet a credit that a charge claims. Two amounts make a payment short,
exact or too large; two days with one credit day let an order be due after a charge that is
younger. `MaxEntries` caps the ledger, `LastDay` the days. With four entries the same
properties hold (1.5 million states).

*Deadlock.* `idempotency`, `desk`, `sessions`, `courier` and `refused` end when the
requests are answered and the bounds used up, so these runs set `CHECK_DEADLOCK FALSE`.
All other runs check for deadlock.

*Fairness.* Five specifications have any. `CompletionFairSpec`: beat keeps starting
the job and a run that can go on does (`celery_app.py:64` schedules it every 1800 s, a
killed run's message is redelivered), and the dispute window ends. Nothing makes people
deliver, dispute, settle or reinstate a company, and weak fairness of a job run is enough
because every other transaction is short. The number of kills is finite (`MaxCrashes`):
a worker killed in every run completes nothing. `KeyFairSpec`: the server continues a
request it has not lost, 24 hours pass, and a client told `request_in_progress` asks
again. It does not assume that a process survives, that a release succeeds or that the
purge job ever runs. `FairSpec` of `Desk`: a page that polls goes on (`refetchInterval` of
its hook), and a reading is served and arrives unless it is one of the `MaxFaults` that
are lost; nobody has to submit, close or come back. `FairSpec` of `Sessions`: the server
answers a refresh that reaches it, and the page hears the answer unless it is lost, in
which case `client.ts` gives it up. `FairSpec` of `Courier`: the interval of
`courier-sync.ts` goes on in every tab, the server serves, a back-off passes.

## 5. Proofs

All theorems hold for any sets of orders, products, partnerships, couriers, runs,
companies, job runs, requests, keys, payments, tabs and the rest, under the named ASSUMEs
of the modules, which TLC evaluates on every instance. What they assume beyond types: the
orders of a store are finitely many (`OrdersAssumption`), and a value that stands for
nothing is none of the values it is put beside.

* `SumProofs`: what the sum over a finite set does when one number changes, when the set
  grows, when a part is moved. The library's induction theorems take a predicate and are
  out of reach, so induction goes over a set: the numbers (or the subsets) for which a fact
  holds contain the first and are closed under the next, hence are all of them
  (`NatSteps`, `FiniteSteps`, from the well-foundedness of `<` on `Nat`).
* `FulfilmentProofs`, the stock service under any order of calls: its type is inductive
  because `Move` checks the rows; reservations change between nothing and all;
  `StockIsReconciled`: what is reserved of a product is the sum of the active reservations,
  and the goods that came in and did not go out are there. Then `Fulfilment`: lemmas about
  the delivery operators; type correctness; `ReservationFollowsOrder`,
  `ChargedOnceWhenHandedOver`, `TerminatedHasNoRequests`, each strengthened by the type
  invariant and proved action by action; `StockStaysReconciled`, from the same lemmas about
  the stock operations; `NoWayBack` as an action property.
  Of the orders and their deliveries, `DeliveryFollowsOrder`, `OneOpenDelivery` and
  `RunsGoTogether` are not inductive on their own: that a dispatched row's order is ready needs the relation
  of pool and order, that relation needs the uniqueness of the open row, and uniqueness
  needs that an order without one gets exactly the next. `OrdersAndDeliveriesMatch` is
  their conjunction with the type and the contiguity of the attempts.
  `NothingRefusesTheHandOver` puts them and the reconciled stock together: while a delivery
  is on the road, its order waits for it, is not charged, and its goods are reserved and
  there, so every guard of the hand-over holds. `FulfilmentKeepsTheContract`: the initial
  states map to initial states and every transaction to a step of `Handover` or a stutter.
* `CompletionProofs`: `CompletionInv` adds that what a run has done is still due
  (`DoneIsDue`: delivered, over its window, undisputed, of an active company, because the
  run keeps the company's lock), that two runs hold different companies (`RunsAreApart`), that a run only
  goes forward in the query's order (`RunsGoForward`) and that an idle run holds nothing.
  Those make `AnnouncedOnce`, `DisputedWhileOpen` and `CompletedAfterWindow` inductive.
  `JobsCannotDeadlock`: take, among the waiting runs, one that waits for the greatest
  company; the run that holds it has only later companies to come, so it waits for none.
  `CompletionClosesAtOnce`: a commit is a step of `Closing`, since `DoneIsDue` still gives
  for every order of the run what was seen long before; the other steps are stutters or
  steps of people.
* `IdempotencyProofs`: `KeyInv` adds that the result of every binding effect is still
  stored under its key, that a stored result is of an effect, and that a request which has
  not claimed yet left no trace. Takeover and purge only touch lapsed claims, release only
  an own IN_PROGRESS one, so a second effect would need a row that is both COMPLETED and
  claimable. `RepeatingIsSafe` is the refinement: what `claim` finds in its second look is
  the binding effect itself, if there is one, and a request that has not been answered has
  been told nothing and is no effect unless it is on its way out (`DecidedInvariant`).
* `LedgerProofs`, the books and the disputes together. `BooksAreTrue` is not
  inductive. It needs that the books agree with themselves (`Accounts`: a row counts as
  allocated what its lines sum to, the balance is what charges still need less what credits
  still have, and the ledger has one entry for each row) and with the papers (`Causes`:
  every row has an approved paper of its amount; `Presence`: every delivered order and
  confirmed payment has its row; `Counted`: there are as many entries as such papers).
  The greedy allocation is a recursive function of the books;
  `AllocationEnds` shows by induction that every turn gives the oldest open charge all that
  the oldest credit has left or all that it still needs, so that each turn settles a row
  and it stops within as many turns as there are rows, with one side settled. From that
  `NoIdleMoney`, and `OldestDebtFirst` from the order of the turns. `DisputeInv` relates the
  status of a dispute to the adjustment it waits for.
* `DeskProofs`, for any kinds, people, forms, tries and losses. `KeyedActsOnce`:
  Submissions of a form that say the same one after the other share a key, because the
  form keeps the key of its last payload while it is open; no other form makes that key;
  and the server carries out nothing under a key it keeps. `DeskInv` adds the shape of the
  requests (`Shapes`), what a form said last (`SayInv`) and that what was carried out under
  a key is kept (`KeyIsKept`). The screens enter only through `Sends`.
  `DecidedOnWhatWasShown` and `NeverRestsOnThePast` rest on the versions: whatever the
  server makes of a record is that record or a new version of it, shown table by table for
  every kind, so that a version names one record, at the page, in a request, under a key
  and in an answer (`OneRecordPerVersion`; runs and categories, which are edited under
  their version, are the exception that `EditedUnderfoot` names). An act that sends a
  version is taken at that version or refused; an answer that is given again was found at
  the version the key's payload names, because a key says one thing (`KeysSayOne`,
  `KeptOnItsVersion`). And every success that is not adopted begins a new reading, so a
  reading that arrives is no older than what the page was told (`RestInv`).
  `AsksOnlyWhatItMay` and `OfferedIsAccepted` set the tables of the pages against those of
  the server: the permissions of each seat (`Permissions`), what one permission says of the
  others of its seat (`Together`, `Held`, `PeopleSit`), what only a subscription in order
  allows (`SeesWhatIsAllowed`), and then the screens of each module in turn: a lemma says
  what `Excepted` comes to for a kind (`ExceptedOfTrade`, `ExceptedOfPartners`,
  `ExceptedOfGoods`, `ExceptedOfPeople`; `NothingExcepted` for the rest), another that an act
  that is offered is accepted exactly when it is not so. TLC looks at the statuses that a run reaches;
  the proofs hold for whatever state a record has come to, and show that one kind alone
  needs to know where its record can be: a member is offered what it is for not being
  revoked, so it must be active, suspended or revoked (`MembersInv`).
* `SessionsProofs`: `OneLiveTokenPerSession` and `EndedSessionsStayEnded`. Neither is
  inductive: a rotation issues a live token, and that it is the only one of its family
  needs `RowsAreLocked` (who holds a row holds it alone, and the token of a held row is
  live, because a revocation passes it by). `SignedOutStaysSignedOut` needs
  `PagesAreHeard`: a page that waits for a refresh has one under way that it will hear.
  `AlarmsHaveAReason` and `CookiesAreGood` speak of what happened long before, and need a
  cause for every dead token (`ReasonsInv`): its session is over, or trouble parted it from
  its page, or a rotation replaced it and exactly one request did that; a page that heard
  the answer never presents the old token again, since the cookie has moved to a token
  nobody has presented. `SessionsStayChains`: by `RowsAreLocked` a rotation's second step
  finds the token it took still live and its own, so it is a step of `Rotation`, and all
  that pages, cookies and answers do is none. `WaitersAreNeverStuck` is the safety half of
  `WaitingEnds`: whoever waits has a refresh that will be heard, and the server can go on
  with it or with the rotation that holds its row.

* `CourierProofs`: an operation that is neither handled nor held back is in the queue and
  due (`DueOrOver`). So whenever a younger one is read to be sent the older one is read
  too, and goes before it: in the tab (`ReadInOrder`), on the wire (`SentInOrder`), and
  into the log (`LogInOrder`), from which `HandledAsRecorded`. `AccountedFor` needs that
  every answer, on the wire and in a tab, is the verdict in the log or says that there is
  one (`AnswersAreLogged`). `CourierKeepsTheJournal` reads the refinement off the same
  invariant: a batch that is lost, sent twice or answered DUPLICATE is no step of the
  journal, a verdict is one, and by `SentInOrder` all older acts are decided on or were
  delayed by then. `NoSyncIsStuck`, the safety half of `SyncedInTheEnd`: a tab that waits
  for an answer has a request of its own that the server has or has answered.

*Only model-checked.* `AllActiveAllCompleted`, `EveryoneIsAnswered`, `PageCatchesUp`,
`WaitingEnds` and `SyncedInTheEnd` are liveness and `OnRoadCanBeDelivered` speaks of
ENABLED: both are out of the proof system's reach (of the latter,
`NothingRefusesTheHandOver` proves the guards; of `WaitingEnds` and `SyncedInTheEnd`, the
two theorems named above prove that there is always somebody who can go on, not that they
do). Every other property of a passing run is a theorem, the five refinements included.

## 6. Findings

* **suspended** (code). The completion job re-raises `organization_blocked`
  (`orders/service.py:602`, `identity/team_service.py:83`), and its one transaction is
  rolled back for all companies, as long as a suspended or blocked company has a DELIVERED
  order, due or not. `AllActiveAllCompleted` is what remains true.

* **refused** (documentation against code). `offline-queue.ts:11` says that refused
  operations leave the queue and go to the issues screen. The server answers DUPLICATE for
  whatever it has handled, also for what it refused (`delivery/sync.py:128-132`), and
  `syncQueue` removes the row of a DUPLICATE (`courier-sync.ts:33`): if the first answer is
  not heard, the courier never sees the refusal. `AccountedFor` is what remains true.

Not a finding, because no document promises otherwise, but worth knowing: when a credit is
proposed for a dispute a second time, or the dispute is closed while one waits, the older
proposal stays approvable (`returns/service.py:854`, `:860`). Approved later, it credits the
store and no dispute hears of it; so the credits of one disputed order may sum to more than
its total, although each is at most that (DSP-021). `DisputesAwaitTheirCredit` states what
the current proposal and the final credit are still good for.

Nor is it a finding that cancelling a PLANNED or ASSIGNED delivery alone leaves its order
READY_FOR_DELIVERY with nothing to carry it: TZ.md:10494 and 10566 let a delivery be
cancelled without its order, which can then only be cancelled too.

The exceptions of section 3 are smaller disagreements of the same kind between a page and
its service; no document of the repository speaks of them.

## 7. Not modelled

Prices, terms, texts, GPS data, history rows and audit do not influence the properties and
are left out of the modelled components. That several returns of one order add up to no
more than was delivered is a property of the returns module, not followed in
`ReturnToStock`. Of finance, the credit check, reminders, ageing, statements and previews are left out: they
read. Disputes about payments move no money and have no order. The negotiation of returns,
subscription deadlines, the attempt counter of delivery codes and the outbox's consumers
are in the plan below; the screens that act on them are modelled by the statuses they see. Terms that another member
appends while somebody looks at a request that waits are not among the changes by others:
they leave the version of the partnership as it is.

Of the frontend, layout, texts, search, filters, uploads and printing are left out, and so
are the screens that act on nothing shared: dashboards, reports, notifications, sign-up
and sign-in forms, onboarding, the account page, the public pages, and the routing between
areas. `Desk` has one page at a time: two pages of one browser share a query cache only by
a reload or by their URL. Two cart pages that add to the same line lose an addition
(`buying.tsx:292`): carts have no version and no document promises otherwise, so no
property is stated.

Infrastructure, object storage, Telegram and e-mail are I/O. Components are listed one by
one, with reasons, in `PROJECT.json`.

## 8. Plan

Done, in this order: `Inventory`, `OrderRecords`, `Deliveries`, `Fulfilment`, `Handover`,
`Completion`, `Idempotency`, and their proofs; then the frontend with what it meets at the
server: `Roles`, the screens, `Desk`, `Sessions`, `Courier`, and their proofs; then
`Ledger` and `Disputes` with the sums, and the proofs of both; then the abstractions
`Closing`, `Repetition`, `Rotation` and `Journal`, and the proofs that they are
implemented. Next:

1. `Returns`: requests, windows, approval by lines, receipt, several returns of one order
   within what was delivered (RET-003), joined to the credit notes of `Ledger`.
2. `DeliveryCode`: the counter that commits on its own, regeneration, manual override,
   behind the operation log of `Courier`; an abstract "five tries, applied once".
3. `Outbox`: rows, workers with SKIP LOCKED, back-off and giving up; at-least-once.
4. `Subscriptions`: deadlines, lazy evaluation and tick against payment.
5. Proofs: the code counter's bound, and the invariants of the modules above.

## 9. How to run

In this directory: `tlc -workers 2 -config MCStock.cfg MCFulfilment` for a run,
`tlapm FulfilmentProofs.tla` for a module of proofs. `PROJECT.json` lists the runs with
their modules and properties, the mutants, the map from definitions to source lines, the
findings, hazards and theorems.
