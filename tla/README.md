# Formal models of the gaming café manager

This directory specifies the parts of the system in which several actors,
a network and a crash meet: the PC agent that goes on working without a
connection, the server that reconciles what the agents did meanwhile, the desk
and the worker that change the same rows, the kitchen, the till, and the
browser tab of the staff. The models are TLA+ modules translated from the
sources (`PROJECT.json`, "map", gives the lines of every definition), checked
by TLC on small instances, and in part proved with TLAPS for instances of any
size.

## 1. The system

| Part | State it keeps | Operations | What is hard |
|---|---|---|---|
| Offline outbox (`PcAgent.Core/Outbox`, `Sync`, `Storage`) | SQLite: `outbox`, `outbox_seq`, `last_server_seq` | Enqueue, upload a batch, apply the answer, prune | two commits per event, three threads, lost answers, crashes |
| Event ingestion and review (`modules/sync`) | `offline_events`, sessions | process a request event by event, answer `ack_seq`, resolve a conflict | overlapping requests of one PC, duplicates, reviews that race |
| Sessions (`modules/sessions`) | `sessions`, `session_events` | start, extend, pause, resume, end, cancel | READ COMMITTED transactions with and without row locks, idempotency keys |
| Sweep (`sessions/expiry.ts`, `worker.ts`) | the same tables, `pcs` | expire due sessions, expire commands, mark PCs offline | one UPDATE, then event rows in statements of their own |
| Pricing (`sessions/pricing.ts`) | none | price and breakdown of a stretch of minutes | windows past midnight, priorities, one rounding, order of rows |
| Local session (`SessionEngine.cs`, `AgentWorker.cs`) | `sessions_local`, pause flag | start, extend, end, tick, recover, adopt the server's state | timer, IPC, stream and bootstrap threads |
| Commands (`modules/commands`, `CommandHandler.cs`) | `pc_commands` | issue, deliver, apply, acknowledge, expire | delivered at least once, effects that are not idempotent |
| Realtime stream (`modules/realtime`, `SseClient.cs`) | ring buffer and counter per process | publish, replay, subscribe | gaps, old events, several processes |
| Enrollment and PCs (`modules/auth`, `modules/pcs`) | `pcs`, `pairing_codes`, `device_credentials` | register, pair, enroll, report, delete | single use, steps outside a transaction, abandoned requests |
| Staff sign-in (`modules/auth`, `lib/rate-limit.ts`, `admin-web/src/lib/api.ts`) | users, limiter, session storage, one refresh in flight | sign in and out, request, refresh, stream token | requests that wait for one refresh, answers that come after a sign-out |
| Orders and kitchen (`modules/orders`, `modules/menu`, kitchen pages) | `menu_items`, `orders`, `order_status_history` | order, number, move on, list | daily numbers under an advisory lock, read then write, events before the commit |
| Payments (`modules/payments`) | `payments`, `payment_transactions` | pay | idempotent insert, a ledger row in another statement |
| Deployments (`modules/games`) | `game_deployments`, their targets, installations | create, pause, resume, report | no transaction anywhere, two updates per completion |
| User interfaces, catalogue, other reports, seeds | – | – | not concurrent, no protocol |

How they interact: the agent calls the server over HTTP (upload, bootstrap,
acknowledgements, health, deployments) and listens to one event stream; the
server never calls the agent. The launcher reaches the agent over a named
pipe. The API and the worker share PostgreSQL and a Redis channel. An operation
at the desk changes the table, publishes an event and, when it ends a session,
issues a command; an operation on the PC changes the local table and queues an
event. The staff's tab polls, and is made to poll at once by events of its own
stream.

What makes each part correct:

* outbox: nothing leaves the PC before the server has it; every queued event
  is settled once; events are applied in order; the queue drains;
* sessions: one session per idempotency key; row, log, price and expiry tell
  the same amount of time; a closed session stays closed and has one terminal
  event; a session that is over stops;
* reconciliation: an offline event changes the session it was recorded in, a
  start made on the PC is accepted, and no message ends the wrong session;
* prices: the rate of every minute, rounded once, whatever the order of the
  rules in the table and of the extensions;
* commands: what the desk is told agrees with what the PC did, and a
  connection brings every command that is open;
* enrollment: a machine is accepted as the PC whose row names it, and a
  machine that lost its identity can come back;
* sign-in: tokens stay with their user, an expired access token signs nobody
  out, the kitchen's board comes back;
* orders: numbers of a day without a gap, totals from one menu, a status that
  its history explains, a screen that catches up;
* payments: one row per key, and a ledger that explains the revenue;
* deployments: a target that is over stays over but for requests that were
  under way, and the installation is what the PC reported last.

## 2. Modules

| Module | Models |
|---|---|
| `EventLog` | abstract: an event is held, settled once, reviewed, forgotten |
| `OutboxSync` | outbox, upload, ingestion, acknowledgement, review; service crashes and failing requests |
| `SessionLifecycle` | abstract: a session is opened, gains time, is closed |
| `ServerSessions` | the session endpoints and the sweep |
| `SessionSync` | extends `ServerSessions` by the agent's session, offline events, the server's messages, bootstrap and reviews |
| `PcCommands` | commands of one PC: table, stream, agent, acknowledgements, expiry |
| `Pricing` | rules, the price of a stretch of minutes, booking and extending |
| `Payments` | `POST /payments` and the ledger |
| `Billing` | `Pricing` and `Payments` side by side |
| `Enrollment` | PCs, codes, credentials, agents, health |
| `StaffAccess` | sign-in, limiter, the tab's tokens, requests and stream |
| `FoodOrders` | menu, creation and transitions of orders, the kitchen's screen |
| `Rollout` | deployments of a game |
| `SessionProofs` | proofs about `ServerSessions` and `SessionSync` |
| `BillingProofs` | proofs about `Pricing`, `Payments` and `Billing` |
| other `...Proofs` | proofs about the module of that name |
| `MC...` | symmetry sets and tables for TLC |

**OutboxSync.** An operation is a local mutation together with its event.
`BeginOp` is the local commit, `NextSeq` and `InsertRow` the two commits of
`Enqueue`. `StartUpload` takes the lowest pending rows (`Pending`);
`ProcessSyncEvent` is the transaction of one event; `ReceiveResponse` computes
the cursor as `SyncAck` does; `MarkConflicted`, `PruneAcked` and
`AdvanceCursor` are the statements of `ApplyBatch`, each of which can be the
last one before `Crash`. `GiveUp` is a timeout of the client: the request
lives on at the server, so requests overlap. `LoadConflict` and
`CloseConflict` are the check and the write of a review. Whether the sessions
make an event a conflict is a free choice here; `SessionSync` has the decision.

**ServerSessions.** Extend and the transitions lock the row (`FOR UPDATE`)
and are one step; the sweep's UPDATE is one step and its event rows follow one
by one, unless the worker crashes. A start takes no lock: validation and
insert are separate steps, and the unique index on the key decides between
two inserts. Money is represented by the minutes that were priced; what they
cost is `Pricing`'s subject.

**SessionSync.** The PC records events in its order and they are applied in
that order. Applying one is two steps (lookup, write), as is each of the
reviewing administrator's statements. `local` is the session the customer is
in, so that "the session the event was recorded in" has a meaning. What the
server says about sessions is in `published` for ever: the agent hears any of
it at any time, again or never, as the stream loses, delays and replays. None
of the agent's reactions compares the session: `HearClosed` ends whichever
session it is in, as does a late `end_session` command and, with
`HearEndElsewhere`, the end of another PC's session; `HearActive` makes it
enter one if it is in none. A bootstrap is a question (`AskBootstrap`) and an
answer that may be acted on much later (`TakeBootstrap`). `dropped` is history:
the sessions that the agent left by a message though they were not closed.

**PcCommands.** `Issue` and `Publish` are the INSERT and the publication of
`issuePcCommand`. A connection goes through `Connect` (replay of the ring
after the last event id), `ResendPending` (the query, under new ids) and
`Subscribe`; what is published in between is only in the ring. The agent takes
one entry at a time and answers before it reads on, so `Deliver`, `Apply` and
the acknowledgement follow each other, and a failed acknowledgement of
"applied" is followed by one of "failed". The server reads and writes the row
in two steps, also for requests nobody waits for. `missed` and `delivered`
exist for the property only: they say what this connection cannot or did bring.

**Pricing.** `PickWinner` folds over the rules in an order that is any, as the
query has no ORDER BY; `NextMinute` is one turn of the loop of `computePrice`.
`Book` and `Extend` store what the handlers store: the whole is priced again
from its start, at the tier the PC has by then (`PatchPc` changes it;
`booking.tier` remembers the one of the price). The reference definition
(`RateAt`) speaks of sets of rules and of the band a rule covers, which a
window past midnight takes into the next day. Prices are those of one clock:
the loader passes instants as UTC, whereas `pricing.ts:100-102` says that the
service converts to local time.

**Payments.** A request is a row with the step it is at; `InsertPayment`,
`ReadPrior` and `WriteCharge` are its statements, and after each it may
`Break`. Two requests with one key are a retry, two without are competitors.

**Enrollment.** A handler that is no transaction is one action per statement
(`FindPc`, `RenamePc` or `InsertPc`, `RevokeOld`, `InsertCredential`); pairing
is a read and a transaction. A slot is a request at the server, whether or not
its machine still waits for it. `DeleteCredentials` stands for the statements
of `delete-pc.ts` up to the credentials and marks the PC as `doomed`, which the
property about identities excepts. The fingerprint of a machine is its name
and OS version (`AgentWorker.cs:330-335`); the model takes it to be its own.

**StaffAccess.** One tab. A request is sent with the token that is stored, is
refused, waits for the one refresh in flight, and is sent again or signs out.
Tokens age; one that stopped being good after it was sent may pass or fail
("either"). `Redirect` and `Reload` make a new document, which drops requests,
refresh and stream; `SignOut` stays within the document and drops none of them.
`troubles` bounds what goes wrong.

**FoodOrders.** `BeginOrder`, `LoadItems`, `NextOrderNumber`, `CommitOrder` are
the transaction of `createOrderInTx`: its date is that of its start, the lock
of the day is held from the number to the commit. A transition is `MoveOrder`
(read without a lock), `WriteOrder` (the UPDATE, which waits for the row and
checks no status; the event goes out here) and `CommitMove`. The history of an
order is a bag of moves: its rows bear the time at which their transaction
started (`schema.ts:626`, `orders/service.ts:88-94`) and random ids, so that
the order of the commits is in no column, and no code reads the table. `Poll`,
`ListOrders`, `ShowOrders` are the screen's query.

**Rollout.** Every statement is a step of its own, as no handler uses a
transaction. `Decide` and `WriteTarget` are the read and the write of pause
and resume. The program on the PC is not in the repository; it is taken to
work on one job at a time, of a list it asked for (`TakeUp`), and to report
only what it did. Its requests live on when it gives a job up or takes up
another: a report of progress (`ReportProgress`, `Progress`) and one of the end
(`ReportEnd`, `CompleteTarget`, `CompleteInstallation`, `FailTarget`) are on
their way beside each other, at most one of each per PC, and arrive in any
order, late or never. The list is any `ListLimit` of the open targets
(`ActiveTargets`), as the query has a LIMIT and no ORDER BY. The field `open`
says what its writer had read of a row; `last` and `lag` are history for the
properties.

## 3. Runs

All runs pass; `PROJECT.json` names their properties, and for each property a
change of the code that the run notices.

| Run | Question |
|---|---|
| `OutboxSafety` | Can a row be pruned that the server does not have? Is the invariant of the proofs true? Does the protocol implement `EventLog`? |
| `OutboxLiveness` | Are events recorded in order over retries, and does the queue drain? |
| `SessionsOnline` | Do rows, log, price and keys agree in any interleaving; is `SessionLifecycle` implemented; do overdue sessions stop and get their event? |
| `SyncUnattended` | Is time kept, does every event reach its session and every start the server, while only the PC acts and messages and bootstraps come at any time? |
| `SyncAttended` | Can any interleaving bring a closed session back? |
| `CommandsSafety` | Is what the desk reads true, and does a connection bring every open command? |
| `Billing` | Is the price the sum of the rates of its minutes at the tier it was priced at, does the breakdown explain it, can an extension at one tier make it fall; is a payment entered once, answered truly, and found in the ledger? |
| `Enrollment` | Is a machine ever accepted as another one's PC, is maintenance kept, does a machine come back? |
| `StaffAccess` | Do tokens stay with their user, does an expired token sign out, does the board come back? |
| `FoodOrders` | Are numbers gap-free and totals from one menu, also around midnight? |
| `Kitchen` | Do the rows of the history tell the status when staff races, and does the screen catch up? |
| `Rollout` | Who can open a target that is over, and is the installation right when reports come late and statements break in between? |

**What the code does against its documents.** The models have the following
behaviour (but for power cuts). No run claims the opposite: a property excepts
it by name, or the instance of a run leaves out what it takes to meet it.

* The agent ends its session when a bootstrap finds none active at the server
  (`AgentWorker.cs:624`, `TakeBootstrap`), also when the start of the session
  still waits for its upload; no event tells the server.
  `docs/01-architecture.md:42` says that "active sessions survive any cloud
  outage". `EventsStayInTheirSession` and `StartsAccepted` except the session
  that was left so (`dropped`).
* The end of a session is published for the administrators without a PC
  (`sessions/shared.ts:62`), `matchesContext` passes such entries to every PC
  (`realtime/service.ts:80`), and the agent takes it as the end of its own
  session (`HearEndElsewhere`). `docs/03-protocols.md:149` lists the event for
  administrators only. The same two properties except it.
* A report of progress is written over any state (`games/handlers.ts:423`,
  `Progress`): one that comes after the completion opens the target again, and
  the PC is told to install once more. `docs/03-protocols.md:273` calls
  completion and failure terminal. `OverStaysOver` excepts requests that were
  under way.
* The answer that reports a conflict is lost; the retry is told "duplicate"
  (`apply.ts:275`) and the agent deletes the row, although
  `docs/03-protocols.md:207` has it keep conflicted events "until acknowledged
  as resolved". `PrunedOnlyIfRecorded` is what remains true.
* Two starts that both validated before either inserted leave two active
  sessions on a PC (`start.ts:41`); `docs/05-milestones.md:73` asks for "zero
  duplicate sessions". Only the key is unique (`OneSessionPerKey`).
* An offline end names no session: applied late, it ends the session that came
  after (`apply.ts:255`), although `docs/03-protocols.md:218` has it accepted
  idempotently. `SyncUnattended` therefore has no desk.
* A command that is replayed from the ring and also sent as pending is applied
  twice (`realtime/routes.ts:75`, `CommandHandler.cs:46`);
  `docs/05-milestones.md:46` excludes it. `AppliedMeansEffect` says "at least
  once".
* A power cut takes back the last commits, because `AgentDatabase.cs:24` sets
  `synchronous=NORMAL`; a number can then be used again, and the event that has
  it is deleted unrecorded. `OutboxService.cs:16` promises the contrary. Power
  cuts are not in `OutboxSync`, whose crashes are those of the service.

Other behaviours a reader should know of:

* A crash between `NextSeq` and `InsertRow` leaves a number without an event.
  `IsAck` is a contiguous prefix, so the cursor stops below it for good and
  later rows stay pending. The liveness run therefore has no crash. A conflict
  above an open number has the same effect, because conflicted rows are not
  sent again.
* A crash after `BeginOp` and before `InsertRow` loses the event of an
  operation that took effect.
* With two writing threads a row can be uploaded before one with a lower
  number is inserted. The run that claims order has one thread.
* With the desk at work, the offline end of a session overwrites the status
  the desk gave it, an offline extension writes an expiry that takes back the
  desk's, it is not priced, and accepting a start in a review creates no
  session. `SyncAttended` claims no more than what survives all of that.
* A verdict on a command is not final: an acknowledgement that read the row as
  pending writes it after the worker expired the command, or after another
  verdict. A command can be reported as failed and have taken effect.
* A payment whose request broke between its two statements has no ledger row,
  and a retry, which finds the payment, does not write it. A key that another
  café used is answered with success and without a payment.
* Two members of staff who read the same status both move the order on; its
  history forks (`Forked`), and an order can come back from "cancelled".
* A PC that is moved to a cheaper tier makes its session cheaper at the next
  extension, which prices the whole of it anew (`sessions/handlers.ts:35`).
* With more than 50 open targets a PC is told of any 50 of them, so that some
  may never be carried out (`games/handlers.ts:375`).
* `handleListOrders` returns at most 100 orders; the screen is about those.
* A pairing code can be used by two requests that read it before either wrote.
  A known PC whose credential row is still there cannot enroll by token: the
  INSERT meets the primary key. `ComesBack` says for whom it works.
* A PC that enrolled and never reported has no last report and is never marked
  offline.
* A completion that breaks between its two updates leaves the installation
  behind for good: the target is "ready" and no list has it any more. No code
  inserts installation rows, no statement ever writes the target state
  "offline" or the status of a job, and a PC that is no target of the job
  updates the installation before the handler turns it down.
* A network failure during a refresh signs out, and so does any failure of the
  request that validates the session on load. Signing in over requests of an
  earlier user (`overtaken`) can leave tokens of one user under the name of
  another.

**Bounds.** Two or three operations, two threads, two request slots: an overlap
needs a second request, not a third. `MaxCrashes` and `MaxFaults` count what the
environment does: two crashes fall between any two commits and again during
the recovery, two faults are a lost answer and a failed retry. A batch of one
row stands for the 500 of the code where the queue must be longer than a
batch, a batch of two where one request carries several events. Two sessions
of a PC are the least with which "the other session" exists, two starts are a
request and its retry (one key) or its competitor (none). Time is counted in
units sold, up to three, enough for a session to lapse, to be extended past
that moment and to lapse again. Two commands in a ring of one entry make the
ring forget one of them.

`Pricing` has a day of four minutes, an hour of two and a week of two days, so
that a session of three minutes crosses an hour, a midnight, a weekend and a
window past midnight; the eight tables are those where rules overlap, tie,
leave a gap, or reach past midnight on one day of the week only; the PC changes
between two tiers at any time. Two payment requests with two keys, cafés and
amounts are a retry, a retry with another amount and a key used elsewhere.
Three orders on two days are the least with which a failed order can leave a
gap and midnight can fall between two; one change of the menu can fall between
any two statements. Three members of staff on one order are two that race and
one that goes on from the result; a history of four rows takes an order off the
screen ("delivered"), or forks and goes on. Two machines, one with a token and
one with a code, can meet on one PC; three PCs are the two of theirs and one
from the desk, two actions of the desk are a registration and a code, or a
deletion begun and ended. Two deployment jobs on one PC overtake each other,
and a list of one shows one of the two; two PCs write no common row. One
administrator's request at a time, any number of times, meets every report at
any place. `SyncUnattended` has three events: a start, a change or an end, and
a start; the second session begins before or after the messages about the
first. `SyncAttended` tells states apart without the history that its property
does not read (VIEW). Two users at one tab are the earlier and the later; three
troubles are enough for an expired token, a lost answer and a reload to
coincide. In `StaffAccess` the second failure locks instead of the fifth: the
first is counted, the second locks.

Deadlock is not checked in runs whose instance can simply be used up; the
configuration says so.

**Fairness.** `OutboxSync`: the agent's own steps and the server's processing
are weakly fair: the main loop starts an upload every 30 seconds
(`AgentWorker.cs`), `ApplyBatch` runs to its end unless the agent crashes, a
request that the server works on finishes. Faults and crashes are not fair but
bounded. `ServerSessions`: the sweep is scheduled every 15 seconds
(`lib/queues.ts`), and time passes. `FoodOrders`: the screen polls every ten
seconds and a query is answered (weak fairness); that an answer is shown is
strongly fair, because each event of an order drops the answer the screen was
waiting for, and orders move at the pace of people. `Enrollment`: the server
finishes a request it began, the agent takes an answer it waits for, clears a
refused identity and asks again when its stream reconnects; the last is
strongly fair, because the slots are a bound of the model and may be full for
a while. `StaffAccess`: requests are answered or lost, the timers of the page
run, a lock of the limiter runs out, and staff that finds the login page signs
in; that staff moves an order is not assumed, and troubles are bounded. Nothing
else a person or a network does is assumed to happen.

## 4. Proofs

Every invariant and every action property of the runs has a theorem. Each
inductive invariant named below was first an invariant of a run, on the
instance of the component's `.cfg`, so that TLC could refute it before a proof
was tried.

`OutboxSyncProofs`, from `NoOpAssumption`, `NoReqAssumption`,
`OpsFinite` and `BoundsAssumption` only, for any number of operations,
threads, requests and administrators:

* `TypeCorrect`; `InvariantCorrect`: `IInv` is inductive;
* `NothingLostAfterQueueing`: a pruned row is recorded at the server;
* `Refinement`: `OutboxSync` implements `EventLog`;
* `RecordedInOrder`: if one thread writes (`OneThread`), events are recorded in
  the order of their numbers.

"Pruned implies recorded" is not inductive: that a row may be pruned depends
on the cursor, the cursor on an answer, the answer on verdicts, and a verdict
"duplicate" on the number being taken by the same event. `IInv` closes this
circle: numbers are unique (`SeqUnique`, which needs `WritersApart`, that two
threads never hold the same operation), a recorded event agrees with the
outbox (`RecordsAgree`), and every number up to a cursor anywhere - stored,
in a request, or computed from an answer - belongs to a recorded event or to
none that is in the outbox (`CursorCovered`). `ReviewsDisputed` says that
reviews concern conflicts only and is needed for the refinement.

The order of recording is that of the numbers although requests overlap, are
answered late and are sent again. `OrderInv` adds that the number a thread
holds without a row is the last one given (`WriterIsLast`), and that whatever
precedes an event some request has yet to process is recorded, or stands
before it in the same request (`BatchInOrder`). With two threads
`WriterIsLast` fails between `NextSeq` and `InsertRow`, and so does the order;
hence the hypothesis, which the theorem carries and no assumption hides.

`SessionProofs`, from the assumptions on the constants. Endpoints and sweep
(`Spec`):

* `TypeCorrect`; `InvariantCorrect`; `OneSessionPerKeyCorrect`;
  `TimeAccounted` (expiry, log and minutes agree); `PriceCorrect`;
  `ClosedOnceCorrect`;
* `Refinement`: the endpoints and the sweep implement `SessionLifecycle`.

Here the strengthening is `BlankUntilStarted` (a row not yet inserted is
blank) and `AnswersMatchKeys` (what a request was answered carries its key).
The proof of each step first classifies it (`StepKinds`: insert, extension,
change of status, nothing) so that each conjunct is proved per kind.

With offline events and reviews (`SyncSpec`): `SyncInvariantCorrect` and
`NeverRevived`, that nobody's step makes a closed session run again. `SyncInv`
knows where rows come from: the row of a session begun on the PC is there only
after its start was processed (`RowsFromStarts`), a session has one start
(`StartedOnce`), the event being applied is the first in the queue, and what a
lookup or a review found exists (`InHand`).

With the PC alone at work, and messages and bootstraps at any time
(`UnattendedSpec`): `UnattendedInvariantCorrect`, `EventsStayCorrect`,
`NoStartIsRefused` (`StartsAccepted`, and the PC has one active session at
most) and `OfflineTimeAccounted`. The server finds the session of an event by
"the active one on this PC", so that an event meets its own session only if
queue and table agree, and they disagree once the agent has left a session
that it did not end: `dropped`, which the first two properties except, and
nothing else. `LeftBeforeOthers` says so of all others: from the place in the
queue at which a session is the open one, every event of another session comes
after one that leaves the session; `AgentStaysOrLeaves` says the same of the
agent, who is still in the session or has queued its end. `LookupCurrent`
carries it over the gap between lookup and write, in which the sweep may close
what was found.

`FoodOrdersProofs`, for any number of orders, staff, items, days and changes of
the menu, from `OrdersAssumption`, `PricesAssumption` and `FoodBounds`:

* `FoodInvCorrect`; `NumbersCorrect`; `PricesCorrect`; `HistoryCorrect`.

Each property has its own strengthening. The numbers of a day stay 1 .. n
because an order that has been given one has n + 1 (`NumberIsNext`) and is the
only one of its day (`LockApart`); that n is at most the number of orders is a
surjection argument (`NumbersAreOrders`). A sum is that of one menu since the
transaction began already before the commit (`PricedSince`), and stays so
because the list of menus only grows. A move under way leaves the status the
order has, or one it had (`MovesAllowed`), so that its commit either goes on
from the status or forks the history; moves only climb (`Climbs`), so that a
status that was left is not reached again. `TypeOK` is checked by no run
and proved in the form `Tables`, which does not say that a sum is a number.

`BillingProofs`, about `Billing`'s `Spec`, from `ClockAssumption`,
`BoundAssumption`, `RulesAssumption` (every table is finite, its times lie
between 00:00 and 24:00, and no rate is negative), `NoPaymentAssumption` and
`AmountsAssumption`. For any tables of rules, clock, requests, keys, cafés and
amounts:

* `InvCorrect`; `PricedMinuteByMinute`, `PriceExplained`, `NeverCheaper`;
* `PayTypeCorrect`, `PaidOnce`, `AnswersArePaid`, `ChargedOnce`,
  `RevenueExplained`.

The price is a fold of the loop's body over the minutes, the winner of a minute
a fold over the rules, revenue and ledger are sums over sets. The library
defines folds by a chosen recursive function; the module first shows that the
function exists and computes one step at a time, by well-founded induction on a
number or on the size of a set, each time of a set of numbers, since the
induction theorems with an operator parameter are of no use here. Then
`WindowIsBand` (the handler's test of a minute against a window, past midnight
or not, is membership in the band), `WinnerIsBest` (in whatever order the rows
come, the winner is a rule that holds, of the highest priority and, among
those, of the dearest rate, which is why the order does not matter for the
price; both for one tier) and `BreakdownCovers` (after every minute the
segments cover the minutes so far without gap, and are worth the rates of those
minutes) lead to `SaleInv`, in which the rates are those of `booking.tier`.
That no extension at one tier is cheaper is a property of steps: the new
breakdown covers the minutes of the old one, from the same start, at the same
rates.

`PayInv` says that a payment row is there for whoever found its key taken
(`Grounded`) and, payment by payment, how many ledger rows it has at which step
of its request (`ChargedByStep`). Revenue and ledger are then sums over the
same payments, and differ by the payments that have none.

`RolloutProofs`, from `NoneAssumption` and the assumptions on versions and the
limit of the list, for any jobs, PCs, versions and administrators:
`RolloutInvCorrect`, `RolloutTypeCorrect`, `InstallationRight`, `OverIsFinal`.
The strengthening: targets are those of answered jobs (`TargetsOfJobs`), what a
PC works on and what its reports and the requests are about exists
(`JobsKnown`), whoever is about to write a target has read it as open
(`ReadOpen`), and between its two updates a completion is its PC's last one
(`MarkedIsLast`).

`StaffAccessProofs`, from `AccessNone` (no record is the value that stands for
"none") and `AccessBounds`, for any users and troubles: `AccessInvCorrect`,
`NamesCorrect`, `SignedInCorrect`. Tokens change hands by the one refresh in
flight: unless somebody signed in over the requests of an earlier user, it is
the stored user's (`FlightIsOurs`), as are the stored tokens (`StoreIsOurs`)
and the requests (`RequestsAreOurs`), and it is that of everybody who waits
for it (`WaitersAgree`). That it does not fail for a user in good standing
needs `FlightFails` and `StoredIsSettled`: a token is in doubt only if its user
was turned out.

`PcCommandsProofs`, from `PcCommands`' assumptions, for any commands and any
faults of stream and server: `TypeCorrect`, `AppliedCorrect`,
`OpenCommandsCorrect`. A verdict passes through
requests that may lie at the server for long, so each of them must tell the
truth when it was made and afterwards (`AcksAreTrue`). That a live connection
has heard of every open command must hold already when its query was answered
(`OpenCommandsHeard`): the query lists what is open and is put behind the
replay; from then on a command is published after it became open, and a
connection that is not subscribed yet misses it, which `missed` records.

`EnrollmentProofs`, from `EnrollmentNone` and `EnrollmentBounds`, for any
machines, PCs, codes and requests: `EnrollInvCorrect`, `MachinesCorrect`,
`StatusCorrect`. Whoever has the current credential of a PC, or an answer with
it that was not read yet, is the machine of the row (`HoldersMatch`); the
answer a machine awaits was written for it (`AwaitsOwn`). Enrollment reads the
row long before it inserts: in between a code may give the PC to another
machine, but then the PC has a credential and the INSERT fails
(`EnrollingMatches`). Fresh identifiers are ones nobody refers to.

Only model-checked: liveness, as the prover has no ENABLED (`OutboxDrains`,
`DueSessionsStop`, `SweepIsLogged`, `KitchenCatchesUp`, `ComesBack`,
`BoardComesBack`).

## 5. Not modelled

* The local engine beyond its table: the pause flag (which outlives its session
  and is reset by news of an active one only), the clock that news of the
  session the agent is in sets, warnings, tick and recovery.
* The numbers of several API processes on one stream, and the pool of ten
  connections that ten starts can exhaust.
* Power cuts (above), failures of PostgreSQL or Redis, and signatures and
  password hashes, which are taken to work.
* The superadmin check of a PC (`pcs/handlers.ts`), whose limiter is read
  before an await, the PC's own lock, and the loss of the limiter's counters
  when the API restarts.
* The customer web, whose client repeats the refresh of the staff's but never
  clears its tokens on sign-out, and customers' orders over the PC.
* User interfaces, file scans, operating-system calls, reports other than the
  revenue, seeds and the catalogue's categories: no state that several actors
  change in steps.

Hazards without a property carry a note in `PROJECT.json`.
