# Verification of the job queue, the clearance workflow and bank reconciliation

This directory holds TLA+ models of the three parts of this repository whose
correctness depends on what several actors do at once: the **job queue**
(addon `queue_job`: table, runner, channels, workers), the **clearance
workflow** (addons `clearance`, `transportation`, `clearance_extra_charges`:
a request with its invoices, payments and shipping orders, worked on by
several users) and the **bank reconciliation** screen (addon
`account_reconciliation_widget`: a web client whose calls overlap, and the
methods of the server they reach). TLC checks the models on small instances,
and TLAPS proves the safety properties that hold for every instance.

Paths below are relative to the repository.

## 1. Inventory of the repository

The repository is the set of Odoo 14 addons of a customs and transport
company, with several products that do not concern its core business and
community addons. `PROJECT.json` lists every component; those that carry the
program's own logic are the following.

| component | state it keeps | operations | interacts with |
|---|---|---|---|
| **Job** `queue_job/job.py`, `models/queue_job.py`, `post_init_hook.py` | a row of `queue_job`: state, retry, eta, priority, date_done | `enqueue`, `perform`, `postpone`, `set_*`/`store`, `requeue`, `button_done`, `autovacuum`, `requeue_stuck_jobs` | every write sends a PostgreSQL `NOTIFY` to the runner |
| **Runner** `queue_job/jobrunner/runner.py`, `__init__.py` | the databases it listens to, the stop flag | LISTEN, SELECT, `process_notifications`, `run_jobs`, `wait_notification`, recovery of exceptions | reads the table, calls `/queue_job/runjob` with a timeout of 1 s |
| **Channels** `queue_job/jobrunner/channels.py` | per channel: waiting, running and failed jobs, the end of its pause | `notify`, `remove_job`, `get_jobs_to_run`, `get_wakeup_time` | called by the runner alone |
| **runjob** `queue_job/controllers/main.py` | none of its own | one execution of a job, with all its exits | locks and writes the row, commits the job's changes |
| **Clearance request** `clearance/models/clearance_request.py` | state, type, data, lines, invoices | `action_send`, `action_customs_statement`, `action_transport`, `action_cancel`, `set_to_draft` | creates invoices and fee payments |
| **Delivery** `transportation/models/clearance_request.py` | number of orders, closing requirements | `action_delivery`, `action_delivery_done`, `action_close`, `action_cancel` | warehousing invoices; cancels the orders |
| **Shipping order** `transportation/models/transportation.py` | state, lines, goods, rewards, services | `create`, `action_done`, `action_closed`, `set_to_draft`, `action_cancel`, `create_rewards_payments`, and of a line `create_reward_payment`, `print_way_bill_report` | invoices and payments of the request, the orders made from it |
| **Extra charges** `clearance_extra_charges/` | charges of a stage that were invoiced | `create_invoice_action`; two more guards | asked for by two validations of the request |
| **Bank reconciliation** `account_reconciliation_widget/static/src/js/reconciliation/`, `models/` | in the client: mode, partner, lists, propositions and balance of every statement line, the progress; in the server: the entries | the handlers of `StatementAction`, `StatementModel` and their calls `get_move_lines_for_bank_statement_line`, `process_bank_statement_line` | other accountants reconcile the same items |
| Yard, truck reservation, credit limit | slots; reservations; open amount | check-then-write methods | lines of orders; orders; requests |
| Hotel, approvals, HR and payroll, POS, real estate, accounting, e-invoices, documents, dashboards, translations | — | mostly forms, reports and vendored code | not modelled, reasons in `PROJECT.json` |

**Hard behaviours.** In the queue: the runner acts on its own view of a job,
which lags behind the table; its request to run a job may time out while it
still waits at the server, so that the job is reset and requested again; a
worker or the runner may die between any two commits; a job's row is written
by the runner, two kinds of cursors of the worker, two crons and operators; in
the channels, jobs move through a tree while notifications put them back. In the
workflow: methods are REPEATABLE READ transactions that test what they see in
their snapshot and not the state they start from; a button is pressed on a
form that may be older than the database; creation of an invoice conflicts with nothing; the
cancellation of a request fans out over invoices, payments and orders; Odoo
repeats a method that lost a row to another one without asking the form again.
In the reconciliation: a handler of the client waits for two or three calls,
whose answers come in any order, fail, or find that other lines and other
accountants have moved on.

**What makes each component correct.**

* Job, runner and runjob: no notification is lost for good; no job is executed
  more often than it was requeued while started or done; the channel's
  capacity holds for the table through restarts; a job does not stay pending
  for ever.
* Channels: a job is in one place of the tree; all capacities hold at once; no
  capacity is left idle; the runner sleeps neither too long nor not at all.
* Request: it moves along its life cycle and is billed once, for its main
  service and for warehousing, whoever validates it at once; validations hold
  what they ask for when they commit; cancellation leaves nothing open.
* Shipping orders: a difference of prices is billed, and once; a way bill does
  not reward a driver twice; a cancellation takes what hangs on the order.
* Bank reconciliation: an item is chosen once and reconciled once, a line
  settles items of its own partner only, balances are those of the
  propositions, the progress counts lines that have their entry.

The hazards in `PROJECT.json` list, line by line, where each of these could go
wrong and what checks it.

## 2. Modules

| module | role |
|---|---|
| `QueueJob` | table, runner with one channel, runjob requests, workers, operators and crons |
| `QueueJob_proofs` | its theorems |
| `Channels` | the tree of channels, inside the runner |
| `Channels_proofs` | its theorems |
| `RequestLifecycle` | the abstract life cycle of a request, as its users see it |
| `ClearanceRequest` | a request with invoices, payments, orders, transactions and forms; implements `RequestLifecycle` |
| `ClearanceRequest_proofs` | its type, the main invoice, the refinement |
| `ClearanceRows_proofs` | its theorems that rest on the rows a method writes: invoices, data, order, cancellation |
| `ShippingOrders` | the orders of one request, their lines, rewards and invoices, under concurrent methods |
| `ShippingOrders_proofs` | its theorems |
| `Reconciliation` | the reconciliation screen, its calls and the server |
| `Reconciliation_proofs` | its theorems about the server, the lists and the balances |
| `ReconciliationLines_proofs` | its type, the partners of lines, the progress |
| `Sums` | what a sum over a finite set is worth: lemmas for `ShippingOrders_proofs` and `ReconciliationLines_proofs` |
| `MCQueueJob`, `MCChannels`, `MCClearanceRequest`, `MCShippingOrders`, `MCReconciliation` | instances for TLC: symmetry, shapes of trees, amounts |

`QueueJob` and `Channels` split the runner between them. `QueueJob` has every
process and failure around the table and keeps of the channels only where a
job stands (`belief`) and the root's capacity. `Channels` has all of the
channels and keeps of the rest only that anybody may write a row between any
two steps.

### 2.1 QueueJob

*State.* `row` is the table (state, retry, whether date_done is set); `runner`
the phase of the runner's thread; `notifs` the NOTIFYs it has not processed (a
set, because the runner re-reads the row whatever a notification's age);
`belief` where its channel keeps each job; `calls` the runjob requests of each
job: the client waits (`open`), gave up while the request is still queued
(`late`), or waits while a worker executes it (`served`); `work` what each
worker executes, with its own copy of retry and date_done, and whether another
transaction wrote the row since its snapshot. `effects`, `reruns` and `leaked` are history.

*Actions.* `RunnerListen`, `RunnerLoad`, `RunnerReady`, `RunnerError`,
`RunnerDies` are the start of `QueueJobRunner.run` and its exception recovery
(LISTEN comes before SELECT); `ProcessNotification` is
`process_notifications`, `Dispatch` one turn of `run_jobs` (the UPDATE to
enqueued, which tests nothing, and the request). `CallTimeout`,
`ServedTimeout`, `CallRefused`, `ServedAnswered`, `LoseLate` are the ways of
`urlopen`, with the reset to pending by `set_job_pending`. `ServeStart` and
`ServeSkip` are the SELECT FOR UPDATE of `runjob` and its test of the state;
then `BeginPerform` and one of `PerformDone`, `NothingToDoConflict`,
`Conflict`, `PerformRetry`, `PerformRetryIgnored`, `PerformFailed`: the exits
of `runjob`, each with the cursor it writes on. `WorkerDies` may happen
wherever a worker is busy. `Requeue`, `SetDone`, `RequeueStuck`, `Autovacuum` are people
and crons.

*Abstractions.* Time is left out: an eta, the 1 s timeout, the 5 minutes of
the stuck jobs cron become "at any moment". One database; the jobs' functions
do not call the queue.

### 2.2 Channels

*State.* `row` (started counts as enqueued: channels treat both alike),
`notifs`; `job` the priority and eta in the runner's `ChannelJob`; `queue`,
`running`, `failed` the sets of every channel; `pause` its `_pause_until`;
`todo` the channels whose turn is still to come in the current `run_jobs()`;
`now` the clock, which stands still during `run_jobs()` as the code reads it
once; `called` says what wakes the runner and serves two properties only.

*Actions.* `Notified` is `ChannelManager.notify` and `remove_job`, with
`SetPending`, `SetRunning`, `SetFailed`, `RemoveJob` down the path to the root, as
the code walks it (each stops where the job already is what it should be); a
job whose priority or eta changed is removed and created anew. `RunJobs`
starts a round; `Yield(c)` is one iteration of the loop in
`get_jobs_to_run`, `EndTurn(c)` its end; the generators run children before
their parent, which `Turn` says; in the root, `HandOver` is
`set_job_enqueued`. `Restart` is the recovery of an exception: `remove_db` and
`initialize_databases`. `Others` is everyone else who writes the table.

*Abstractions.* The tree and its configuration are constants (`Parent`,
`Path`, `Capacity`, `Sequential`, `Throttle`), any tree whose paths form
chains down to the root; parsing and creation of channels are left out, and so
is a job that changes its channel. `PriorityQueue`, a heap with lazy removal,
is a set with an order. A sequential channel has capacity 1, as `configure()` demands.

### 2.3 RequestLifecycle and ClearanceRequest

`RequestLifecycle` is the promise: stages of the status bar one validation at
a time, cancelled or back to draft at any stage, at most one main invoice,
issued by the validation that completes customs or delivery.

`ClearanceRequest` *state.* `db` is the committed database: the request's row
(`req`), the data kept in its lines (`lines`), what the closing requirements
lack (`asked`), the invoices, payments and orders. `tx` is, for every user,
the method under way, its snapshot and the rows that others changed since.
`forms` are the buttons and editable fields that some open form offers.

*Actions.* `Press` begins a method that a form offers; `Commit` ends it with
one of the results computed **from its snapshot**, merged into the database if
no row it writes was changed since (PostgreSQL's REPEATABLE READ; an inserted
row never conflicts, and a field assigned the value it has is not written);
`Abort` is a ValidationError, a conflict or a lost connection. One operator
per method says what it makes of a snapshot: `Send`, `CustomsStatement`,
`Transport`, `Delivery`, `DeliveryDone`, `Close`, `SetToDraft`, `Cancel`,
`ExtraCharges`, with the overrides of `transportation` and
`clearance_extra_charges` included. No validation tests the request's state on
the server, so none does here: only the form hides buttons. `EditType`,
`EditRow`, `EditLines`, `Answer`, `EditInvoice`, `DeleteInvoice`,
`CreatePayment`, `PostPayment`, `CreateOrder`, `MoveOrder`, `DoneOrder`,
`EditOrder`, `CancelOrder` are what other people do, each one transaction.

*Abstractions.* Amounts, names, activities, mails and WhatsApp messages are
left out; a part of the data is filled in or not. An installation without
`bayan_api` (which adds one more ValidationError to two validations and lets
the lines be edited later) and without credit limits (one more Abort). The
extra payment states of `account_payment_state` count as draft. An order's
methods are atomic here, and its payments are those a cancellation finds;
`ShippingOrders` has the rest. A method that Odoo repeats after a conflict is
one that was aborted and pressed again, which up-to-date forms allow only while
they still offer the button; automatic repeats without that test are covered
where `StaleForms` is TRUE (`request_cancel`).

### 2.4 ShippingOrders

*State.* `db` is the committed database: the state of each order, the reward
each line points to, the rewards made for each line, the transport lines billed
and how many invoices bill a difference, the service invoices of each order.
`tx` is per user the method under way with its snapshot and the rows others
wrote since, as in `ClearanceRequest`.

*Actions.* `Press` begins a method that the form offers. `Commit` ends it:
`action_done` (with the difference of prices and the service invoices),
`action_closed`, `action_cancel`, `set_to_draft`, `create_rewards_payments`,
`create_reward_payment` and `print_way_bill_report` say what each makes of its
snapshot. The state of an order is written even where it keeps its value
(`Written`), so two methods that assign it are in conflict. `Repeat` is Odoo's
automatic retry of a refused method on a new snapshot.

*Abstractions.* Each line carries a good of its own and orders exist from the
start: creation and its choice of goods are left out. Orders are made from
yard orders only, so the tree of orders has two levels. Payments of covenants,
meetings, the expiry checks of a way bill (one more refusal) and the overrides
of `bayan_api` and `farha_custom` are left out. `ConfirmTwice` is FALSE in the
run: one order is confirmed by one user at a time.

### 2.5 Reconciliation

*State.* `line` is what the client keeps of every statement line (mode,
partner, items offered, propositions, write-off, unfinished write-off, balance, search
texts); `shown` and `valuenow` the screen and its progress; `calls` the calls
under way, with what each was asked for and what its handler does with the
answer; `server` the entries made and what other accountants reconciled.

*Actions.* What the user does: `Toggle`, `ChangeTab`, `ChangeFilter`,
`changeOffset`, `addProposition`, `AddSpare`, `RemoveMoveLine`,
`RemoveWriteOff`, `updateProposition`, `quickCreateProposition`,
`changePartner`, `validate`. Each is the handler up to its calls; its rest is
in `FetchAnswered`, `PartnerRead` and `ValidateAnswered`. The default mode of a
line, the removal of a line's last proposition with its partner, and the way
an empty list leaves for its default mode are as in the code
(`getDefaultMode`, `Removed`, `formatMoveLine`). `process_bank_statement_line` is
the server's transaction. `FetchFailed`, `ValidateFailed` (a refusal, or an
answer that is lost after the entry was made) and `OthersReconcile` are the
troubles. A click on an inactive line reaches the line as well and
opens it (`Bubbled`).

*Abstractions.* The user waits until a line has answered before acting on it
again, other lines at any time. Partial amounts, taxes, currencies, models of several lines,
matching rules, loading of further lines and `ManualModel` are left out. A list is
fetched whole, or one item of it.

## 3. Runs

| run | question | instance | result |
|---|---|---|---|
| `queue_rerun` | Is a job executed more often than it was asked for? Does the runner's view go stale? | 1 job, 2 workers, 2 outstanding requests, 4 faults, operators in any state | `TypeOK`, `NoLostNotification`, `ExecutionsBounded` hold |
| `queue_liveness` | With operators who use the form's buttons only: does the capacity hold, is "done" final, does every job settle? | 2 jobs, 2 workers, capacity 1, 3 faults, fairness | `WithinCapacity`, `BusyWithinCapacity`, `DoneIsFinal`, `EveryJobSettles` hold |
| `queue_vacuum` | Does autovacuum delete done jobs only? | 1 job, 1 worker | violated: finding |
| `queue_retried_attempt` | Does an attempt that asks for a retry leave nothing? | 1 job, 1 worker | violated: finding |
| `channels` | One place, all capacities, no idle capacity, the right wakeup time | 3 jobs with etas; S a child of A, A and B children of the root; A sequential and throttled, S without limit; time 0..1; rows change at any step | `TypeOK`, `OnePlace`, `WithinCapacities`, `NoIdleCapacity`, `NoMissedWakeup`, `WakeupAhead` hold |
| `channels_sequential` | Does a sequential channel keep the order of priorities, as its comment says? | 3 jobs in a sequential channel, time 0..2 | violated: finding |
| `request_races` | Two users on one request: life cycle, billing, data | 2 users, 2 invoices, 1 order, types change, 2 edits | `TypeOK`, `OneWarehouseInvoice`, `LifecycleSpec`, `TransportNeedsData` hold |
| `request_cancel` | Forms of any age: is the request billed once, what does a cancellation leave open, is delivery validated without an order? | 2 users, 2 invoices, 1 payment, 1 order, 3 edits | `OneMainInvoice`, `DeliveryNeedsOrder`, `CancelLeavesNothingOpen` hold |
| `request_unbilled` | Is a request that is delivered billed? | 1 user, 1 invoice, 1 order | violated: finding |
| `orders` | Is a difference billed, and once? Who rewards a driver? What does a cancellation take? | 2 users; a yard order with services, an order made from it, another of two lines; 5 presses | `TypeOK`, `OneDifference`, `WayBillRewardsOnce`, `CancelTakesAll`, `DifferenceBilled` hold |
| `reconcile` | Answers in any order, failures, other accountants: lists, partners, balances, progress, items | 2 lines, 2 items of two partners in two lists, a search, write-offs, 5 handlers, 1 trouble | `TypeOK`, `OneSide`, `PartnerOfProps`, `BalanceFresh`, `Progress`, `ReconciledOnce` hold |
| `reconcile_stale_balance` | Is every entry that is sent balanced? | 2 lines of one partner, 2 items, 6 handlers | violated: finding |

**Bounds.** One job suffices for the number of its executions: jobs interact
through the capacity only, for which there are two. Two outstanding requests
are a late one and the next; two workers let both be served at once. Three or
four faults (a timeout, a loss, a death, a conflict or an operator's act each)
are more than any violation of a mutant needs. The tree of `channels` has a
channel in the middle and two that compete for the root; three jobs, one per
leaf and level, fill it; time 0..1 has room for an eta and a pause. Two users
are a race; two or three edits of other people let the data be cleared and
filled in, or an order come and go, between the press of a button and its
commit. Five presses let two orders be confirmed, one be set back or
cancelled, and one be confirmed again while a way bill is printed. Five
handlers open two lines, choose on both, validate one and change the other;
two items in two lists and of two partners let each list be
empty, full or foreign. Every property has a mutant (a plausible bug in a
mapped definition) that TLC finds under the same bounds.

**Fairness** (`queue_liveness`). Weak fairness of: the runner's start and loop
(a thread that Odoo restarts; its loop has no exit but `stop`), processing of
notifications and dispatch (one loop, which takes both in turn), the server's
taking of a request and the client's taking of its answer, each worker's steps
(job methods terminate), and the stuck jobs cron when the job has no request
outstanding (its five minutes are far longer than one). Nothing is owed by timeouts, losses, deaths and people, whose
number is bounded. A started job whose worker died stays in its channel
(`started_delta` of the cron is 0): the property says so with `Orphaned`.

**Deadlock** is not checked: all systems may stop (every job done, the
request closed, or the bound of time or edits reached).

## 4. Findings

1. *autovacuum deletes jobs that are not done* (`queue_vacuum`): it selects by
   `date_done`, which a requeue keeps, while its docstring speaks of jobs done.
2. *A retried attempt's changes are committed* (`queue_retried_attempt`):
   `runjob` postpones the job on a second cursor and returns normally.
3. *A sequential channel overtakes* (`channels_sequential`): `pop()` compares
   with the job of the smallest eta only, not with the one of highest priority
   that waits.
4. *A request cancelled and begun again is delivered unbilled*
   (`request_unbilled`): the cancelled invoice counts as the main one.
5. *A line keeps the balance of propositions it lost*
   (`reconcile_stale_balance`): `validate` takes them from `other_line` and then
   computes `line` again (`reconciliation_model.js:1125`), so the other line is
   later sent with an open amount that does not balance its entry.

Seen while modelling and not given a run of their own. In the orders: of two
that confirm the last orders at once neither bills the difference;
two confirmations of one order count its lines twice (`ConfirmTwice`); a route
cheaper than what was billed is billed by its absolute difference; a
confirmation that Odoo repeats after a cancellation won brings the cancelled
order back. In the reconciliation: a double click on Validate is counted twice
(`MaxPresses = 2` violates `Progress`), as the server's test of a line that has
its entry is commented out (`account_bank_statement.py:133-149`); and two
misspelt names, `.lenght` (`reconciliation_model.js:1645`) and
`widget.need_update` (`reconciliation_action.js:340`). In the queue: a serialization error
postpones a job without consulting `max_retries` (`controllers/main.py:72`),
although the field's help says that the job fails when it is reached; and on a form left
open since before the request went back to draft, `action_transport` passes
without the data it asks for, because the computed flags it tests are false in
the draft state (in `request_races` forms are up to date, and it does not).

## 5. Proofs

TLAPS checks these theorems from the named assumptions on the constants alone
(finite sets of jobs, workers, channels, invoices, orders, items; the tree's
shape; statement lines numbered from 1; types of bounds; `NoTx` is not a
transaction), and from the hypotheses the table gives. Names are those of the
modules. Together they state every property that a passing run checks, except
the one of liveness.

| theorem | statement | needs |
|---|---|---|
| `QueueJob_proofs!TypeCorrect` | `Spec => []TypeOK` | inductive by itself; no count of requests falls below zero, since each step that takes one has found one |
| `!NotificationsKept` | `Spec => []NoLostNotification` | `BeliefInv`: also a runner that has not loaded knows nothing, and what is in flight counts as running; the steps of all but the runner are of one kind, `TableStep` (a write notifies a listening runner) |
| `!CapacityKept` | `Spec => []WithinCapacity` | `BeliefInv` and `CapacityInv`: what the runner counts as running is within the capacity too, and what is in flight is among it once it has loaded |
| `!ExecutedOnce` | `Spec => []ExecutionsBounded` | `BeliefInv`; steps are classed by what they start (`NothingStarts`) |
| `!BusyKept` | if `Undisturbed`, `Spec => []BusyWithinCapacity` | `TryInv` and `CapacityInv`, below |
| `!DoneStays` | if `Undisturbed`, `Spec => DoneIsFinal` | `TryInv`, below |
| `Channels_proofs!TypeCorrect` | `Spec => []TypeOK` | — |
| `!PlacesKept` | `Spec => []OnePlace` | inductive with `TypeOK`; geometry of the tree: `AboveParent`, `AboveHome`, `AboveRoot` |
| `!CapacitiesKept` | `Spec => []WithinCapacities` | strengthened: `running[c]` itself is within the capacity (`RunningWithin`), and `OnePlace` puts every job Odoo works on into it |
| `!CapacityUsed` | `Spec => []NoIdleCapacity` | `WaitInv`, below |
| `!WakeupEnough` | `Spec => NoMissedWakeup` | `WaitInv`, and `OnePlace` for restarts |
| `!WakeupLater` | `Spec => WakeupAhead` | `WaitInv` |
| `ClearanceRequest_proofs!TypeCorrect` | `Spec => []TypeOK` | every result of a method on a database of the type is one |
| `!OneMain` | on up-to-date forms, `Spec => []OneMainInvoice` | below |
| `!Implements` | on up-to-date forms, `Spec => LifecycleSpec` | below |
| `ClearanceRows_proofs!DeliveryHasOrder` | `Spec => DeliveryNeedsOrder` | `RInv`, below |
| `!CancelledWhole` | `Spec => CancelLeavesNothingOpen` | `RInv` |
| `!TransportHasData` | on up-to-date forms, `Spec => TransportNeedsData` | `RInv` and the invariant of `OneMain` |
| `!OneMainAnyForm` | if not `Unlink` and not `Retype`, `Spec => []OneMainInvoice` | `RInv` and `MInv`, on forms of any age |
| `!OneWarehouse` | on up-to-date forms, `Spec => []OneWarehouseInvoice` | the same, and `WInv` |
| `ShippingOrders_proofs!TypeCorrect` | `Spec => []TypeOK` | `TypeInv`; `SumType` |
| `!WayBillsReward` | `Spec => []WayBillRewardsOnce` | `SnapshotInv`, below |
| `!CancelTakes` | `Spec => CancelTakesAll` | `SnapshotInv`, below |
| `!LastBills` | if not `ConfirmTwice`, `Spec => DifferenceBilled` | `ConfirmInv`, below |
| `!BilledOnce` | if not `ConfirmTwice` and `WholeOrders`, `Spec => []OneDifference` | `BillInv`, below |
| `Sums!SumType`, `!SumWithout`, `!SumDisjoint` | type, independence of order and additivity of `MapThenSumSet` | smallest counterexamples |
| `Reconciliation_proofs!ReconciledOnceKept` | `Spec => []ReconciledOnce` | inductive with the shape of `server` (`ServerInv`): the server tests the items on the state it writes to |
| `!OneSideKept` | `Spec => []OneSide` | `OneSideInv`, below |
| `!BalanceKept` | `Spec => []BalanceFresh` | `FreshInv`, below |
| `ReconciliationLines_proofs!TypeCorrect` | `Spec => []TypeOK` | `LinesInv`, below |
| `!PartnersKept` | `Spec => []PartnerOfProps` | `LinesInv` |
| `!ProgressKept` | if `MaxPresses = 1`, `Spec => []Progress` | `ProgressInv`, below |

*The hypotheses.* Each says which use of the code the property holds for, and
is what the run sets; TLC finds the property violated without it.

- `Undisturbed`: operators requeue neither started nor done jobs and set neither
  pending nor started ones to done. The buttons of the form ask for no more; a
  write of the field by the list's wizard or by code may, and then the table has
  a second execution of a job next to the first, as `ExecutionsBounded` counts.
- `~StaleForms`: a button is pressed on a form that shows the present state. On
  an old form a repeated validation may write the state that the row already
  has, which conflicts with nothing: data cleared meanwhile is not missed
  (`TransportNeedsData`), and two repeats each create a warehousing invoice
  (`OneWarehouseInvoice`; with three invoices).
- `~Unlink`, `~Retype`: no draft invoice is deleted and the type is not changed.
  Either leaves a request in the state where it is billed without an invoice,
  and two repeats on old forms each create a main one (with three invoices).
- `~ConfirmTwice`: an order is confirmed by one user at a time. Otherwise a
  repeat finds it done and counts its lines twice, so that the number of goods or
  their price is wrong (`DifferenceBilled`; `OneDifference` with three orders of
  one line each).
- `WholeOrders`: the goods of the request are those on its orders, and each
  order has one; otherwise the orders of all goods may be done, and the
  difference billed, before the last order is.
- `MaxPresses = 1`: Validate is not pressed again while its call is under way.

*Why a try is alone.* `TryInv`: a job that the channel would hand out is
pending in the table, only a done job has its date, and the job that a worker
executes is started and that worker's alone. A late request finds the row
started or done and is skipped; the stuck jobs cron resets
enqueued jobs only. So the busy workers are as many as the started jobs, which
`CapacityInv` bounds, and nobody is left who could store an end for a job that
is done.

*Why the channels keep their places.* A job waits in one channel and counts
as running in exactly those above it. A yield moves it to the parent and adds
the channel to those above, which is where the paths' being chains is needed;
in the root it completes the path. A notification finds a started job counted
along its whole path, so `set_running` changes nothing; one of any other state clears
the path. Hence a restart counts nothing that was not counted, and the
capacity test before a yield is the only place where a count grows.

*Why the runner sleeps no longer than it may.* `WaitInv` follows a round of
`run_jobs()`. With a channel whose turn is to come, so are the channels above it
(`UpClosed`), as a channel's turn waits for those of its children; that this
reaches all channels below needs the tree to be finite (`ChildOnPath`). So a channel
whose turn is over gets no more jobs. It is at rest (`Rested`: full, paused, or the first of its jobs is
held back by one with an eta), and its pause and etas are to come (`Punctual`);
this is all that `NoIdleCapacity` and `WakeupAhead` say at the end of the round.
For the wakeup time the invariant follows a second set through a round that only the
default timeout called for: the channels that `get_wakeup_time()` asks
(`Asked`: free all the way to the root). None of them has a job to
yield when the round begins, as no time is due, and none gets one: a channel
that yields is not asked, hence neither are those below it, and its parent
either is not asked or is paused; and a pause that ends in
the round opens no way to the root. A channel that is not asked may yield, and
the job then waits below the one that is full.

*Why two users bill once.* The inductive invariant of `ClearanceRequest` says
that the forms offer what the database offers, that there is at most one main
invoice, and that every transaction is *sound*: its button was offered for its
snapshot; a row that was not spoiled is in the snapshot what it is in the
database; and with the request's row unspoiled the snapshot has every main
invoice there is. Two validations of one request both write its state; the
second is in conflict. On stale forms this argument fails, as a repeated
validation may write the state the row already has. Then the property rests on
the search for earlier invoices as well: `MInv` says that a request in the state
where it is billed (`transport` for a clearance, `delivery_done` for the others)
has an invoice, in the database and in every snapshot. So a method that finds
none does change the state, and with it the row.
`WInv` says the same of the warehousing invoices. The code only looks for one in
its snapshot; that two validations of delivery cannot both miss it is due to
the state they both write.

*Why rows are enough.* `RInv`, on forms of any age: an order that is created, moved
away or deleted changes the stored number of orders in the row of the request
(`Counted`), and a transaction with that row unspoiled sees the orders that there
are (`Faithful`). A validation that changes the state writes this row, so that
an order taken away meanwhile refuses it; `action_cancel` writes it too, so
that no order that it does not see is left open.

*Why a way bill rewards once.* The inductive invariant of `ShippingOrders` says
that a line points to its last reward and only its first may come from a way
bill (`IsDb`), and that each snapshot is a former database: what was rewarded
then still is, no reward has opened again since (`Later`), and rows that nobody
wrote meanwhile are as they were (`Sound`). A way bill that finds no reward
writes the line; if another rewarded the line meanwhile, that row is spoiled
and the method is refused. A cancellation writes the state of the order and of
all made from it, so it too is refused when one of them was confirmed meanwhile.

*Why a difference is billed once.* A confirmation computes the sum of the routes of all
done orders and its own, and bills it if their lines are all the goods. `ConfirmInv`: what is
billed is never less than at the start, and an order under confirmation is not
done, nor confirmed by another; so the sum has each line once (`SumDisjoint`)
and the last confirmation bills the sum of all routes. `BillInv`: there
is no difference invoice before the whole is billed, and after it there is one and the
amount billed is the sum, so that a later confirmation that counts all goods
finds no difference; one that does not count them all bills nothing. Of the confirmations under way at most one
completes the orders (`Completes`), as each needs all other orders done.

*Why a line never offers what it chose.* `OneSide` is not inductive: an answer
adds to the list of a line whatever the line has chosen meanwhile. The invariant
`OneSideInv` adds that what a line has chosen is excluded from each of its
fetches under way. It holds because a handler asks with all that the line
chose and offers (`FetchExcludes`), because a line with a call under way is not acted on
(`HandledKeeps`), and because all that happens to it in the meantime, the
validation of another line and the accounts of a new partner, only takes
propositions away (`LessKeeps`).

*Why a balance is up to date.* `FreshInv`: a line reads the accounts of a
partner, or lost propositions to the validation of another line
(`need_update`), or its balance is that of its propositions. What rests is
that no step changes propositions or a write-off and leaves the balance
(`Carries`): handlers compute it last, and answers that only change what is
offered leave all three alone. `need_update` is never cleared: no handler is
called for such a line (finding of `reconcile_stale_balance`).

*Why a line keeps to its partner.* `LinesInv`: every line has its type and at
most one write-off and draft; each call is of its type; a fetch under
way is for the partner that its line has; a line offers its partner's items
only; and it proposes its partner's items only, unless a reading of the
partner's accounts is under way. A new partner comes only while no call of the
line is under way, it empties the lists, and the reading of its accounts drops
foreign propositions before the next fetch.

*Why the progress is right.* `ProgressInv` adds that the line of a call to
reconcile is still on the screen, is settled once the server has answered, and has
no second such call. A refusal or a lost answer takes the call away and
nothing else, so a validation that is repeated after it is counted once.

*Only model-checked*: liveness (`EveryJobSettles`), since ENABLED and
fairness are beyond the prover. What the runs of section 4 violate is not
provable. Induction over data is out of reach of the library's
theorems, which take an operator; the sums, the only recursion the models
use, are proved by smallest counterexamples instead. No RECURSIVE operator is used.

## 6. What is not modelled, and the plan

Next, in this order:

1. **Proofs**: the hypothesis `WholeOrders` replaced by the creation of orders (5).
2. **Channels within the queue**: `QueueJob`'s channel shown to be an
   abstraction of `Channels` (a refinement mapping from places to `belief`),
   and `PriorityQueue`'s lazy heap shown to implement an ordered set.
3. **JobIdentity**: `identity_key` under concurrent business transactions.
4. **YardSlots** and **TruckReservation**: check-then-write on slots and drivers;
   **CreditLimit**: the open amount of a partner under two sends.
5. The creation of orders with their goods in `ShippingOrders`.

Not modelled within the modelled components: what each *Abstractions*
paragraph of section 2 lists.

Not planned: user interface, reports, dashboards, e-invoicing, translations,
payroll rules and the other products of the repository (reasons per component in
`PROJECT.json`). Most of the repository's JavaScript is of this kind: about
82,000 of its 112,000 lines are copies of libraries (`vis-timeline`, `zxing`,
`gridstack`, `spectrum`), and most of the rest are dashboards. The program's own
logic is in Python, and of the JavaScript only the reconciliation screen has a
protocol worth a model.

## 7. Running it

    tlc -config queue_rerun.cfg MCQueueJob        # likewise the other runs
    tlapm Channels_proofs.tla
