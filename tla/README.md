# mcm-job-engine: a TLA+ model and its proofs

`mcm-job-engine` runs the integration work of a restaurant platform (order and
payment injection into a POS, periodic pulls from it, messages, printing,
billing) as jobs in Postgres.  This directory models that engine: TLA+ modules
translated from the source, TLC runs that check them on small instances, and
TLAPS proofs of what matters most for every instance.

* [The system](#the-system): components, state, operations, what is hard
* [Modules](#modules): what models what
* [Runs](#runs): what is checked, bounds, fairness
* [Proofs](#proofs): what is proved, from what, and how
* [Findings](#findings): where a doc or comment and the code disagree
* [Not modelled](#not-modelled) and [plan](#plan)

## The system

### Components and the state they keep

| Component | Code | State | Operations |
|---|---|---|---|
| Queue functions | `migrations/002`, `015`, `038` | `integration_jobs` (status, `locked_by`, `locked_until`, `scheduled_for`, `context`), `job_steps` (status, `attempt_count`, `output`), `dead_letter_jobs` | `enqueue_job`, `claim_next_job`, `heartbeat_job`, `complete_step`, `fail_step`, `release_job_lock`, `recover_stuck_jobs` (every minute, `003`), `retry_dead_letter_job`, `bulk_retry_dead_letters`, `requeue_job` |
| Executor | `core/executor.ts`, `claim.ts`, `heartbeat.ts`, `backoff.ts` | per execution, in memory: the steps as read once, the current step, the context fetched for it, the heartbeat interval | `executeJob`, `executeStep`, `failStep`, the heartbeat |
| Worker loop | `index.ts`, `lib/pg-listener.ts` | `activeJobs`, `running`, `immediatePoll`, the LISTEN connection | poll, wake up, start a job, drain and stop |
| Circuit breaker | `core/circuit-breaker.ts` | per process and (integration, queue): closed/open/half_open, recent failures, times | `checkCircuit`, `recordSuccess`, `recordFailure` |
| Concurrency limits | `claim_next_job`, `005`, `023`, `026`, `037` | `integration_concurrency_limits` | counted in the claim |
| Sync schedules | `017`, `022`, `028`, `031`–`033` | `sync_schedules` (status, `next_run_at`, `last_cursor`, `consecutive_failures`) | `claim_due_schedules`, `trigger_sync_now`, `ensure_sync_schedules`, `complete_sync_schedule`, `fail_sync_schedule` (trigger on dead letter), `retry_transient_dead_letters` (every 5 minutes) |
| Scheduler leadership | `scheduler/index.ts`, `leader-lock.ts` | one advisory lock, a pool of one connection | acquire, lose, release |
| Alerts | `034`, `observability/alerts/*` | `alerts_outbox`, `alert_send_log` | `enqueue_alert` (dedupe, cool-down), the dispatcher, the quotas by key, site and lane |
| Omnivore injection | `handlers/omnivore/inject/*` | markers in the job context, `pos_id` and `pos_injection_error` of orders, the applied marker of payments, `order_notes` | `order_injection` (create order, add items, create payment) and `payment_injection`, each idempotent over retries |
| Clover payments | `handlers/clover/inject/payment.ts`, `shared.ts`, `handlers/clover/sync/*payment*.ts`, `008`, `016` | `payments` (`pos_id`, status, `total_refunded`), `clover_payment_map`, `orders` (`paid`, `issues`), the cursor, Clover's own payments | inject a payment MCM made, pull the payments Clover has, reflect voids and refunds, clear the warning of an order |
| Clover order injection | `handlers/clover/inject/*`, `018` | `clover_ticket_id`, the hash pushed last, the supplement manifest of an order | create, reconcile lines, supplement a paid order |
| Pull syncs | `handlers/*/sync/*` | orders, payments, tables, employees, catalogue rows, each with what people changed by hand | fetch, look up, merge, write; archive what is gone |
| Subscriptions | `handlers/subs/*` | plans, periods, assets, stored cards, invoices | apply a payment, harvest a card, charge an invoice |
| Auto-settle | `handlers/auto-settle` | `last_try_at`, `attempt_count`, `last_error` of a terminal's batch | the push beside the terminal's own pull |
| Connections | `lib/credentials.ts`, `handlers/omnivore/connections.ts`, `inject/connection.ts` | `site_integrations`, a cache of a minute, the seal in a job | pick, inherit, seal, schedule the stock |
| Dispatchers | `handlers/{delivery,printing,store,twilio,sendgrid}` | – | one outbound call each |
| Logging, telemetry, views | `lib/*`, `observability/*`, `004`, `006` | – | output |

### How they interact

Everything meets in Postgres.  A producer (an edge function, the scheduler, a
handler) calls `enqueue_job`; a trigger notifies the worker processes of that
queue; a worker process claims a job, which locks the row for `lockSeconds`,
and executes its steps in order, calling `complete_step` or `fail_step` after
each; a heartbeat extends the lock meanwhile.  pg_cron gives the rows whose lock
has expired back to the queue.  A dead-lettered job writes `dead_letter_jobs`,
whose trigger enqueues an alert; for a sync job another trigger counts a failure
of its schedule.  Operators, and a cron job for transient errors, put dead jobs
back.  A SQL function is one transaction under READ COMMITTED; an execution is a
sequence of awaited calls and can be interrupted, delayed or killed between any
two of them; no call of the executor carries a fencing token.

### What is hard, and what makes each component correct

* **Executions against recovery.**  The lock is time-based.  An execution whose
  heartbeats do not get through is still running when the job is handed to
  another one, and its late calls name the step or the job by id only.
  Correct: one execution per job while locks are not overrun, at most one more
  per overrun, no job that has ended is reopened by a late call.
* **State read once and used later.**  Statuses and attempt counts come from a
  snapshot; the context is re-read before each step.  Correct: attempts stay
  bounded, no completed step runs again, each handler sees all earlier outputs.
* **Calls whose result nobody looks at.**  `complete_step`, `fail_step`, the
  context read and the breaker's put-back all ignore errors.  Correct: nothing
  is lost for ever, each job ends as completed or dead.
* **Check-then-act in SQL.**  `requeue_job`, `retry_dead_letter_job`,
  `claim_next_job`'s limits and `trigger_sync_now` test in one statement and
  change in another, without a row lock.
* **Crashes and retries around an external effect.**  A payment may be posted
  and the answer lost; correct: never charged twice.
* **Two writers of one row.**  A pull reads the POS, looks up the row, merges and
  writes, each a request of its own, while another lane, a push, a fire or a
  person writes the same row; correct: each ticket and item is shown once, totals
  are the sum of their lines, and what people decided by hand stays.
* **Jobs that die half way and start again.**  A push half deleted, plans half
  created, a sweep between its tables; correct: the next attempt ends where one
  undisturbed attempt would.
* **Things that must eventually happen.**  A job settles, a failing schedule
  keeps running.

`PROJECT.json` lists each hazard at its line, with the properties that watch it.

## Modules

| Module | Models |
|---|---|
| `JobEngine` | the queue functions, the executor, operators' requeues, crashes and lost calls |
| `JobContract` | what the engine promises of a job, without workers, locks and attempts; `JobEngine` refines it |
| `MCJobEngine` | instances of `JobEngine` for TLC |
| `JobEngine_proofs` | theorems about `JobEngine`, checked by TLAPS |
| `SyncSchedule` | one sync schedule, its two producers, its switch and its runs |
| `MCSyncSchedule` | instances of `SyncSchedule` for TLC |
| `SyncSchedule_proofs` | theorems about `SyncSchedule` |
| `CloverPayments` | payments between MCM and Clover in both directions, on the tables both handlers share |
| `MCCloverPayments` | instances of `CloverPayments` for TLC |
| `CloverPayments_proofs` | theorems about `CloverPayments` |
| `OmnivoreOrder` | `order_injection`: an order becomes a ticket with items and a payment |
| `OmnivoreTender` | `payment_injection`: a payment becomes a tender of a ticket |
| `CloverOrder` | pushes and supplements of one order to Clover |
| `Injections_proofs` | theorems about `OmnivoreOrder` and `CloverOrder` |
| `OmnivorePull`, `CloverPull` | the two lanes that pull orders, beside fires, pushes and edits |
| `CloverCatalog` | sweeps of products, modifiers, categories or tables of Clover |
| `MCCloverCatalog` | an instance of `CloverCatalog` for TLC |
| `MCCloverPull` | an instance of `CloverPull` for TLC |
| `OmnivoreCatalog` | products, price levels and stock by location of Omnivore |
| `OmnivoreModifiers` | modifier groups, their ranges and their links |
| `Roster`, `RosterMulti` | staff of one location, of either POS, and of several |
| `Subscriptions` | `subs.apply_payment` for two orders of one customer |
| `Alerts` | the outbox, its dispatchers and their quotas |
| `Workers` | claim loops, drain, concurrency limits, circuit breaker |
| `Workers_proofs` | theorems about `Workers` |
| `AutoSettle` | the push that settles terminals, beside their pull |
| `Connections` | which Omnivore a job of a business talks to |
| `Sites_proofs` | theorems about what differs from site to site: `Roster`, `CloverCatalog`, `Connections` |
| `Upkeep_proofs` | theorems about `OmnivoreTender`, `OmnivoreCatalog`, `OmnivoreModifiers`, `RosterMulti`, `AutoSettle`, `Subscriptions`, `Alerts` |
| `MCHandlers` | the instances of all of these, as a disjoint union, and the properties of their run |
| `Handlers_proofs` | theorems about that union, from those about the components |

### JobEngine

State.  `jobStatus`, `lockedBy`, `due` and `context` are the columns of
`integration_jobs`; `lockLive` says whether `locked_until` is set and still in
the future, and `due` whether `scheduled_for` has passed, so there is no clock:
time is the actions `BecomeDue`, `LockExpires` and `LockOverrun`.  `stepStatus`
and `attempts` are `job_steps`; `openDL` counts the unresolved
`dead_letter_jobs` rows.  `context` is the set of steps whose output it holds:
which outputs are present is all the properties ask.  An execution of
`executeJob` lives in a *slot* of a worker process; `pc`, `sjob`, `idx`,
`snapDone`, `snapAttempts`, `seen` and `beating` are its local variables.
`opJob`/`opFull` are the locals of a requeue between its check and its updates.
`returned`, `faults` and `requeues` are history, for properties and bounds.

Actions.  A SQL function is one action (`Enqueue`, `RecoverStuckJobs`,
`Heartbeat`, ...), except `requeue_job` and `retry_dead_letter_job`, whose test
and updates are separate statements and hence two.  `executeJob` is cut at its
awaits: `Claim`, `BreakerBlocks`, `ReadSteps`, `ReadStepsFails`,
`SkipCompleted`, `StartStep` (the context read, then the handler starts),
`HandlerReturns`/`HandlerThrows`, `CompleteStep`, `FailStep`, `MissingHandler`,
`Finish`.  `SaveMarker` is the one thing a handler does to a job's own row:
`markStepPostAttempted` writes back the context it was given.

Every call whose error the code ignores takes a Boolean, `applied`: it reached
the database, or it did not and counts as a fault.  `MaxFaults` bounds each kind
of fault separately:

| Fault | In the code |
|---|---|
| `overrun` | no heartbeat of a live execution gets through for `lockSeconds` |
| `crash` | a process dies; its slots restart empty |
| `lostComplete` | `complete_step` fails (executor.ts:137) |
| `lostCall` | the claim's reply, `fail_step`, the step read, the breaker's update or `release_job_lock` fails |
| `blindRead` | the context read fails and the handler gets `{}` (executor.ts:100-106) |

`Registered` lets a process lack a handler, as during a rolling deployment.
The order in which claimable jobs are picked (priority, limits, site allow-list)
is left open: `Claim` may take any claimable job, so what is shown holds for
every order.  The statuses `failed` and `cancelled` are never set by the engine.

### JobContract

`Submit`, `Progress` (the next step in order, each once, the last one
completes), `GiveUp`, `Resume` (a dead job continues where it stopped) and
`Restart` (an ended job from its first step).  `JobEngine` implements it under
the mapping `phaseBar`, `doneBar` as long as no lock is overrun and no
`complete_step` is lost: crashes, other lost calls, blind reads and requeues are
all masked.

### SyncSchedule

One row of `sync_schedules` and the `pos_sync` jobs made from it.  Time is
counted in ticks of `interval_seconds`: `nextIn` is the distance to
`next_run_at`, and `bucketJob` is the job that holds the idempotency key of the
current tick, so that a schedule made due again within a tick meets a key that
is taken, as in the code.  `cursor` is `last_cursor` (0 for null), `failures` is
`consecutive_failures`, saturating at the threshold since larger values are
treated alike.  A run goes through `queued`, `running`, `fetched`, `reported`;
its `input` is the cursor in its payload, its `result` what it will report.
What `JobEngine` says about execution enters as `Recover` (a crash brings a run
back) and `Revive` (an ended job is put back, by hand or by
`retry_transient_dead_letters`).  A slot of an ended job may be used for a new
job: that job is one nobody asks for again.

`claim_due_schedules` locks its schedule row, so `ClaimDue` is one action;
`trigger_sync_now` locks nothing, so its gate (`TriggerCheck`) and its insert
(`TriggerEnqueue`) are two.  `paused` is left out: no code sets it.

### CloverPayments

One site.  `mod`, `fate` and `amount` are Clover's payments: `modifiedTime` (0:
there is none), what became of it, and what was posted.  `posId`, `rowStatus`,
`rowRefunded` and `pulled` are the table `payments`, where a row is an MCM
payment or is named by the Clover payment a pull made it from; `map` is
`clover_payment_map`; `paid` holds the payments summed in `orders.paid`, so that
a sum is a set and no amount is added up; `issues` is the payment named in the
order's warning.  `job`, `attempts` and `asked` are the injection's row of
`integration_jobs`, `ex` the executions of the injection, `pull` those of the
pull, with the locals the code keeps: `top` (`maxModifiedTime`), `oldest`
(`oldestDeferred`, 0 for null), the item at hand and the row found for it.
`deferred`, `orphaned` and `failed` are history: what a pull put off, and what it
gave up for want of an order, because of an error or because it was not shown it.

The injection is cut at its awaits: `ReadPayment` (resume guard),
`ReadOrderInClover` (the search for our own anchor), `PostPayment`, `WritePosId`,
`WriteMapRow`, `CountSiblings` and `ClearIssue` (the two statements of
`reconcileCloverOrderIssues`), `EndInjection`.  `Throw` and `Return` are what
the handler's result makes of the job; how jobs are claimed, retried and
recovered is `JobEngine`'s matter, and enters as `Start`, `Crash` and `Revive`.
Two executions of one job are possible only as the fault `overrun`.  The pull is
cut likewise, at every statement of `upsertCloverPayments`; a pull that dies
runs again with the cursor of its payload.  Clover itself is external: a POST
makes one more payment whatever there is (it ignores idempotency keys), may land
while its answer is lost, or after its client gave up (`LandLate`); a row is
visible at most `Lag` after its stamp; a void or refund stamps it anew.

| Fault | In the code |
|---|---|
| `crash` | the process of an injection or of a pull dies |
| `overrun` | a second execution of a job whose lock ran out |
| `late` | a POST takes effect after its client timed out |
| `failure` | a request of the injection fails, with or without effect |
| `blind` | a statement of the pull fails, and the code goes on without looking |
| `shifted` | the pages of the feed, read by offset, shift under the pull and it misses a row (payment-mapper.ts:9-24; a row met twice finds its map entry) |

### The injections

`OmnivoreOrder` has one order, two possible tickets and one payment, which may
be split.  `pos` is Omnivore, `sky` the requests whose client gave up and that
may still take effect, `order` the columns the staff look at, `job` the row and
steps of `integration_jobs` with the markers in its context, `ex` the locals of
the execution.  Each request is an action with every outcome: refused,
accepted, accepted with its answer lost, given up.  What the POS answers
(balance, count of items, search by order number) is computed from `pos`, so a decision of the code is right or wrong against what the POS really has.
Whether a retry may look for its ticket is in the payload (`search`): never when
the name does not identify the order (create-order.ts:52), always in a forced
resend.  The staff may close a ticket, cancel the order or resolve it by hand at any
time.  `OmnivoreTender` is the later, single payment: its resume guard, the
balance it is cut to, a POS that takes the tender and fails to close the ticket,
a waiter who has the ticket open, a fire under way that delays it, and the note
for every cent not tendered.

`CloverOrder` has pushes of successive versions of one order, a bag of lines
each, and the supplements those pushes enqueue once the order is paid.  An entry
of the manifest is a signature and, later, a Clover order.  The incremental
reconciliation is one delete or one bulk insert at a time, and an attempt may die
between any two; a bulk insert takes `BulkMax` lines, whichever they are, as a bag
has no order.  What a supplement bills is in `BillWith`: charges by what they grew,
or, when the read that names them fails, by count like the rest, always up to what
is owed.

### The pulls

In `OmnivorePull` and `CloverPull` one ticket is pulled by two lanes.  A lane
holds its snapshot and the row it looked up, in `lane`; the snapshot may be any
age when it is written.  Meanwhile waiters type and send lines, terminals add,
void and close, and a send-to-kitchen (external, in the edge functions) marks a
line, rings items up and stamps them, or dies after any of these.  The merge
rules (`merge-managed-order.ts`, `managed-merge.ts`) are operators on rows.  An
order MCM opened in Clover begins between its POST and the write of its id
(`SavesTicket`, which may never come, as a failed write is only logged); a look for
the row to adopt may fail unseen (`unseen`, in Omnivore's); either ends in a second
row, of which the model keeps that it is there.  A line of Clover has its price (of
its signature), its quantity and its own total; the terminal may change the price
(`TerminalReprices`).

In `CloverCatalog` the sweep of one table reads Clover, reads the rows and
writes each difference: insert or adopt, update, archive with the shrink guard.
One module serves the four tables, which differ in the columns they keep, as
`Table` says.  The look for open orders before tables are hidden may fail, and then
counts as none (`unseen`).  Edits in MCM and in Clover happen between any two steps; `kept` is
the name somebody typed and expects to find.  `OmnivoreCatalog` adds the price
levels, the default somebody picked and the stock rows by location, `OmnivoreModifiers`
the groups, one row for each range products ask for, and the prune of links.
`Roster` is one pull of the staff with the rows it read, its markers of absence
and its guard; `RosterMulti` the merge by PIN over locations of which some do
not answer.

### The other handlers

`Subscriptions` follows `apply-payment.ts` statement by statement for two orders
of one customer, which share the default card.  An attempt may find the order's
owner or not (`guest`), and the card goes on the plans of the units in `Automatic`
(`collection = 'auto'`) only.  `Alerts` keeps in the log the
mails of the hour, each a key and a number.  In `Workers` a claim is two steps, the
snapshot with its counts and the update, as a statement under READ COMMITTED is;
a process is up, draining, stopped or crashed, and its breaker has the failures
of the window.  `AutoSettle` has the claim that the push and the heartbeat's pull
share; the push may not hear of its own (`unheard`).  `Connections` has the business's row and one for each location, the
cache, jobs that read it and the sync that keeps the stock schedule.

### Faults

Every module of these takes `Faults`, the number of mishaps of one behaviour in
all, of the kinds its `Kinds` lists and `used` counts: crashes, lost answers,
requests that land late, refused statements whose error the code drops, people
who act in the window of a read and a write.  A property whose statement leaves
a case out says so by `Happens` of that kind, in its comment and its formula.

### MCHandlers

The components above do not interact in the code but through rows which each
module already contains.  Their instances are checked in one run, as a disjoint
union: `which` names the instance, chosen by `Init`; `x1`, `x2`, ... hold its
variables, and the slots it does not need stay 0.  A component that has theorems
is instantiated from the module that proves them, so that `Handlers_proofs` can
cite the theorems of the very instance that the run checks.  Those modules are
instantiated in settings, each a choice of values for all their components:
`Injection1` and `Injection2` an order with one payment or two and pushes of two
versions or three; `Site1` to `Site4` the table swept, the POS of the roster, the
locations and the jobs; `Upkeep` everything of which one setting is enough.  The
properties of the run are conjunctions over the instances that ask one question
of several handlers, such as `HandWorkStays`.

## Runs

| Run | Shows | Instance |
|---|---|---|
| `faults` | the lock, step order, outputs, attempts, ledger and finality survive every interleaving | one job of two steps; two executions in one process and one in another that lacks the handler of step 2; breaker on; one crash, one lost complete, one lost call, one blind read, one overrun, at which a behaviour ends (`CONSTRAINT NoOverrun`: all of these properties are conditional on it, and `handlers` follows what comes after); one requeue |
| `fair` | every job settles; the fair contract is implemented | one job of two steps, two processes, one crash, lost call and blind read, one requeue |
| `zombie` (violation) | one overrun can leave a job neither completed nor dead, for ever | as `fair`, one overrun |
| `lostcomplete` (violation) | a lost `complete_step` lets a job complete without one of its steps | one lost complete |
| `requeuerace` (violation) | two concurrent requeues reset a job under its running execution | two operators |
| `sync` | cursor, gate and status of a schedule survive overlapping, recovered and revived runs; it recovers from any number of failures | two job slots, one trigger, one revival, one fault, threshold 2, attenuation 2, cursors up to 2 |
| `inject` | an MCM payment is charged once and recorded once, and the warning of its order goes only when it should | two payments of one order, two executions, one pull, one fault of any kind, one requeue (with either amount), two attempts, two POSTs of a payment |
| `pull` | nothing falls behind the cursor unrecorded; what is recorded is counted | two staff payments of one order that appears late, one void or refund, one pull at a time, five ticks, overlap and lag 1, protection 3, one fault of any kind, pages that shift included |
| `mislink` (violation) | an injection completes although its payment was never charged | as `inject`, without faults |
| `handlers` | what the table below lists | twenty-six instances, see `MCHandlers` |
| `backinstock` (violation) | a modifier that is available again stays sold out | one modifier, one product, one sweep at a time |
| `hiddenline` (violation) | an item added at the terminal is put on a line that was voided there | one signature, three items, one lane, one fault |

What `handlers` checks:

| Property | Shows | Instances |
|---|---|---|
| `ConcurrencyIsBounded` | an overrun adds one execution of a job and no more; limits are passed by no more than the claims under way; a failing POS is left alone | an engine with one overrun; two processes, three jobs, two limits of one; a breaker of threshold two with three failures |
| `NoJobAbandoned` | a process that drained leaves no job running in its name | the two instances of `Workers` |
| `NothingTwice` | one ticket unless its name is not looked for, its items once, one payment once | two tickets, two items, one payment or two, two attempts, two faults, a search never, on a retry or always |
| `SilentMeansSettled` | what shows no warning is whole and settled | the same |
| `TenderedOnce`, `DifferenceIsNoted` | one tender for each payment, and a note for what was cut | payments of 3 and 2 of a ticket of 3, one line not fired, one attempt and a requeue, three faults |
| `LinesConverge`, `NeverOverbilled` | Clover ends with the lines of the last push, and bills no more than the order was worth | two versions with two faults; three versions with one |
| `ShownOnce`, `OrderedStays` | a ticket has one row, unless a read or a saved id was missing when a pull looked; an item has one line; nothing that is on the ticket is voided | two lanes, one dish, two items; for Clover also one lane and two dishes of different prices |
| `TotalIsItsLines` | the total of a Clover order is what its lines come to, price by quantity, unless the terminal changed a price or emptied the order, or `hiddenline` happened to it | two lanes, a line of MCM, two items of Clover; one lane, two dishes, two items |
| `CatalogIsShown` | after an undisturbed sweep MCM sells what the POS sells; a table in use is on the plan, unless the look for its orders failed or came too early | two products; a product with a modifier or a category; two tables; two groups; a stock schedule |
| `HandWorkStays` | names, default levels, sold-out marks, suspensions, admins, attachments and corrected keys outlive every sync; a sealed order stays at one Aloha | the same, and both rosters, the menu and the connections; a sealed job of two locations |
| `RosterMirrored` | nobody who left keeps a PIN, nobody loses a location that did not answer, a PIN shared with somebody unlike its first holder makes no manager | two people, three PINs; two locations, one PIN, three people of whom two pass for each other |
| `PaidInFull`, `CardReachesEveryPlan` | each unit paid for is one plan; the card that paid is on those collected automatically and on no other | two orders, two units of which one is collected by hand, two attempts, two faults |
| `TurnsAreKept` | incidents do not silence each other; a failed push gives its turn back; no overdue terminal looks fine | three keys, one dispatcher, quotas of one and two; one terminal |
| `TypeOK` | types of all; no job has more attempts than it may | all |

**Bounds and why they are enough.**  Jobs do not interact in `JobEngine`
(`RecoverStuckJobs` treats each row alike, and a slot has one job), so one job
suffices; the proofs cover any number.  Two steps tell a middle step from the
last one.  Three slots in two processes give both kinds of rival: another
process, and another execution of the same process, which shares `WORKER_ID`
and hence the lock's identity.  `MaxAttempts = 2` and `BackoffLen = 1` separate
the two limits on retries.  One fault of each kind covers each fault's
combinations with one of every other kind.  Symmetry (the two slots of one
process) is used in safety runs only.  For a schedule, two job slots give two
overlapping runs, two cursor values an old and a new watermark, a threshold of
two a failure that does not reach it, an attenuation of two a cadence that
differs from the interval's.  Payments of different orders meet only in the cursor, so `CloverPayments` has one
order; two payments on it give a sibling for every question the code asks of the
order.  Two payments in the feed give one that carries the cursor past the
other, five ticks a deferral that is still protected and one that no longer is,
an overlap equal to the lag the tightest overlap the code may rely on.  In
`inject` time stands still, as nothing in the injection looks at it.  Executions
and the payments of a kind are interchangeable, which symmetry uses.
In `handlers` the instances are as small as their
question allows: two lanes, two attempts, two products or two people are the
least that meet, and `Faults` is two wherever a mistake needs a first fault to get
into the unusual state and a second to be caught there.  It is three for the tables,
where one goes from Clover, is seated and is not seen; for the rosters, where a rotated PIN, a missing answer and a hand that writes may meet,
and for the tender, which has two payments of one ticket; it is one in the order
pulls and in the pushes of three versions, where two lanes and the terminal,
or three jobs, are already free to interleave without any fault.  Caps (`MaxItems`, `MaxLines`, `MaxRows`, `MaxCount`) bound what the
terminal and the waiter may add.  Deadlock is not checked because a system
whose jobs have all ended really has nothing to do.

**Fairness.**  `FairSpec` assumes: time passes and pg_cron runs (WF on
`BecomeDue`, `LockExpires`, `RecoverStuckJobs`), a transaction that began
commits (WF on `Requeue`), an execution goes on and its handler returns or
throws (WF on `SlotStep`; every outbound call has a timeout), and a job that is
claimable again and again is claimed at last (SF on `Claim`: workers poll for
ever, and among finitely many jobs `order by priority desc, scheduled_for asc`
reaches each one; an endless stream of higher-priority jobs can starve a job,
which this assumption leaves out).  For a schedule: time passes, some replica
leads and runs its loop (WF on `Tick`, `ClaimDue`), queued runs are executed (WF
on `RunStep`, which is what `EveryJobSettles` says of a job).  Nothing obliges
the POS to come back: `SyncRecovers` assumes it of the behaviours it speaks of.
Nobody is obliged to enqueue, requeue,
crash, lose a call or overrun a lock.  `CloverPayments` and the modules of
`handlers` state safety only, and assume no fairness.

**Mutants.**  The "Wrong variants" in each module are plausible mistakes in the
code, for `SyncSchedule` and `CloverPayments` mostly the code as it was before a
migration or a fix its comments name (recovering unexpired locks, an off-by-one in the last-step test, a stale
context, `||` of the output over the context, one attempt too many, adopting only
lines that were sent, recreating all lines, a guard by person instead of by PIN,
one quota for all alerts, ...); each
property of a passing run is violated when one of them takes the place of the
definition it imitates.

## Proofs

`JobEngine_proofs` proves, for any finite or infinite sets of jobs, slots,
workers and operators, any number of steps and attempts, and any fault budgets:

| Theorem | Statement |
|---|---|
| `TypeCorrect` | `Spec => []TypeOK` |
| `LockProtects` | `Spec => []ExclusiveExecution` |
| `EndedStaysEnded` | `Spec => TerminalIsFinal` |
| `AttemptLimit` | `Spec => []AttemptsBounded` |
| `LedgerAgrees` | `Spec => []DeadLetterLedger` |
| `WholeCompletion` | `Spec => []CompletedMeansEveryStep` |
| `EngineImplementsContract` | `Spec => ImplementsContract`, given no budget for `overrun` and `lostComplete` |
| `OutputsStay` | `Spec => []OutputsKept` |
| `OutputsAreSeen` | `Spec => []PreviousOutputsVisible` |
| `SuccessIsNotRepeated` | `Spec => NoRepeatedSuccess` |
| `OverlapIsBounded` | `Spec => []BoundedOverlap`, given finitely many slots |

All but `TypeCorrect` assume `SingleOperator`: at most one requeue is between
its check and its updates at a time.  The run `requeuerace` shows the assumption
is needed.  The properties but `BoundedOverlap` are conditional on `NoOverrun` (and some on
no lost completion); `zombie` and `lostcomplete` show why.

The argument is a chain of inductive invariants, each proved with the one
before it as a lemma:

1. `TypeInv`: `TypeOK`, and the shape of a slot (an idle slot has no job, a busy
   one has; `idx` is a step unless the loop is over).  Holds unconditionally.
2. `LockInv`: under `NoOverrun`, an execution at work holds the lock of a
   running job and is alone (`Held`, `Alone`), and an operator between check and
   updates has a job that is still ended (`OperatorsWait`).  `ExclusiveExecution`
   is not inductive alone: a requeue pending on a job that has been claimed
   since would break it, which is what `OperatorsWait` excludes.
3. `StepInv`: an execution's snapshot agrees with the rows for the steps it has
   not reached (`SnapshotCurrent`), attempts remain for a step that is going to
   run (`AttemptsLeft`), the ledger matches (`LedgerRight`), and completed steps
   form a prefix the executions have not overtaken (`StepsInOrder`,
   `NoneSkipped`).
4. `JobInv`: adds that a pending full reset is remembered rightly (`FullRight`),
   which the refinement needs to tell `Resume` from `Restart`.
5. `OutputInv`: while no lock was overrun and no read blind, the context has the output of each
   completed step (`OutputsIn`), and so has the copy a handler was given, of its
   job as it is now (`SeenCurrent`): this is why the marker, which writes that
   copy back over the whole column, loses nothing.
6. `ReturnInv`: without overrun, crash or lost `complete_step`, a step whose
   handler returned is completed, or its execution is between the return and
   `complete_step` (`ReturnedKnown`).
7. `OverlapInv` rests on the types alone: it holds with overruns, crashes and lost
   calls.  A lock that is live allows one execution that no overrun accounts for,
   and none once its process has left the job (a crash, a reply that was lost);
   otherwise the executions are no more than the overruns.  A requeue that is
   pending on a job reopened meanwhile counts as an execution, since its update will let
   one in (`LoadBounded`).

`SyncSchedule_proofs` proves, for any threshold, attenuation, feed and any
numbers of runs, callers and faults: `TypeCorrect`, `Monotone`
(`CursorNeverRegresses`), `Earned` (`FailingIsEarned`), `SuccessIsNoSwitch`
(`SuccessKeepsDisabled`) and `GateHolds` (`OneRunAtATime`).  `SuccessKeepsDisabled` is only proved, no run checks
it.  The first four rest on `RowStep`, which says that only the switch, a report and a dead letter touch
the row.  `OneRunAtATime` is not inductive: a trigger that has passed the gate
is a run to come.  `GateInv` counts the open calls with the active runs and
bounds them by the triggers; cardinalities come from the library's theorems on
finite sets.

`CloverPayments_proofs` proves, for any payments, orders, executions, pulls,
overlap, lag, protection, attempts and budgets:

| Theorem | Statement | Assumes |
|---|---|---|
| `TypeCorrect` | `Spec => []TypeOK` | |
| `OneCharge` | `Spec => []ChargedOnce` | |
| `IssueGoesWhenApplied` | `Spec => ClearedWhenApplied` | |
| `NoneSkipped` | `Spec => []NothingSkipped` | `Corrupt = {}`: no stamp lies in the future |
| `NeverRecordedTwice` | `Spec => []NeverTwice` | finitely many MCM payments |
| `RecordedIsPaid` | `Spec => []PaidAddsUp` | a finite set of pulls |

* `TypeInv` adds to `TypeOK` the shape of an execution (at work it has a job,
  after the POST a charge of it) and of a pull (an item and a row where its
  steps use them).
* `OneCharge`: while nothing is overrun or late, no POST is on its way, the
  executions at work have different jobs, and one about to POST knows that
  Clover has no charge of its payment (`Checked`).  `ChargedOnce` alone is not
  inductive: the POST that breaks it is decided on one step earlier.
* `IssueGoesWhenApplied`: a completed injection has its `pos_id`
  (`AppliedInv`), no step takes one away (`AppliedStays`), and an execution that
  counted no pending sibling has thus seen all of them applied.
* `NoneSkipped`: each pull, wherever it is, has for each payment Clover had when
  it read the feed a place: settled, still to do, at hand, deferred under
  `oldest`, or stamped so late that the cursor it will report does not pass it
  (`Covered`).  A watermark has nothing unsettled behind it (`Begun`) because
  it was the cursor.  New stamps are no older than `Overlap`, so
  they fall behind neither.  The first pull is assumed to come within
  `Lookback` of the first payment (`TimesAssumption`).

* `NeverRecordedTwice`: a `pos_id` is a POST in Clover for the payment's own order,
  and no two payments have the same (`LinkInv`).  A pull about to record a POST of MCM as new
  has found every payment of its order linked (`Exhausted`).  But each payment
  was charged once (`OneCharge`), so by counting the order has no more POSTs than payments:
  when every payment is linked so is every POST (`EveryPostIsLinked`, hence the
  finite set), and the pull would have found the row.
* `RecordedIsPaid`: a completed row the pull inserted is in its order's sum, or
  the pull is on its way to add it (`Awaited`), with a sum that has it
  (`SumComplete`).

`Workers_proofs` proves, for any processes, jobs, limits, slots, threshold and
any numbers of failures and faults:

| Theorem | Statement | Assumes |
|---|---|---|
| `WellTyped` | `Spec => []TypeInv` | |
| `DrainLeavesNothing` | `Spec => []NoJobAbandoned` | |
| `LimitPassedByClaimsOnly` | `Spec => []LimitsHold` | `Countable`: finite processes and jobs, limits that are numbers |
| `ClosedBreakerIsQuiet` | `Spec => []ClosedIsQuiet` | a threshold of at least 1 |

* `DrainLeavesNothing`: who answers for a running job.  An answer to a claim or
  an execution that has still to report owns its job and is alone (`Held`), a
  running job is left behind or its owner answers for it (`Answered`), and a
  process that is gone has nothing under way (`Gone`).
* `LimitPassedByClaimsOnly`: a job beyond the limit can only be taken by a claim
  whose snapshot was older, so once the limit is reached the running jobs and the
  stale claims together stay below the limit plus the processes (`Bounded`): the
  claim that adds a job is a stale one that ends, and a snapshot taken at the
  limit is not stale.
* `ClosedBreakerIsQuiet`: each of a test, a success, a failure and the passing of
  time keeps it (`Quiet`).

### Injections

`Injections_proofs` proves:

| Theorem | Statement | Assumes |
|---|---|---|
| `OrdersTyped` | `Spec => []TypeOK` | `Payload` |
| `OrderNothingTwice` | `Spec => []NothingTwice` | `Payload` |
| `OrderSilentMeansSettled` | `Spec => []SilentMeansSettled` | `Payload` |
| `PushesAreInv` | `Clover!Spec => []PushesInv` | `PushesGiven` |
| `PushOneOrderEach` | `Clover!Spec => []Clover!OneOrderEach` | `PushesGiven` |
| `PushLinesConverge` | `Clover!Spec => []Clover!LinesConverge` | `PushesGiven` |

The first three are about `OmnivoreOrder`, for any set of tickets, number of items,
list of payments and number of attempts and mishaps.  `Payload` says that these
are numbers, there is at least one attempt, and no ticket is one of the labels a
step leaves instead of a ticket.  `OrderInv` has five parts.  `Typed`; `Control`: which step each place belongs
to, which outputs are there by then, and that the context an execution was
handed is the job's or, after a failed read, none; `OneTicket`: where the ticket is looked for, the mark in the context precedes the first
attempt to open, so that an open ticket implies the mark and an execution that
found no mark faces no ticket; `Once`: items and the single payment are posted
only where the POS was seen to lack them; `Settled`: items said to be done are
on the ticket, a skip after the ticket is open is shown, and a job that ends
without a mark on the order left nothing due.  The last three are conditional on
what their properties leave out, and only `Settled` needs another of them (`Once`).

The others are about `CloverOrder` (`Clover` there), for any set of order ids, any
list of versions, any chunk size, fee, number of jobs and mishaps.  `PushesGiven`: an id and a
reference are told from `None`, `BulkMax` is a number, a version is a bag.
`PushesInv` is built up in seven parts, each resting on those before it:

* `PushesShaped`: the shape of an order, of the row, of a job.
* `PushesControlled`: which places a job of each status and step may be at; pushes are
  numbered without a gap; a hash that was saved is of a push that completed.
* `PushesNamed`: the order a job, the row or the manifest names is of its own
  reference, and a supplement is only claimed, billed and enqueued once that
  order is paid.
* `PushesInTurn`: unless two versions were under way together, a push is not
  queued before the earlier ones have ended.
* `PushesOnce`: unless that happened or a lookup failed, Clover has one order of a
  reference at most, and a job that is about to post one has seen none.
* `PushesBags`: the lines of an order, and what a job has still to delete and to
  add, are bags.
* `PushesFilled`: under the conditions of `LinesConverge`, of the last push on an
  order nobody paid: before the deletes its lines, less what it will delete, plus
  what it will add, are the lines of its version; before the inserts its lines and
  what is left to add; after them its lines alone.

`LinesConverge` speaks only of the end; `PushesFilled` is what an attempt that died
anywhere leaves to the next, which reads the order afresh.  That two bags are equal is shown line by
line (`Copies` counts a line in a bag), which needs no sum; the other jobs leave the order alone, as a
job writes only to an order of its own reference (`Touches`).

### Sites

`Sites_proofs` proves, for any people, elements, locations, executions and mishaps, given that
the model value that stands for an absent row is none of the rows (`RosterNone`, `CatalogNone`, `WiringNone`):

| Theorem | Statement | Invariant |
|---|---|---|
| `NoPinIsOrphan` | `Roster!Spec => []Roster!NoOrphanPin` | `RosterCopied` |
| `SuspendedStaysClosed` | `Roster!Spec => []Roster!SuspendedStays` | `RosterSpared` |
| `TypedNameStays` | `Catalog!Spec => []Catalog!EditsAreKept` | `CatalogNames` |
| `TableInUseIsShown` | `Catalog!Spec => []Catalog!BusyTableShown` | `CatalogSeats` |
| `SweptIsMirrored` | `Catalog!Spec => []Catalog!ProductsMirrored` | `CatalogMirror` |
| `SealedGoesToOneAloha` | `Wiring!Spec => []Wiring!OneAloha` | `WiringSealed` |
| `CorrectedKeyIsUsed` | `Wiring!Spec => []Wiring!FixIsUsed` | `WiringFixed` |
| `StockIsScheduled` | `Wiring!Spec => []Wiring!StockFollowsConnections` | `WiringStock` |

Each invariant also has the types of what it speaks of (`RosterTyped`,
`CatalogTyped` and `CatalogHeld`, `WiringTyped`), and each says the same kind of thing: what a
sync holds from the moment it read, compared with the rows that others go on
writing.

* `Roster`: a pull nobody disturbed has the POS's list, and the open rows outside it are
  those it has left to close.  What it notes on a row it closes is never on an
  open one, hence never on one the owner closed.
* `CloverCatalog`: a typed name stands in the row and in every copy a sweep has of it,
  over another baseline, so that each merge puts it back; nobody sits at a table that
  a sweep which saw the open orders has left to hide; an undisturbed sweep of the products has written as Clover has it each product but
  those left to merge, which are as it read them.
* `Connections`: what a sealed job has resolved is the Aloha of its seal; a key that
  a job reads, now or between its reads, is no older than the one in force when its
  attempt began; an undisturbed sync has read the connections as they are.

### Upkeep

`Upkeep_proofs` proves, for any values of the constants but as said:

| Theorem | Statement | Assumes |
|---|---|---|
| `TendersTyped` | `Tender!Spec => []Tender!TypeOK` | `TenderAmounts`: amounts are numbers |
| `OneTenderEach` | `Tender!Spec => []Tender!TenderedOnce` | the same |
| `ChargedIsAccounted` | `Tender!Spec => []Tender!DifferenceIsNoted` | the same |
| `MarkOfTheStaffStays` | `Menu!Spec => []Menu!ManualStays` | `MenuNone` |
| `PickedLevelStays` | `Menu!Spec => []Menu!ChoiceIsKept` | the same |
| `AttachedByHandStays` | `Options!Spec => []Options!HandAttachedStays` | `OptionsNone` |
| `GroupsAreMirrored` | `Options!Spec => []Options!GroupsMirrored` | the same |
| `NobodyIsLost` | `Rosters!Spec => []Rosters!NobodyLosesALocation` | `RostersNone` |
| `AdminStaysAdmin` | `Rosters!Spec => []Rosters!AdminStays` | the same |
| `SharedPinsAreFair` | `Rosters!Spec => []Rosters!SharedPinIsNoManager` | the same |
| `FailedPushYields` | `Settle!Spec => []Settle!PushYields` | `SettleNone` |
| `StuckTerminalIsVisible` | `Settle!Spec => []Settle!StuckIsVisible` | the same |
| `SubscriptionsTyped` | `Plans!Spec => []Plans!TypeOK` | `MaxAttempts \in Nat` |
| `EveryUnitOnce` | `Plans!Spec => []Plans!PaidInFull` | the same, and an order has units |
| `EveryPlanHasItsCard` | `Plans!Spec => []Plans!CardReachesEveryPlan` | the same |
| `LanesAreApart` | `Outbox!Spec => []Outbox!LanesHold` | `AlertsQuotas`: quotas are numbers; finitely many dispatchers, and at least one |

`MenuNone`, `OptionsNone`, `RostersNone` and `SettleNone` say that `None` is no row,
level or other value; `MenuNone` also that the level MCM makes for a product without one
is not the POS's, `OptionsNone` that Omnivore does not know MCM's own modifier, `SettleNone` that
`OverdueAfter` is a number.

* `OmnivoreTender`: `TenderInv`, while no answer, write or process was lost: what is to be tendered
  and what is to be noted add up to what was charged from the read of the balance on
  (`TenderSplit`), and the marker of a payment says whether the POS has its tender
  (`TenderHonest`), except between the tender and the write of the marker, where its
  execution knows.  A state without a loss had none before it.
* `OmnivoreCatalog`: a level that MCM and the POS both have was in what the sweep
  fetched (`MenuFetched`), so a sweep finds the level picked and sets it again
  (`MenuPicked`).  `ManualStays` is inductive given the types.
* `OmnivoreModifiers`: what was attached by hand is in the row and in the row the
  sweep read (`OptionsKept`).  For the mirror: an undisturbed sweep has read what is
  (`OptionsSeen`), a full one has every modifier its groups need (`OptionsStocked`)
  and, in the groups it has no longer to write, what it read (`OptionsDone`).
* `RosterMulti`: the holders in a row that was read are the row's until the merge
  (`RostersKept`), and so is an admin (`RostersAdmins`).  Nothing is asked of which
  names pass for whose: samePerson compares with the holder in the first location, and
  so does the theorem.  That no two people who differ share a manager's PIN
  (`StrangersShareNoManager`) is more than the code gives.
* `AutoSettle`: the push holds the turn only of the terminal it waits for
  (`SettleTurns`); a terminal that was read overdue has its turn to come or shows
  why not (`SettleShown`).
* `Subscriptions`: `PlansBilledInv` follows the walk over the units: the ones still to do have no plan
  and the others one, whatever earlier attempt made it (`PlansCounted`); the flag that
  decides whether cards are attached is up as soon as one exists; and a plan has
  the card of its own order or none, and none if it is collected by hand (`PlansCarded`).  A line of a subscription counts
  for at least one unit (apply-payment.ts:132); an order without one has no
  plan that its card could reach.
* `Alerts`: the mails of the noisy site in the log and those its dispatchers have
  under way are fewer than its ceiling, the dispatchers and a failed count together
  (`NoisyBounded`): each dispatcher may have counted before the others wrote.  So
  what fills the lane beyond that is other sites' mail.  A row in hand is the least of
  its batch; that a set of numbers has a least one comes from the library's theorem on
  well-founded relations.

### The union

`Handlers_proofs` carries these to the run `handlers`.  A behaviour of `MCHandlers` keeps
`which`, and its slots are a behaviour of that component (`ItsPlans`, `ItsTender`,
`ItsOrder`, ...), so each theorem of a component holds of its instance:

| Theorem | Statement | Assumes |
|---|---|---|
| `RunPaidInFull`, `RunCardReachesEveryPlan` | `Spec => []PaidInFull`, `Spec => []CardReachesEveryPlan` | |
| `RunTenderedOnce`, `RunDifferenceIsNoted` | `Spec => []TenderedOnce`, `Spec => []DifferenceIsNoted` | |
| `RunNothingTwice`, `RunSilentMeansSettled` | `Spec => []NothingTwice`, `Spec => []SilentMeansSettled` | `Labels`: the names of tickets are no labels |
| `RunLinesConverge` | `Spec => []LinesConverge` | `PushNone`: `None` is no id and no reference |
| `RunRosterMirrored`, `RunHandWorkStays`, `RunCatalogIsShown` | `Spec => []RosterMirrored`, `Spec => []HandWorkStays`, `Spec => []CatalogIsShown` | `SitesNone`: what the components ask of `None` |
| `RunTurnsAreKept` | `Spec => []TurnsAreKept` | `SettleNone` of the instance |
| `RunNoJobAbandoned` | `Spec => []NoJobAbandoned` | |
| `RunConcurrencyIsBounded` | `Spec => []ConcurrencyIsBounded` | `None` names no job and no worker |

The assumptions say that constants differ, and hold where these are model values, as in the run.  What
else the components' theorems assume (that the versions are bags, the quotas numbers) is shown there to hold of these instances.

### Only model-checked

* `NeverOverbilled` and `TotalIsItsLines` compare sums of amounts over bags of lines,
  and `ShownOnce` and `OrderedStays` speak of rows made by folds over sequences of lines.
  What such a definition computes is an induction over data, which these provers
  cannot do: they know nothing of a fold but its name.
* `TypeOK` of `handlers` as a whole: it has the types of the two pulls, which are
  sequences and bags built by the same folds, and those of `CloverOrder`, whose
  totals are such sums.  The types a proof needs are in the invariants above.
* Everything under fairness (`EveryJobSettles`, `ImplementsFairContract`,
  `SyncRecovers`), which is beyond TLAPS 1.4.5.

## Findings

1. **A job that never ends** (`zombie`).  `README.md:5` of the engine: a job
   "moves to a dead-letter queue when exhausted".  After one overrun, a stale
   execution completes the last step while the job is `retrying`; `complete_step`
   then leaves the job alone (002:202-211).  The next execution skips every step,
   logs `job completed` and writes nothing (executor.ts:63-69); recovery returns
   the job a minute after its lock expires, for ever.
2. **A completed job with a step missing** (`lostcomplete`).  executor.ts:137
   ignores the result of `complete_step`; the last step then completes the job.
3. **A requeue under a running execution** (`requeuerace`).  015:28 promises
   "never an in-flight one"; the status is tested without a row lock.
4. **The wrong payment linked** (`mislink`).  upsert-payments.ts:255-258 says of a
   Clover payment with our external id and an unlinked MCM payment on its order
   that it is the same payment.  The query takes any completed payment of the
   order without `pos_id`; of two, the pull may link the one that has not been
   posted, whose injection then ends as `already_applied`.

5. **A modifier that stays sold out** (`backinstock`, a bug).  modifier-sync.ts:59
   reads the rows without `stock_status`; line 83 takes the missing column for
   `instock`, so the sweep writes when a modifier sells out and never when it
   comes back.  The test (clover-modifier-deleted.test.ts:97) passes because its
   fake row has the column.

6. **A dish that is charged and not shown** (`hiddenline`, a bug).  The second pass
   of managed-merge.ts (131-144) runs over voided lines too.  A line voided at the
   terminal has an anchor and no item, so it claims the next item of its name and
   price, and line 163 keeps it voided.  What the terminal adds is to come in as a
   line that stands (clover-managed-merge.test.ts:63); here it only moves the total,
   which is Clover's, and the bill is more than its lines.

What `CloverPayments` says of the code beyond these, as limits its properties
leave room for: a pull that dies between the insert of a payment and the update
of its order leaves the order's `paid` as it was, since the next pull takes the
row for one MCM injected; two pulls at once may write sums in the wrong order;
one payment older than the protection window ends the protection of all that
the same pull deferred; the future stamp that `SKEW_MS` tolerates (five minutes)
moves the cursor further than `OVERLAP_MS` (two minutes) looks back; a refund
that is first seen through the anti-loop or the link path never reaches
`total_refunded`.

### Stated and refuted, without a run of their own

Each of these is a definition of its module, marked "Does not hold"; TLC finds
the counterexample in the instance of `handlers` when it is added to the cfg.

| Definition | What happens |
|---|---|
| `OmnivoreOrder!OneTicketWhateverItsName` | a ticket whose name does not identify the order is not looked for (create-order.ts:52), so the retry after a lost answer opens a second one (omnivore-create-order.test.ts:231-240 has it so; create-order.ts:28-32 says what the search is there for) |
| `OmnivoreOrder!ResolvedIsLeftAlone` | `LinkTicket` clears the injection state the staff had set to `resolved` (injection-status.ts:16 says the worker does not touch it again) |
| `OmnivoreTender!EveryDifferenceIsNoted` | a tender that was cut and then failed to close the ticket leaves no note |
| `CloverOrder!NeverSilentlyLost` | an addition equal to an earlier one has the same signature, hence the same manifest entry and job: it is never billed and nothing shows it (reconcile-items.ts:92: "never a silent loss") |
| `OmnivorePull!OnlyTheTerminalVoids` | the first insert by the younger lane leaves nothing to compare the older snapshot with, which then voids a line that is on the ticket |
| `OmnivorePull!OneRow` | the reads at upsert-orders.ts:542 and 553 drop their errors, and the row that was to be adopted gets a second one beside it |
| `CloverPull!OneRow` | a pull between POST /orders and the write of its id (clover create-order.ts:57-62), or after that write failed, finds no row for the order and inserts a second one |
| `CloverPull!LineTotalsAddUp` | a matched line whose quantity Clover changed keeps its old total, and a group of items added at the terminal has the total of one (managed-merge.ts:155-158, 193); the order's total is right |
| `CloverCatalog!BusyTableShownUnread` | the read of the open orders drops its error (fetch-tables.ts:201): a failed one hides tables with diners |
| `RosterMulti!StrangersShareNoManager` | employees-multi.ts:63 compares every name with the first location's, so two people who do not pass for each other but both for the first share a manager's PIN; with three locations and three people, one location more than in `handlers` |
| `SyncSchedule!DisabledStaysOff` | `fail_sync_schedule` (002:486-490) makes a schedule that was switched off `failing` when its last runs die, and `failing` is claimed (032:20-21 calls it an intentional shutdown); in the instance of `sync` |
| `CloverPull!PaidStaysPaid` | a payment that completes between the look for it and the write is undone by the write (upsert-orders.ts:17) |
| `OmnivoreCatalog!ArchivedIsDraft` | the batch write drops the status column, so an archived product is not put in draft |
| `Roster!LeaversClosed` | the archive guard counts rows already closed and speaks of one pull only |
| `Subscriptions!OneLivePlanPerAsset` | two orders that name one asset both pass the guard, read long before the insert (repo.ts:284) |
| `Subscriptions!EveryPlanHasItsPeriod` | a job that dies between the inserts of a plan and of its first period finds the unit existing and never returns to it |
| `Alerts!MailedOnce` | a dispatcher dies before it marks a row, or two dispatchers read it |
| `Workers!EveryLimitHolds` | limits stored with a `queue_name` (026, 037) are consulted by neither query of the claim |
| `OmnivoreModifiers!NestedIsExact` | the copies of a group made for its ranges share one list of nested modifiers, so a modifier that asks for one range offers all |
| `OmnivoreModifiers!NoDeadLink` | a range nobody asks for any more is not imported, so its links are never pruned |
| `Connections!PaymentUsesFix` | payment.ts:316 reads the cached row; the fresh read that credentials.ts:138 describes is the order injection's only |
| `Connections!StockEndsWithLocations` | a business left with no location keeps its stock schedule |

Other limits of the code that the modules' faults contain and their properties
leave room for: reads whose error is dropped (subs/repo.ts 41-69) complete a paid
job that did nothing; a manifest read that fails counts as no supplements; a
supplement without its Clover order is not discounted; the pulls write back the
whole `additional_properties` they read, over a manifest saved since; a sweep's
insert that loses against another sweep's overwrites an edit; a default level
or an attachment made under a sweep is lost; an owner's re-opening leaves the
marker of absence, so a later suspension by hand is taken for the sync's own and undone; a success let in before the breaker opened closes it half open; a price
changed at the terminal moves the total of a Clover order and not the line
(managed-merge.ts:20), so that `TotalIsItsLines` leaves such orders out; a card is not
attached where nobody is found to own the order; a claim of auto-settle whose answer is
lost keeps its turn until the stamp is old; the
count added to an alert that was mailed is never mailed itself; a ticket closed
during an outage of more than two hours is not fetched again.

## Not modelled

* Logging, telemetry and the sanitizing of attempts (no state the engine reads
  back); `job_step_attempts` (written, never read); views and permission
  wrappers; the wording of errors, notes, mails and receipts.
* The leader lock: it is a session lock of Postgres; two leaders would only do
  what two producers do in `SyncSchedule`.  What its error handler does to the
  connection pool is noted as a hazard.
* Delivery, printing, store, SMS and e-mail: one outbound call each, whose retry
  is a job's.  A print that succeeded with its answer lost is printed twice by
  the retry; nothing in the code claims otherwise.
* Subscriptions other than `apply_payment`: the harvest of cards, the charge of
  invoices and the external sync talk to Stripe and to services outside the
  repository.
* In the pulls: Clover's modifier groups, clock entries, health snapshots, the
  linking of tables by title, the RPC that writes Omnivore's floor plan (not in
  the repository), tax and price formatting, the conflict log of the inventory.
* In the two order pulls: what becomes of a second row once it is there; in the
  model a lane that looks then leaves the order alone.
* In `CloverOrder`: a payload without a total, or an answer of Clover without one
  (supplemental.ts:193-198), where a supplement is billed at its lines with no ceiling.
* In `Subscriptions`: lines without a price or a publication, and the read that finds the
  owner by telephone or e-mail, whose outcome is left open.
* In `CloverPayments`: tips and amounts (a sum is a set of payments), malformed or
  unsuccessful rows of the feed, a failure of the write of the warning itself.
* Amounts elsewhere are small numbers, a line its signature, a name a model
  value; rounding of cents is left out.
* Liveness of the handlers: each is a job, whose progress `JobEngine` has
  (`EveryJobSettles`); a pull's is its schedule's (`SyncRecovers`).

## Plan

1. `JobEngine`, `JobContract`, `SyncSchedule`, `CloverPayments` with their proofs: done.
2. The handlers, workers, alerts and connections: modelled and checked.
3. Proofs about them: done but for the two pulls and for the sums of `CloverOrder`
   (see "Only model-checked").
4. Left to model: the harvest and charge of subscriptions, the leader lock with
   its pool, Clover's modifier groups.
