# Verification of the Scoutpost scout-run machinery

Scoutpost runs *scouts* (saved monitoring jobs) for its users: a **Page** scout
(`web` in the code) watches a page, a **Beat** scout searches for news on a
topic, a **Civic** scout reads council documents. The program's own core logic is
what happens between "this scout is due" and "this run has an outcome": a
PostgreSQL queue, SQL functions that move its rows, Deno edge functions that
drain it and do the work, and pg_cron jobs that repair what died on the way. All
of it is concurrent, any process may be killed between two statements, and
outcomes are written by several parties. Around it stand the ledgers that a run
charges, crawls, alerts and reminds through, and the ways into an account. This
directory holds TLA+ models of that machinery, the TLC runs that check them and
TLAPS proofs of the main results.

## 1. Inventory

Paths are relative to `src/`; `sql/` stands for `src/supabase/migrations/`, `fn/`
for `src/supabase/functions/`.

| Component | State | Operations | Hard behaviour |
|---|---|---|---|
| **Scout dispatch queue** (`sql/00087`, `00114`, `00116`, `20260922182525`, `20261029100000`) | `scout_dispatch_queue` rows (status, attempts, lease, scheduled_for), `scout_runs.status` | enqueue, claim batch, finish, park, reconcile waiting, reconcile stale | two drains at once, lapsed leases, coalescing, capacity, lost answers |
| **Dispatch drain** (`fn/scout-dispatch-drain`, `fn/_shared/scout_dispatch_drain.ts`) | the wave of claims it holds | claim, call worker, settle | gateway timeouts, network errors, killed mid-wave |
| **execute-scout, Run Now, pause/resume** (`fn/execute-scout`, `fn/scouts`, `trigger_scout_run`) | run rows, `scouts.is_active` | trigger, enqueue, mark terminal | pg_net loses posts; a run exists before its row |
| **Page / Beat / Civic workers** (`fn/scout-web-execute`, `scout-beat-execute`, `civic-execute`) | run row, failure counter | resolve run, success, skip, fail | run-row writes by id only, whatever the status is by then |
| **Failure policy** (`fn/_shared/scout_failures.ts`, `sql/00019`) | `consecutive_failures`, `is_active`, deactivation mail | count, pause, defer | deferred retries racing the row of the failed run |
| **Civic documents** (`sql/00091`, `20260930140000`, `fn/civic-extract-worker`) | `civic_extraction_queue`, `civic_dispatch_complete` | queue, claim, heartbeat, persist an item, fail, finalize, failsafe | documents settle while their dispatch still runs, workers come back after their lease |
| **Civic alerts** (`sql/20260810105825`, `20260930140000`, `fn/_shared/civic_run_notifications.ts`, `notifications.ts`) | `civic_run_alert_deliveries`, `civic_run_alert_items`, `notification_sent`, `notification_status` | seal, claim, submit, accept, finalize, hand back | at-most-once mail under crashes and lost answers, fencing tokens |
| **Promise reminders** (`sql/20260930140000`, `fn/promise-digest`) | `promise_reminder_deliveries` | claim, accept, finalize | a ledger of the same kind, per deadline |
| **Civic backfill and repair** (`sql/20260911143335`, `20260810110641`) | document baseline, repair batches | plan, apply, resume | shares the document queue |
| **Crawler jobs and batches** (`sql/00110`-`00113`, `2026081*`, `202609*`, `fn/crawler-dispatch`, `fn/crawler-worker`, `scrape-service/app/workflow.py`) | `crawler_jobs`, `crawler_batches`, the bundles in storage | enqueue, batch, submit, claim, complete, reconcile, cancel, clean up | two executions of a batch, repeated callbacks, a dispatcher that dies half-way, a paid fallback |
| **Page workflow** (`sql/00114`, `00115`, `fn/scout-web-execute`, `fn/_shared/page_workflow_transport.ts`) | workflow lease and stage of a run, its charge and refund | claim, park, resume, charge once, refund once, finalize | lease hand-over, parked runs resumed by job completion |
| **Credits** (`sql/00025`, `00035`, `00044`, `20261006092607`) | balances, usage records | decrement, decrement once, refund once | double charge on redelivery, lost refund |
| **Scout schedules** (`sql/20260930160000`) | `schedule_last_dispatched_at`, pg_cron jobs | claim schedule, dispatch | two cron ticks in a minute, DST |
| **CLI device authorization** (`sql/00098`-`00106`, `fn/cli-auth`) | device sessions, tokens | start, approve, poll, revoke | single use of codes, approve/poll races |
| **MCP OAuth** (`sql/00024`, `20261023120000`, `fn/mcp-server`) | clients, codes, refresh tokens | authorize, exchange, rotate | replayed codes, rotated tokens |
| **Social / Apify runs** (`sql/00070`, `fn/apify-*`) | `apify_run_queue` | kick off, callback, reconcile | duplicate and late callbacks |
| **Transport scouts** (`fn/scout-transport-execute`) | snapshots, peer yield | sample, execute | direct dispatch outside the queue |
| **Unit deduplication** (`sql` upsert_canonical_unit*) | canonical units, occurrences | upsert, merge | concurrent inserts of one fact |
| **Notifications, Resend webhooks** (`fn/_shared/notifications.ts`, `sql/00092`) | delivery events | send, record | reordered webhooks |
| **Operations monitor** (`sql/00091`, `fn/operations-monitor`) | incident rows | observe, report | reads the others |
| Frontend, other CLI commands, MCP tools, python backend, self-host scripts | - | - | presentation, I/O and packaging |

How the first six interact: pg_cron and Run Now *enqueue* a run; the drain
*claims* rows under a lease and *calls* a worker over HTTP; the worker writes the
run row directly and answers; the drain *finishes* or *parks* the row; the two
reconcilers and the next claim *mirror* whatever status the run has by then. A
worker that fails writes the run row, then the failure policy, which may enqueue
a new run for the same scout. A Civic worker answers once its documents are
queued; the extract worker settles the run later and has the failure policy of
its own. So a run row has up to six writers (worker, drain, claim, two
reconcilers, extract worker) and a queue row four.

How the others join in: every worker *charges* a pool first and refunds it when the
run fails. A Page worker on the `workflow` backend *enqueues* crawler jobs, answers
202 and is invoked again when they have settled: crawler-dispatch *batches* jobs
and starts Render tasks, these *claim* a batch and call crawler-worker back, which
*resumes* the run. A social scout does the same with an actor run at Apify and a
webhook. A cron job per scout with a time zone ticks every minute and *claims* the
schedule before it calls execute-scout. What a worker mails is reported on by the
provider's webhooks, and promises found by Civic scouts are mailed again at their
deadline. Device login and MCP OAuth share nothing with the rest but the user.

What makes each component correct:

* queue: at most one active row per scout; never more leases than the configured
  concurrency; a superseded claim changes nothing; every row closes; attempts
  never exceed the limit;
* drain and workers: a row is not reported done when its run failed; every run
  settles;
* failure policy: one deferred retry per run and no retry of a retry; a failure
  is deferred only if there is a retry; one mail when a scout is paused; a
  failure is counted once;
* Civic documents: a run is not reported successful while documents are open or
  after one failed; a settled document stays settled; every document settles;
* alerts: only a settled run seals one; a mail accepted by the provider is never
  submitted again; no item is left behind by a delivery that is closed as sent;
* reminders and delivery events: a deadline is mailed once; a run shows the newest
  thing the provider said of its mail;
* crawler jobs: bounded attempts, at most one paid call, one answer; the answer
  belongs to the last attempt and its bundle exists; no job is left in a batch
  nobody will claim; every job comes to an end;
* Page workflow: one charge and one refund per run however often it is invoked; a
  success is not refunded; only a success alerts; every run and its row close;
* credits: a pool is neither overdrawn nor above its cap, its records explain its
  balance, a key counts once;
* schedules: a wall-clock minute dispatches once; an active scout has its job;
* social runs: the charge of a failed run is refunded once;
* device login and OAuth: a code yields one key or one set of tokens, the limit of
  keys holds, a decision stands, nobody is left with a key he does not know of, and
  an Osaurus session is always listed as one that has to ask.

## 2. Modules

| Module | What it is |
|---|---|
| `ScoutDispatch` | the dispatch queue, the drain, the three workers, the failure policy and the Civic documents as far as they decide the run |
| `ScoutSlot` | the abstract specification of the queue: a slot per scout |
| `CivicAlerts` | one Civic run in detail: its documents, the workers that extract them, the alert ledger and the mail |
| `AlertBox` | the abstract specification of an alert: a box of promises, sealed, mailed and used up once |
| `DeliveryEvents` | what the mail provider reports of one mail, and what the run shows |
| `PromiseReminders` | the ledger of due promises and the invocations of `promise-digest` |
| `CrawlerJobs` | crawler jobs, batches, the dispatcher, Render tasks, callbacks, recovery, the paid fallback |
| `CrawlerTicket` | the abstract specification of a crawler job: a ticket with bounded attempts and one answer |
| `PageWorkflow` | one Page run on the `workflow` backend: invocations, lease, queue row, crawler jobs as their caller sees them, bill, alert |
| `CreditLedger` | pools of credits, charged and refunded statement by statement |
| `SocialRuns` | social scouts: kickoff, webhook, reconciler, failsafe |
| `ScoutSchedule` | the minute ticks of one schedule, and the requests that pause, resume and edit the scout |
| `DeviceAuth` | `scout auth login` and `logout`, the browser's decision, API keys |
| `McpOAuth` | the code exchange of the MCP server and what `tools/list` makes of it |
| `AroundRuns` | `CreditLedger`, `SocialRuns` and `ScoutSchedule` side by side: their constants, the assumptions on these, their properties |
| `Access` | `DeviceAuth` and `McpOAuth` side by side |
| `AlertMail` | `CivicAlerts`, `DeliveryEvents` and `PromiseReminders` side by side |
| `ScoutDispatchProofs`, `CivicAlertsProofs`, `CivicDeliveryProofs`, `CrawlerJobsProofs`, `PageWorkflowProofs`, `AroundRunsProofs`, `AccessProofs`, `AlertMailProofs` | theorems for all values of the constants |
| `MCScoutDispatch`, `MCCrawlerJobs`, `MCPageWorkflow` | constants of one instance |
| `MCScoutRaces`, `MCAlertMail`, `MCCrawlRaces`, `MCAroundRuns`, `MCAccess` | several small instances in one run of TLC |

`ScoutDispatch` and `PageWorkflow` overlap in the queue row: the first has all
rows, drains and enqueuers and the `service` backend, the second one row with all
that the `workflow` backend does to it. `PageWorkflow` takes from `CrawlerJobs`
only that a job settles (`JobsSettle`) and the states of its fallback; from
`CreditLedger` that a keyed charge counts once (`KeyedOnce`).

`ScoutDispatch` and `CivicAlerts` overlap in the status of a Civic run. The first has
every writer of it and knows of documents only whether one is open;
`CivicAlerts` has the documents row by row and knows of the dispatch only how
often the run was delivered and how each delivery ended.

### `ScoutDispatch` and the code

A SQL function is one action: it is one transaction, and the two that could race
with themselves take an advisory lock (`sql/20260922182525:83`,
`sql/00087:208`). An edge function is a process with a program counter; each
database call it awaits is an action, and it may die between two.

| Model | Code |
|---|---|
| `runStatus`, `runSource`, `retryOf`, `sealed` | `scout_runs.status`, `metadata.dispatch_source`, `metadata.deferred_retry_of`, `civic_dispatch_complete` |
| `qStatus`, `attempts`, `leaseOwner` | columns of `scout_dispatch_queue` |
| `leaseExpired`, `due`, `aged` | comparisons of `lease_expires_at`, `scheduled_for`, `started_at` with `now()`; set by the clock actions `ExpireLease`, `BecomeDue`, `AgeRun` |
| `posted` | `execute-scout` requests of Run Now still in pg_net |
| `caller[r][a]`, `call[r][a]` | the drain that made the a-th claim of a run, and its HTTP call |
| `exec[r][a]` | the worker invocation behind that claim |
| `docsOpen`, `extractor` | runs with a pending or processing document; what an extract worker still has to write after the last one failed |
| `deferred`, `mails` | history: failures deferred instead of counted, mails handed over |
| `EnqueueScheduled`, `ExecuteScout`, `EnqueueRetry` | `enqueue_scout_dispatch` for its three sources, with the handler around it |
| `Claim`, `FinishDispatch`, `ParkDispatch`, `CountUnreachable` | `claim_scout_dispatch_batch`, `dispatchClaim` |
| `StartPage`, `AcceptBeat`/`ResolveBeat`, `StartCivic`, ..., `Fail` | the three workers |
| `DeferFailure`, `RecordFailure` (and `DeferDocuments`, `CountDocuments`) | `recordScoutRunFailure` called by a worker (by the extract worker) |
| `ReconcileWaiting`, `ReconcileStale` | the SQL functions pg_cron calls |
| `CallFails`, `LosePost`, `DropCall`, `WorkerDies`, `ExtractorStops` | what the platform may do: 504, connection reset, lost request, killed process |

Abstractions, each visible in the module:

* runs use the `service` crawler backend. The `workflow` backend parks Page runs
  and has leases of its own, which are `PageWorkflow`;
* `aged` stands for the grace of both reconcilers, which count from `started_at`
  (the real graces differ, 20 to 120 minutes; the model allows every order);
* rows of equal priority are claimed in any order (the code: by `scheduled_for`);
* a failing database call counts as the death of its caller, which is what the
  caller's handler amounts to, except where a `catch` does more;
* documents of a run are open or not: one that settles while others are open
  changes nothing a run can see, so only the last is an action;
* user actions not concerned with dispatch (editing or deleting a scout),
  credits, run events and stage markers are left out.

Bounds: the set `Runs` of run ids that may be created, `MAX_DOCS_PER_RUN = 2`
(the code's own), and one extract worker at a time with a run's failure to
write. `failures` and `mails` need no bound, because every count belongs to one
of finitely many attempts or documents.

### `ScoutSlot`

What the queue promises a scout: a run opens the slot of its scout only when
nobody holds it, holds it once, and gives it back for good. Bulk operations
(claim, the reconcilers) close several slots in one step. `ScoutDispatch`
implements it under the mapping `SlotOf`: queued, leased and waiting rows are all
an open slot, so claiming, requeueing and parking are stuttering steps.

### `CivicAlerts` and the code

| Model | Code |
|---|---|
| `runStatus`, `complete`, `sentFlag`, `noted` | `scout_runs.status`, `civic_dispatch_complete`, `notification_sent`, `notification_status = 'sent'` |
| `dispatch`, `dispatches` | the `civic-execute` invocation of the run, and how often the dispatch queue has leased the run |
| `docStatus`, `docAttempts`, `docOwner`, `docExpired` | columns of `civic_extraction_queue` |
| `stored`, `delivered` | `civic_run_alert_items`, those with `delivered_at` |
| `alert`, `fence`, `alertOwner`, `alertExpired`, `accepted`, `muted` | `civic_run_alert_deliveries`: state, `fencing_token`, lease, `provider_accepted_at`, `last_error = 'skipped'` |
| `inbox` | what the user received: the provider delivers one mail per key |
| `pc`, `doc`, `token`, `payload` | a `civic-extract-worker` invocation: its next call, the document and the token it holds, the mail it composed |
| `SealedBy` in `SetRun` | the trigger on `scout_runs`, fired by every write of a status |
| `Begin`, `QueueDocument`, `EndEmpty`, `CompleteDispatch`, `DispatchFails` | `execute` of `civic-execute`: reset, queue, nothing to queue, `complete_civic_dispatch`, catch |
| `Deliver`, `ReportFailed`, `ReconcileStale` | what claim, drain and reconciler of the dispatch queue do to this run |
| `Failsafe`, `ClaimDocument`, `PersistItem`, `FinalizeDocument`, `FailDocument` | the SQL functions of the document queue |
| `CheckSiblings`, `MarkRunError` | `markLinkedRunFailedIfSettled`, a read and a write that are not one transaction |
| `ClaimAlert`, `MarkAccepted`, `FinalizeSent`, `ReleaseAlert` | the SQL functions of the alert ledger, called by `deliverCivicRunAlert` |
| `ComposeAlert`, `MarkAttempted`, `CheckSent`, `SkipMail`, `SendMail`, `FlagSent`, `NoteResult`, `NoteFailed`, `AlertThrows` | the awaits between them, in `deliverCivicRunAlert`, `guarded` and `sendWithRetry` |
| `DeleteUnit`, `ExpireDocument`, `ExpireAlert`, `WorkerDies`, `DispatchDies` | the user, the clock and the platform |

Abstractions:

* one `civic-execute` invocation of a run at a time: hosted, the runtime kills it
  at 400 s and the run is leased for 900 s before it is delivered again;
* a claim may take any eligible document: the code orders by age but skips rows
  another transaction has locked;
* a heartbeat only delays `ExpireDocument`, which may happen at any time, and a
  heartbeat that fails is one of the errors behind `FailDocument`;
* the lost answer of a committed call counts as the death of its caller;
* the drain of alerts at the end of `civic-execute` is one of the workers. Every
  drain takes the oldest due delivery; with one run there is one;
* which document stores which promise is left open: `PersistItem` may store any
  item that has no tracker yet, from any document;
* the provider's memory of an idempotency key (24 h) does not run out;
* `notification_status` is only "sent" or not, all the guard asks of it;
* a worker id is a fresh UUID, which the guard of `Start` stands for;
* `ReconcileStale` also stands for the queue giving up a run whose call has
  ended, `ReportFailed` for a failure reported while the call goes on;
* backfill and repair, which use the document queue without a run or an alert,
  are left out.

Bounds: `MaxClaims` on the fencing token, which is otherwise an unbounded counter,
and `MaxDispatches` on deliveries (the code's limit on attempts).

### `AlertBox`

What the ledger promises the user: promises go into a box until it is sealed, the user
may discard some, one mail is made of all that are left, and the box is used up as
a whole, once: mailed, if its mail is out, or skipped. A worker that was overtaken
may still mail a box that another has skipped. `CivicAlerts` implements it with
`stored`, `deleted`, `delivered`, `inbox` as they are and `Stage` for the states of the
delivery: pending, sending, accepted and failed are all a sealed box.

### `DeliveryEvents`, `PromiseReminders` and the code

A call of `record_resend_delivery_event` is one transaction under READ COMMITTED,
so its INSERT, its SELECT and its UPDATE each see what is committed when they
start; `Insert`, `Find`, `Match`/`StoreOnly` are those statements. The worker's
`markNotificationResult` and the trigger behind it are `UpdateRun`, `MarkStored` and
`ShowNewest`. `Inserting` is ON CONFLICT DO NOTHING, which waits for a call that inserts the same
event; `RowFree` is the lock on the run.

A reminder is a claim under a lease (`Claim`), then mail by mail `Send`,
`MarkAccepted`, `FinalizeSent` or `FinalizeFailed`, with the promise's state and the
user's settings changing in between (`Transition`, `SwitchEmail`). `MailKey` is
the provider's idempotency key, a promise and its due date. One promise has one
deadline here, a user one address, and the provider does not forget a key.

### `CrawlerJobs`, `CrawlerTicket` and the code

| Model | Code |
|---|---|
| `job`, `batch` | rows of `crawler_jobs`, `crawler_batches`; a job's lease token is its attempt number |
| `start`, `task`, `calls` | what Render answered the dispatcher; Render executions and the item each is at; callbacks that `crawler-worker` has not answered |
| `store` | bundles in the bucket, named by job, token and execution as in `artifactPath` |
| `caller`, `nudged` | Page invocations waiting for a paid call; proxy jobs whose row `create_crawler_proxy_batch` has locked |
| `Enqueue`, `CreateBatch`, `Nudge`/`FormProxyBatch`, `Reserve`, `StartAccepted`/`StartRefused`, `MarkSubmitted`, `ReleaseBatch` | `enqueue_crawler_job` to `release_crawler_batch`, `submitCrawlerBatch` |
| `Claim`, `Work`, `CutOff`, `Resend`, `TaskEnds` | `claim_crawler_batch`, `_crawl_batch_guarded`, `WorkflowClient` |
| `ReadJob`, `Accept`, `AcceptUnheard`, `RejectBundle`, `ReportFailure`, `CallFails` | `completeBatch`: it reads the job, verifies the bundle, then calls `complete_crawler_job` with what it read |
| `Reconcile`, `ReleaseStale`, `RenderEnded` | `reconcile_crawler_jobs` (one transaction of six statements, in their order), `release_stale_crawler_submissions`, `reconcile_crawler_render_run` |
| `ClaimFallback`, `FallbackReturns`, `HandOff`, `CancelJobs`, `CleanUp` | the paid call of a Page job, of a proxy caller, cancellation by a finished run, removal of results |

`CrawlerTicket` is what a caller relies on: a ticket is open, may be attempted
`MaxAttempts` times, is delegated to a paid call at most once, is answered once,
and one whose paid call is under way is not cancelled. `CrawlerJobs` implements it
(`TicketKept`): batching, submitting, recovering and requeueing are stutters.

Abstractions: grace periods and back-off are choices (a reconciler may find any
waiting row old enough); a uuid of a batch nobody refers to may be used again, so
that finitely many `Batches` stand for those alive at one time; daily budgets,
host policy and the benchmark mode are left out. `MaxSends` bounds how often one
callback is sent; `LostAnswers` says whether a committed call may look failed,
`Immediate` whether proxy callers nudge the dispatcher.

### `PageWorkflow` and the code

| Model | Code |
|---|---|
| `status`, `holder`, `lapsed`, `stale` | `scout_runs.status`, `workflow_lease_token`, comparisons of `workflow_lease_expires_at` and `workflow_progressed_at` with `now()` |
| `row`, `attempts`, `call` | the run's row in the queue and the drain's HTTP call |
| `job`, `notices` | the crawler jobs of the primary page and of its children (one stands for all), and resumes to be posted |
| `pc`, `reply` | an invocation of `scout-web-execute` |
| `charges`, `refunds`, `alerted` | usage records under the run's two keys; the alert |
| `CheckRun`, `ClaimRun`, `Charge`, `ScrapeRoot`, `PayRoot`, `PrepareChildren`, `PayChild`, `RunPipeline`, `MarkSuccess`, `PersistCandidates`, `Notify`, `Park`, `MarkError`, `Refund`, `Finalize`, `Close` | the handler from top to `finally`, one action per awaited call |
| `Resume`, `ResumeNotified` | resumes posted by crawler-dispatch and by crawler-worker, either of which may be lost |
| `ReconcileWaiting`, `FinishWaiting` | the SQL functions; `reconcile_stale_scout_runs` spares a run with an active row, and this one has a row until it ends |

`Overlap` says whether an invocation may outlive its 300 s lease (it may last
400 s). The bill holds either way and is proved so; that a success is paid and
alone alerted holds only for `FALSE`, because run rows are written by id.
`MaxAttempts` is 2, so that a row lapses and is leased again; two workers are the
least for a resume that meets an invocation.

### `CreditLedger` and the code

`decrement_credits` and `refund_credits` read the active team, try its pool and
fall back to the user's. `LookUp`, `ChargeOrg`, `ChargeUser` (`RefundOrg`, `RefundUser`)
are these statements; an UPDATE waits for the pool's row and sees its latest
balance, and after it the transaction only inserts its record and commits, hence
one action. `Waits` are the advisory locks of the keyed variants. `TopUp`,
`MonthPasses`, `ResetExpired` and `SwitchTeam` come in between. `Cost` are 1 and 2
credits, `Caps` 1 and 3, so that a charge, a fallback to the other pool and a
refund clipped at the cap all happen; `MaxRenewals` bounds months and caps.

### `SocialRuns` and the code

One run whose kickoffs insert queue rows (`Rows`), deliveries of the webhook
(`Deliveries`), one sweep of `apify-reconcile` at a time, and the SQL failsafe.
Every handler is cut at its awaits, and dies or fails at any of them. `age` is how
long ago a row was started in the steps the code asks for: 1, 4 and 6 hours.

### `ScoutSchedule` and the code

Time is a minute counter and `Offset` the zone. `Resolved` is AT TIME ZONE, which
takes a repeated wall-clock minute for its later occurrence. A tick claims (the
UPDATE of `claim_scout_schedule`) and its commit posts the request, or it is rolled
back. A request reads the scout, writes the row, changes the cron job (or leaves it:
`LeaveJob`) and, if that fails, writes the row back (`Undo`); `Overlap` allows two at a
time. A call for the job may fail (`JobCallFails`) or commit and be answered with an
error all the same (`JobAnswerLost`). `BreakOff` ends a request where it is: the row's write is
refused, or commits without an answer, which throws before the `try` that takes it back;
the rollback fails, which is only logged (`rollback_failed`); or the function is killed
between two calls. `owed` is a history variable: it is set by the two steps after which
an active row may lack its job (an activation that breaks off behind its write, an
unschedule that commits unanswered) and reset by the next call for the job that is
answered. In the run the clock jumps
two hours ahead after minute 0 and back at minute 4, so that the wall shows 4 and 5
twice and 1 and 2 never.

### `DeviceAuth`, `McpOAuth` and the code

A database call is *called*, then *locked* (it has the request's row), then
*counted* (it has the advisory lock on the user's keys), and commits or dies. Its
guard is what the SQL re-reads under the lock; a redemption looks at the clock when
it begins (`late`), a decision when it has the row. `Poll` may be given up
by the CLI while its call goes on (`GiveUpPoll`, `AnswerDropped`). `login` is the
state of `scout auth login`, up to a verified and stored key. A limit of
one key (the code: five) makes redemption, approval and manual creation compete.

In `McpOAuth` a request of `/token` loads the code, records the session's client and
spends the code; each step may fail. `tools/list` asks Supabase for the user and
looks the client up. The authorize page and Supabase are external.

## 3. Runs

`CHECK_DEADLOCK FALSE` everywhere: with the run ids used up and every row closed,
the documents settled and the alert mailed, or the requests answered, the model
really may stop.

A run may hold several small *instances*. Where they are of one module (`races`,
`crawl_races`), they share its constants, and the cfg's `CONSTRAINT Instances` leaves
out the states that belong to none: an instance is a set of runs or jobs that
exist, with the bounds of its row below, and every property is checked in all of
them. Where they are of several modules (`mail`, `around_runs`, `access`), the first
state picks one, the others' variables never change, and a property is about the
instance it names. This keeps instances that need no fairness together.

| Run | Instances and bounds | Checks | Shows |
|---|---|---|---|
| `races` | 1 attempt, concurrency 1, workers end within their leases. *races*: one Beat scout, 2 runs and a retry, 1 drain at a time. *pool*: a Beat and a Page scout with 1 run each, scheduled or manual, 2 drains; only failures pause. *civic*: one Civic run, 1 drain at a time | `OneActiveRowPerScout`, `OneRetryPerRun`, `CapacityRespected`, `SettledBeforeSuccess`, `ImplementsSlots`, `DoneMeansDelivered` | cron, Run Now and deferred retry race for one slot (a run, its retry and a competitor are the least for it); two drains compete for one lease while workers answer, die or time out; documents settle, fail and are queued while the dispatch still runs |
| `overlap` | one Beat run, 2 drains, 2 attempts, workers may outlive leases | `TypeOK`, `StaleCallHarmless`, `RowsClose`, `RunsSettle` | two executions of one run overlap; stale answers are harmless and everything still closes |
| `mail` | *alerts*: 2 documents, 2 items, 2 workers, 2 attempts, 1 delivery, 3 claims. *events*: 3 events, 2 of which tell something, 2 calls. *reminders*: 2 promises, 2 invocations | `KeepsTheBox`, `AcceptedForGood`, `NoResubmission`, `NewestEventShows`, `RemindedOnce` | workers that race for the alert, are superseded, die around the submission or get no answer neither lose an item nor reopen an accepted delivery (two items are the least for a mail that holds some of them; three claims let the first claimant come back after the third); events out of order, twice and early; leases of reminders that lapse around the mail |
| `documents` | 2 documents, 1 item, 2 workers, 2 attempts, 1 delivery | `SuccessMeansDone`, `SealsSettledRun`, `SettledForGood`, `DocumentsSettle` | dispatch, workers, failsafe and reconciler settle documents and run in every order |
| `crawl_races` | one job, 2 attempts, callbacks end before they are sent again. *races*: 1 batch, 2 executions, callbacks sent twice, a Page job with its run and its fallback. *requeue*: 2 batches, 2 executions, a job without fallback, callbacks sent once. *proxy*: 2 batches, 1 execution at a time, callbacks sent twice, callers that nudge the dispatcher | `AcceptedBundleKept`, `ResultOfLastAttempt`, `TicketKept` | an execution that was superseded, doubled or sent twice can neither answer a job nor remove the bundle that did |
| `crawler_settles` | one Page job and run, 1 batch, 1 task, 2 attempts, lost answers | `NoneStranded`, `JobsSettle` | dispatcher, task and callback may die anywhere and answers be lost; cron brings the job to its end |
| `page_closes` | 2 invocations, 2 attempts, invocations end within their lease | `BilledOnce`, `SuccessIsPaid`, `AlertedOfSuccess`, `RunCloses` | invocations die, resumes are lost, the drain parks a run whose job is done already; run and row close, and the bill is right |
| `around_runs` | *ledger*: 2 callers with one key, 1 without, 2 pools. *social*: 1 row, 3 deliveries. *schedule*: 2 ticks at a time, 3 requests one after another, 7 minutes | `Solvent`, `AuditTrail`, `KeyedOnce`, `FailedEventRefundsOnce`, `OncePerSlot`, `ActiveHasJob` | simultaneous charges of the last credits among team changes, caps and resets; repeated failed events; two ticks a minute around a clock set back; requests that fail half-way, lose an answer or break off, with later ones that make up for them |
| `access` | *device*: 2 users, 1 request, 1 manual key, 3 calls, 1 key allowed. *oauth*: 2 codes, 3 requests | `OneKeyPerRequest`, `KeyLimitHolds`, `DecisionStands`, `NoSilentOrphan`, `TokensHandedOutOnce`, `OsaurusAsksFirst` | polls, decisions and manual keys run into each other; requests that present one code at once |
| `deferred` | one Page run | `DeferredHasRetry` violated | finding 1 |
| `crawler_lost` | one job, 1 batch, 1 execution, lost answers and a second send | `AcceptedBundleKept` violated | finding 2 |
| `social_refunds` | 1 row, 1 delivery | `RefundedOnce` violated | finding 3 |

`Outlive` is a constant: hosted, the runtime kills drains and workers after
400 s (`fn/_shared/scout_dispatch_config.ts:15-44` derives the limits) and a lease lasts 900 s, so
a lease cannot expire under a live worker (`FALSE`); self-hosted there is no such
limit (`TRUE`). `Threshold` is 2 rather than 3 so that the pause happens within
two runs. `TypeOK` is checked where leases overlap, since an off-by-one in the
attempts is what would break it.

Symmetry: the runs of one scout, drains, documents, items, workers, batches and
executions are interchangeable in Init, Next and every property of the runs that
use it; no run with liveness uses any.

### Fairness

`ScoutDispatch` (`LiveSpec`): weak, and only on what something drives. pg_cron calls
the drain and both reconcilers (`Claim`, `ReconcileWaiting`, `ReconcileStale`),
time passes (`ExpireLease`, `BecomeDue`, `AgeRun`), and the wall-clock limit of a
drain ends every call it holds (`SettleCall`, whose last resort is `DropCall`).
No worker is assumed to finish; where leases rely on the runtime's kill
(`~Outlive`) that kill is fair. `RowsClose` and `RunsSettle` therefore hold
because of the reconcilers, not because workers are nice: the run fails without
`Stalled` (a parked Beat row whose worker died) or without `Stale` (a run whose
request pg_net lost).

`CivicAlerts` (`LiveSpec`): pg_cron runs the failsafe and starts workers for ever
(`Failsafe`, `Start`), leases run out (`ExpireDocument`), and an invocation does
not hang: it takes some step or the runtime kills it. Nothing says that a worker
succeeds. The two strong conditions (`PassDrain`, `ClaimDocument`) only exclude
that for ever every invocation dies, or its alerts fail, before it has looked at
the document queue. `DocumentsSettle` then rests on the attempts limit: each claim is
counted, so a document whose workers always die is given up. That alerts are
eventually mailed is not claimed: the code retries for ever and lets overlapping
drains supersede one another, and the model bounds the claims.

`CrawlerJobs` (`FairSpec`): the dispatcher's cron reconciles, releases and forms
batches; leases lapse; a callback is answered; a task ends. Strong fairness is on
what needs another's grace period or life to last long enough: reserving and
starting a pending batch, forming one, and the first claim of a task
(`UsefulClaim`), each of which would otherwise be missed for ever. No task is
assumed to report anything. With one batch and one task nothing competes for
them; with more batches than tasks, a task slot of the model could be taken by other batches for ever, which
Render's are not.

`PageWorkflow` (`LiveSpec`): pg_cron drives the drain and both reconcilers, time
passes, crawler jobs settle, an invocation goes on or is killed. No resume is
assumed to arrive and no invocation to succeed. Strong fairness of
`ReconcileWaiting`: crawler-dispatch calls it before it posts resumes. Strong
fairness of the two stages says that not every invocation is too slow to reach its
paid call within its admission window, otherwise a run could be parked for ever.

### Findings

1. **A deferred retry is swallowed** (`deferred`). A worker that fails on a
   retrieval error asks for a deferred retry while the row of the failing run is
   still leased (Page, Civic) or waiting (Beat). `enqueue_scout_dispatch`
   coalesces onto the scout's active row, which is the failed run's own; no retry
   exists, and the failure is not counted. `scout_failures.ts:178-183` says the
   run gets one retry and "a scout can never dodge the failure policy". The SQL
   test `supabase/tests/deferred_retry.sql` closes the row by hand first. The
   extract worker's retries are real: its row is closed by then.
2. **The bundle of a succeeded job is deleted** (`crawler_lost`). A callback is
   sent again after a gateway error while its first copy is still at work. Both
   copies load the running job; the second completion changes nothing, and the
   paths it then removes are those the first has just recorded: job, token and
   execution are the same. `crawler-worker/_test.ts:100` says "duplicate callback
   never deletes the accepted execution bundle". `crawl_races` shows that
   nothing else deletes it: it holds where a callback ends before it is sent again.
3. **A failed social run is refunded twice** (`social_refunds`). `markTerminal` of
   `apify-reconcile` settles a row by its id that it read as running, and refunds,
   although the webhook has claimed and refunded it meanwhile.
   `apify-callback/index.ts:170-173` says that the pre-charge refund cannot fire twice.
   `FailedEventRefundsOnce` shows that deliveries of the failed event alone do not.

### Further observations

Met while modelling; no run is kept for them. Most contradict no text of the
repository. For each, the line where it happens.

*Runs and failures.* The deactivation mail is repeated whenever a failure is
counted for a scout that is inactive already (`scout_failures.ts:68`). The drain counts a strike after any
network error, although the worker may have run and counted its own
(`scout-dispatch-drain/handler.ts:279`). A superseded worker writes
`notification_status = 'failed'` after another wrote `'sent'`; `notification_sent`
stays set.

*Civic.* A run that is delivered a second time finds its documents' URLs in the
queue, queues nothing and writes `success` itself while a worker still has a
document (`civic-execute/index.ts:638`): the alert is sealed on that success, and
what is stored later is never mailed. The theorems of `CivicDeliveryProofs` and the
runs therefore assume one delivery. When one document of a run is given up,
the run ends as `error` and only `success` seals: the promises of its other
documents are stored and never mailed (`sql/20260930140000`).

*Crawler.* A nudge locks its job's row; a claim of the batch at that moment skips
it (`sql/20260914131000:219`), marks the batch running, and the job stays batched.
`NoneStranded` therefore excludes nudges: `crawler_settles` has none.

*Credits.* A Page run that fails when the failure is recorded keeps its charge
(`scout-web-execute/index.ts:777`); a Civic run may be refunded at
`civic-execute/index.ts:593` and again at 701, a Beat run at
`scout-beat-execute/index.ts:1131` and 1357. A Page run of the `service` backend that is leased twice is
charged twice: only workflow runs have a key. A refund goes to the pool of the
team that is active then, although another pool paid (`sql/00035:75`).
`decrement_credits_once` may put its key on the record of another, plain charge
of the same user, since it finds "its" record by time.

*Mail.* A promise reminder may be submitted again 24 h later, when the provider has
forgotten the key. A delivery event and the worker's update, each waiting for
the other's commit, can leave an event unmatched (`sql/00092:170`).

*Schedules.* An overlapping pause and resume can leave an active scout without its
cron job (`scouts/handlers.ts:2012`, 2049, 2058). So can one request alone: an
unschedule that commits without an answer, so that the row is written back; a resume
whose row write commits without an answer (2054 throws before the `try`), whose
process is killed before the job call (2058), or whose job call and rollback both fail
(`rollback_failed`, 551-560). No cron repairs this: `cleanup_orphan_scout_cron_jobs`
(`sql/00057:95`) removes jobs without a scout and adds none. The scout shows as active
and is not started by its schedule until a later request changes its job. The model starts from a
scout with its job; the creation of scouts and the service's own `manage-schedule`
write a row and then a job in the same way and are not modelled. A rollback, or an edit
that was read earlier, may activate a scout again that the failure policy has paused
meanwhile. A tick that starts a minute late misses its slot.

*Social.* A pending row whose kickoff died is never timed out (it has no
`started_at`); `apify_mark_timeouts` leaves its run running and unrefunded; a
redelivered kickoff charges again (`social-kickoff/index.ts:233`); a success stores
the new post snapshot before the units are extracted (`apify-callback/index.ts:558`);
two deliveries of one success both process it, and both refund when that throws.

*Access.* When the answer of a redemption is lost, the key exists and nobody has
it, and the next poll is refused; a lost answer of `/token` spends the code.
`scout auth login --switch` leaves the key of the old site alive. A token without a
`session_id` records no client.

## 4. Theorems

All proofs are for every value of the constants that satisfies the named
assumption of the module. A TLC run checks the same formula on its instance.

### Dispatch: `ScoutDispatchProofs`

From `ConstantsAssumption` (types, `None` is nobody) and, for `WithinCapacity`,
`RunsFinite`:

| Theorem | States |
|---|---|
| `Typed` | `Spec => []TypeOK` |
| `OneActive` | `Spec => []OneActiveRowPerScout` |
| `Refinement` | `Spec => ImplementsSlots` |
| `WithinCapacity` | `Spec => []CapacityRespected` |
| `StaleCalls` | `Spec => StaleCallHarmless` |
| `OneRetry` | `Spec => []OneRetryPerRun` |
| `Settled` | `Spec => []SettledBeforeSuccess` |
| `Delivered` | `~Outlive` implies `Spec => DoneMeansDelivered` |

* `IInv == TypeOK /\ RowsFollowRuns` is inductive; `TypeOK` alone is not. A claim
  increments `attempts`, and only `RowsFollowRuns` knows that a queued row has
  attempts left; inserting a row needs to know that a fresh run has none.
* `QueueStep` summarises `Next` for the rows: a step inserts one row for a scout
  without an active one, or moves only active rows and none back to "none".
  `OneActive` and the refinement follow from this summary and `RowsFollowRuns`
  alone; an insertion is `Open`, a move is `Close` of the rows that closed.
* `StepKinds` summarises `Next` for the leases: a step is a claim, settles one
  call, or is *quiet* (nobody gains a lease, no call is settled).
  `WithinCapacity` is immediate for the last two; for a claim, `ClaimFits` shows
  that the leases afterwards are the held ones and the candidates.
* `StaleCalls` rests on `LatestOwns`: a live call's drain is on the lease only
  for the latest claim. It is inductive because a drain claims only when it holds
  no call (`Promise.allSettled`): drains check ownership by name, and with two
  claims of one row under one name the check would not tell them apart.
* `OneRetry` rests on `RetrySourced`: what a retry retries was a scheduled run of
  its scout, and sources are written once.
* `FourKinds` summarises `Next` for the workers: a step is a claim, settles one
  call, is one worker's, or stands *aside* (it starts and ends nobody's work, and
  makes a run a success only when it is sealed and has no open document).
  `AheadIdle` (a claim still to come has no worker) and `ByType` (which program
  points belong to which type) carry both theorems.
* `Settled` rests on `OnceDispatched`: while the only claim of a Civic run can still
  queue documents the run is neither sealed nor a success, and before the first one
  none is open. `attempts <= 1` makes that claim the only writer; the limit of the
  module may be larger.
* `Delivered` rests on `OneWorker` (only the latest claim of a row is worked on, and
  nobody is when it can be claimed again), which is where `~Outlive` is needed, and
  on `OutcomeKnown` (a Page worker of a leased row that says "ok" left a success; it
  can not have found the run terminal). A Beat worker never says "ok".

### Civic: `CivicAlertsProofs`, `CivicDeliveryProofs`

From `CivicAssumption` (`None` is nobody, the limits are numbers):

| Theorem | States |
|---|---|
| `CivicTypeCorrect` | `Spec => []TypeOK` |
| `AcceptanceIsFinal` | `Spec => []AcceptedForGood` |
| `AcceptedIsNotResubmitted` | `Spec => []NoResubmission` |
| `SettledDocumentsStay` | `Spec => SettledForGood` |

`Inv == TypeOK /\ Holding /\ Fenced` is inductive. `Holding` says
that an extracting worker has a document. `Fenced` is the argument of the ledger:
whoever mails has a token, no token exceeds the counter,
no two workers have the same one, an accepted delivery is in one of two states,
and the worker with the latest token of an accepted delivery is past submission.
A claim takes a larger token than all that exist, hence "the row is still mine"
means "nobody has claimed since". It holds for any number of deliveries.

`CivicDeliveryProofs` assumes in addition that the run is delivered at most once
(`MaxDispatches <= 1`); with two the theorems would be false (section 3, further
observations).

| Theorem | States |
|---|---|
| `SuccessIsDone` | `Spec => []SuccessMeansDone` |
| `SealedIsSettled` | `Spec => SealsSettledRun` |
| `SentIsMailed` | `Spec => []SentMeansMailed` |
| `AlertBoxKept` | `Spec => KeepsTheBox` |

`OnceInv == Inv /\ Once /\ Mailed` is inductive. `Once` says that as long as the
dispatch can still queue documents the run is not complete and has no alert, that
an alert exists only with a success, and that a success leaves no document open. `Mailed` is
the chain from store to inbox: what is sealed was complete, what a worker composed
is what was undelivered, what it reports was accepted. Only because no item is
stored after the seal does consuming all items equal consuming the mailed ones.

`AlertBoxKept` maps every action to the box from this invariant. Whoever writes the
run's status may `Seal` (`BoxRun`), `PersistItem` is a `Put` because a document that
is being extracted means an unsealed box, `SendMail` is `Mail` because nothing was
left out of the payload, and `FinalizeSent` is `Close`; claims, acceptances and
hand-backs move between states that are all one sealed box. `SentMeansMailed` is what
the box says of a closed delivery, so no run checks it of its own.

### Crawler: `CrawlerJobsProofs`

From `CrawlerAssumption`:

| Theorem | And from | States |
|---|---|---|
| `CrawlerTypeOK` | | `Spec => []TypeOK` |
| `CrawlerResultOfLastAttempt` | | `Spec => []ResultOfLastAttempt` |
| `CrawlerTicketKept` | | `Spec => TicketKept` |
| `CrawlerNoneStranded` | `Immediate = FALSE` | `Spec => []NoneStranded` |
| `CrawlerBundleKept` | `LostAnswers = FALSE` | `Spec => []AcceptedBundleKept` |

`LedgerInv == TypeOK /\ RowsOK(job) /\ TasksOK` is inductive. `RowOK` relates the
columns of one row (attempts, token, result, spent fallback) to its status, and
`Allowed` says which changes of a row are moves or stutters of its ticket. Every
action is shown to be a `GoodStep`: the new rows are `RowOK` and each change is
`Allowed`; types, last attempt and refinement follow from that alone.
`Reconcile` is six statements in one transaction, so its proof shows for each that it is
a `Swept` step and that these compose. `NoneStranded` needs `Housed`: a batched job
sits in a batch that is pending or submitted, unless its run has ended. A first
claim takes all batched jobs of its batch before it marks it running, and a batch
fails in the statement that requeues its jobs; a nudge breaks the former.

For `AcceptedBundleKept`, `BundlesInv` says that every bundle a job names is in the
bucket, and that a callback which has read its job carries a bundle no job names
yet: what it removes when it is refused is then nobody's. Only an accepting callback
names a bundle (`OthersFade`), and two callbacks with one bundle come from one
execution. `CallsInv` excludes these: an execution has one callback under way at
most, and awaits it unless it has died. That is where `LostAnswers = FALSE` is
needed, and the run `crawler_lost` shows that it is. The number of times a callback
may be sent again is free.

### Page run: `PageWorkflowProofs`

| Theorem | From | States |
|---|---|---|
| `PageBilledOnce` | `PageAssumption` | `Spec => []BilledOnce` |
| `PageAlertedOfSuccess` | and `Overlap = FALSE` | `Spec => []AlertedOfSuccess` |
| `PageSuccessIsPaid` | and `Overlap = FALSE` | `Spec => []SuccessIsPaid` |

The bill holds for any number of overlapping invocations, by the keys. The other
two rest on `LeaseInv`: where an invocation ends within its lease, whoever is
`Working` is the only one and holds the lease (`Exclusive`); what it has written of
the run's status is still there when it goes on (`Written`); and once somebody is alerted
or refunded, nobody is left who could write a different status.

### Credits, schedules, social runs: `AroundRunsProofs`

| Theorem | From | States |
|---|---|---|
| `LedgerTypeOK` | `LedgerAssumption` | `Spec => []TypeOK` |
| `LedgerSolvent` | `LedgerAssumption` | `Spec => []Solvent` |
| `LedgerAuditTrail` | `LedgerAssumption` | `Spec => []AuditTrail` |
| `LedgerKeyedOnce` | `LedgerAssumption` | `Spec => []KeyedOnce` |
| `ScheduleOncePerSlot` | `ScheduleAssumed` | `Schedule!Spec => []OncePerSlot` |
| `ScheduleActiveHasJob` | and `~Overlap` | `Schedule!Spec => []ActiveHasJob` |
| `SocialEventRefundsOnce` | `SocialAssumed` | `Social!Spec => []FailedEventRefundsOnce` |

A pool is decided on by the statement that changes it (`BalanceChanges`), which
gives `Solvent` and `AuditTrail`. For keys, `Excluded` is the lock (of the keyed
callers of one user one is in a transaction) and `Fresh` what it protects: behind
its look-up a caller's key is not recorded.

`OncePerSlot` rests on `Slots`: a wall-clock minute that was dispatched was so at
the occurrence it resolves to, and the mark has reached that one. A later tick at the
minute's other occurrence does not resolve to it, and a tick at the same one finds
the mark no longer behind it. This holds for every offset table, hence for every
zone and every jump of its clock. `ActiveHasJob` needs to know what a request
in progress has already done (`Sound`): what it would write back is a row that was
active only with its job, or with the job `owed`. A request that breaks off leaves the
row as read, which that covers, or as written: then it was active before, or
is an activation, which makes the job owed. The auto-pause may strike inside a
request; it only ever makes a scout inactive. So a failed job call that is taken back never
loses the job, and neither does a new cron for an active scout, wherever it ends.

`FailedEventRefundsOnce` rests on `Claimed`: of the deliveries about one row at most one
has claimed it and not yet refunded it, and a row once claimed never opens again. For
that it takes `Linked`: a delivery is about a row whose kickoff is over, so no
kickoff can reopen it.

### Access: `AccessProofs`

| Theorem | From | States |
|---|---|---|
| `DeviceTypeOK` | `DeviceAssumption` | `Spec => []TypeOK` |
| `DeviceDecisionStands` | `DeviceAssumption` | `Spec => DecisionStands` |
| `DeviceOneKey` | `DeviceAssumption` | `Spec => []OneKeyPerRequest` |
| `DeviceKeyLimit` | `DeviceAssumption` | `Spec => []KeyLimitHolds` |
| `DeviceNoOrphan` | `DeviceAssumption` | `Spec => []NoSilentOrphan` |
| `OAuthTokensOnce` | `OAuthAssumed` | `OAuth!Spec => []TokensHandedOutOnce` |
| `OAuthOsaurusAsks` | `OAuthAssumed` | `OAuth!Spec => []OsaurusAsksFirst` |

`RowLocked` says that a request's row has one holder and still is what the holder
read; `KeysLocked` that a user's keys have one, and `Room` that its count still
leaves a place. A commit then decides on what is true. `NoSilentOrphan` needs
`HandedOver`: a poll is answered with a key only when the request is spent, and a
login that has received the key neither polls again nor ends before it has settled
what becomes of the key; so no second key can reach a login that is over. In
`McpOAuth`, `Exchanged` says that who has tokens showed client and verifier and that
the code is used, `OnRecord` that the session's client is recorded before anybody
has its tokens. `OAuthAssumed`: codes are minted for registered clients.

### Events and reminders: `AlertMailProofs`

| Theorem | From | States |
|---|---|---|
| `EventsNewestShows` | `EventsAssumed` | `Events!Spec => []NewestEventShows` |
| `RemindersOnce` | `RemindersAssumed` | `Reminders!Spec => []RemindedOnce` |

`NewestEventShows` is nearly inductive: it needs `Carried` (what the worker is about
to mark, or a call to match, is an event that is stored). A webhook call
compares its event with what is shown on the locked row, and the trigger takes the
newest of all that is stored, so the order of the calls does not matter.

`RemindedOnce` rests on `MailsKnown`: the provider's keys tell which promises
were mailed. A row that the ledger calls accepted, a promise that is stamped, and
whatever an invocation leaves out of its submission because it was accepted before,
have all been mailed. Two invocations that hold one promise at a time may both submit; the key
makes the second a repetition.

### Only model-checked

Liveness: `RowsClose`, `RunsSettle`, `DocumentsSettle`, `JobsSettle`, `RunCloses`.
It needs fairness and ENABLED, which are out of the prover's reach. And the three
violations. Every invariant and every safety property of the passing runs has a theorem.

The hypotheses of the theorems are the conditions of the runs: one delivery of a
Civic run, invocations that end within their leases (`~Outlive`, `Overlap = FALSE`),
no nudge (`Immediate = FALSE`), no lost answer (`LostAnswers = FALSE`), requests
one after another (`~Overlap` of the schedule). What happens without them is said under
the findings and the further observations.

## 5. Plan

Done: all modules of section 2, and the proofs of all their safety properties.

Worth doing next: unit deduplication (`upsert_canonical_unit`), Civic backfill and
repair, and the transport scouts' peer yield.

## 6. Not modelled

Frontend, the other CLI commands, MCP tool formatting, prompt and extraction pipelines,
scrapers and the python backend are I/O or presentation and keep no state
that interleaves. Of the workers, the model has what they write to shared state;
what they scrape, compare and extract decides only which branch they take, which
the model leaves open. Civic backfill and repair, transport scouts and unit
deduplication do have state of interest and are on the plan. The operations
monitor reads the others and keeps incidents. Of the components modelled in part,
`PROJECT.json` says what each leaves out: daily admission budgets and host policy of
the crawler, entitlement webhooks, schedules in UTC, the creation of scouts and `manage-schedule`, rate limits, client
registration and refresh, the diff of posts.
