---------------------------- MODULE CrawlerJobs ----------------------------
(***************************************************************************)
(* The crawler ledger: crawler_jobs and crawler_batches, the dispatcher    *)
(* that forms batches and starts Render tasks for them, the tasks that     *)
(* claim a batch, scrape its items and report each one to crawler-worker,  *)
(* the reconcilers that recover what died on the way, the one paid         *)
(* fallback call of a Page job, and the cancellation of what a finished    *)
(* Page run no longer needs.                                               *)
(*                                                                         *)
(* A SQL function is one action.  A callback to crawler-worker is two: it  *)
(* reads its job, verifies the uploaded bundle, and completes the job with *)
(* what it read.  Age limits (grace periods, back-off) are choices: a      *)
(* reconciler may find any waiting row old enough.                         *)
(***************************************************************************)
EXTENDS Naturals, FiniteSets, FiniteSetsExt

CONSTANTS
  Jobs,         \* dedupe keys
  Batches,      \* crawler_batches that may exist at the same time
  Tasks,        \* Render executions that may be alive at the same time
  Runs,         \* Page runs the jobs may belong to
  None,         \* SQL NULL
  Kind,         \* "page": scrape of a native Page run; "proxy": scrape of a
                \* proxy caller; "pdf": an operation without a fallback
  Parent,       \* scout_run_id of the "page" jobs, None for the others
  MaxAttempts,  \* max_attempts
  BatchSize,    \* p_batch_size
  MaxSends,     \* bound of the model on the sends of one callback
  LostAnswers,  \* a callback or RPC may be carried out and its answer lost
  Immediate     \* proxy callers nudge the dispatcher for their own job

ASSUME CrawlerAssumption ==
  /\ MaxAttempts \in Nat \ {0}
  /\ BatchSize \in Nat \ {0}
  /\ MaxSends \in Nat \ {0}
  /\ LostAnswers \in BOOLEAN
  /\ Immediate \in BOOLEAN
  /\ Kind \in [Jobs -> {"page", "proxy", "pdf"}]
  /\ Parent \in [Jobs -> Runs \cup {None}]
  /\ None \notin Runs \cup Batches \cup Tasks
  /\ \A j \in Jobs : Kind[j] = "page" => Parent[j] \in Runs

VARIABLES
  job,     \* crawler_jobs, by dedupe key
  batch,   \* crawler_batches
  start,   \* what the dispatcher has got from Render for a reserved batch
  task,    \* the Render executions
  calls,   \* callbacks crawler-worker has not answered yet
  store,   \* bundles in the crawler-results bucket: <<job, lease token, task>>
  run,     \* status and lease of the Page runs
  caller,  \* Page invocations that wait for the paid fallback of a job
  nudged   \* proxy jobs whose row create_crawler_proxy_batch has locked

vars == <<job, batch, start, task, calls, store, run, caller, nudged>>

Open     == {"queued", "batched", "running", "retryable_failed"}
Final    == {"succeeded", "terminal_failed", "cancelled"}
Outcomes == {"ok", "anti_bot", "timeout", "retryable", "terminal"}

\* The bundle of a paid fallback, which no task has produced.
Firecrawl == <<0, None>>

\* The lease token of an attempt is as unique as the attempt's number.
JobRows ==
  [status   : Open \cup Final \cup {"absent", "fallback_required"},
   batch    : Batches \cup {None},
   attempts : 0..MaxAttempts,
   lease    : {"none", "live", "lapsed"},
   spent    : BOOLEAN,                        \* fallback_started_at is set
   result   : {None, Firecrawl} \cup ((1..MaxAttempts) \X Tasks)]

BatchRows ==
  [status   : {"none", "pending", "submitted", "running", "complete", "failed"},
   reserved : BOOLEAN,                        \* submission_reservation_token
   marked   : BOOLEAN]                        \* render_task_run_id

Items == [job : Jobs, token : 1..MaxAttempts, outcome : Outcomes, sends : 1..MaxSends]

TaskStates ==
  [batch : Batches \cup {None},
   phase : {"free", "claim", "work", "call", "retry"},
   todo  : SUBSET (Jobs \X (1..MaxAttempts)),
   item  : Items \cup {None}]

Callbacks ==
  [task : Tasks, batch : Batches, job : Jobs, token : 1..MaxAttempts,
   outcome : Outcomes, copy : 1..MaxSends, read : BOOLEAN]

TypeOK ==
  /\ job \in [Jobs -> JobRows]
  /\ batch \in [Batches -> BatchRows]
  /\ start \in [Batches -> {"idle", "posting", "accepted", "rejected"}]
  /\ task \in [Tasks -> TaskStates]
  /\ calls \subseteq Callbacks
  /\ store \subseteq (Jobs \X ((1..MaxAttempts) \X Tasks))
  /\ run \in [Runs -> [ended : BOOLEAN, leased : BOOLEAN]]
  /\ caller \in [Jobs -> BOOLEAN]
  /\ nudged \subseteq Jobs

NoJob   == [status |-> "absent", batch |-> None, attempts |-> 0,
            lease |-> "none", spent |-> FALSE, result |-> None]
NoBatch == [status |-> "none", reserved |-> FALSE, marked |-> FALSE]
NoTask  == [batch |-> None, phase |-> "free", todo |-> {}, item |-> None]

Init ==
  /\ job = [j \in Jobs |-> NoJob]
  /\ batch = [b \in Batches |-> NoBatch]
  /\ start = [b \in Batches |-> "idle"]
  /\ task = [t \in Tasks |-> NoTask]
  /\ calls = {}
  /\ store = {}
  /\ run = [r \in Runs |-> [ended |-> FALSE, leased |-> FALSE]]
  /\ caller = [j \in Jobs |-> FALSE]
  /\ nudged = {}

-----------------------------------------------------------------------------
(* Rows                                                                    *)

ParentEnded(j) == Kind[j] = "page" /\ run[Parent[j]].ended

Eligible(j) == job[j].status \in {"queued", "retryable_failed"}

InBatch(b, statuses) == {j \in Jobs : job[j].batch = b /\ job[j].status \in statuses}

\* The batched jobs of some batches go back to the queue.
Requeued(rows, bs) ==
  [j \in Jobs |-> IF rows[j].batch \in bs /\ rows[j].status = "batched"
                  THEN [rows[j] EXCEPT !.status = "queued", !.batch = None]
                  ELSE rows[j]]

FallbackReason(j, row, class) ==
  \/ class = "anti_bot" /\ Kind[j] # "pdf"
  \/ class = "timeout" /\ Kind[j] # "pdf" /\ row.attempts = MaxAttempts

TriesAgain(row, class) ==
  class \in {"timeout", "retryable"} /\ row.attempts < MaxAttempts

\* What complete_crawler_job makes of a running row that failed.
Failed(j, row, class) ==
  [row EXCEPT
     !.status = IF FallbackReason(j, row, class) THEN "fallback_required"
                ELSE IF TriesAgain(row, class) THEN "retryable_failed"
                ELSE "terminal_failed",
     !.batch = IF TriesAgain(row, class) THEN None ELSE @,
     !.lease = "none"]

Succeeded(row, result) ==
  [row EXCEPT !.status = "succeeded", !.lease = "none", !.result = result]

HoldsAny(j, token) == job[j].status = "running"    \* mutant of Holds: no token
Holds(j, token) == job[j].status = "running" /\ job[j].attempts = token

CancellableSpent(rows, j) ==     \* mutant of Cancellable: also a paid call under way
  /\ ParentEnded(j)
  /\ ~run[Parent[j]].leased
  /\ rows[j].status \in {"queued", "batched", "retryable_failed", "fallback_required"}
Cancellable(rows, j) ==
  /\ ParentEnded(j)
  /\ ~run[Parent[j]].leased
  /\ rows[j].status \in {"queued", "batched", "retryable_failed", "fallback_required"}
  /\ rows[j].lease = "none"

Cancelled(rows, js) ==
  [j \in Jobs |-> IF j \in js /\ Cancellable(rows, j)
                  THEN [rows[j] EXCEPT !.status = "cancelled"]
                  ELSE rows[j]]

-----------------------------------------------------------------------------
(* Enqueue and dispatch                                                    *)

\* Host policy inserts a Page job already routed to its fallback.  Nothing
\* checks that the run is still running: its invocation may be a late one.
Enqueue(j) ==
  /\ job[j].status = "absent"
  /\ \E s \in {"queued"} \cup (IF Kind[j] = "page" THEN {"fallback_required"} ELSE {}) :
       job' = [job EXCEPT ![j].status = s]
  /\ UNCHANGED <<batch, start, task, calls, store, run, caller, nudged>>

\* A uuid nobody uses any more may be reused for the next batch.
FreshBatch(b) ==
  /\ batch[b].status \in {"none", "complete", "failed"}
  /\ start[b] = "idle"
  /\ \A t \in Tasks : task[t].batch # b
  /\ \A c \in calls : c.batch # b

Form(b, js) ==
  /\ job' = [j \in Jobs |-> IF j \in js
                            THEN [job[j] EXCEPT !.status = "batched", !.batch = b]
                            ELSE IF job[j].batch = b THEN [job[j] EXCEPT !.batch = None]
                            ELSE job[j]]
  /\ batch' = [batch EXCEPT ![b] = [NoBatch EXCEPT !.status = "pending"]]

CreateBatch(b) ==
  LET eligible == {j \in Jobs \ nudged : Eligible(j) /\ ~ParentEnded(j)}
  IN  /\ FreshBatch(b)
      /\ eligible # {}
      /\ \E js \in SUBSET eligible :
           /\ Cardinality(js) = Min({BatchSize, Cardinality(eligible)})
           /\ Form(b, js)
      /\ UNCHANGED <<start, task, calls, store, run, caller, nudged>>

\* executeCrawlerProxy saw a queued job and nudged the dispatcher, whose
\* create_crawler_proxy_batch now holds the row; it may be batched by then.
Nudge(j) ==
  /\ Immediate
  /\ Kind[j] = "proxy"
  /\ job[j].status \in {"queued", "retryable_failed", "batched"}
  /\ nudged' = nudged \cup {j}
  /\ UNCHANGED <<job, batch, start, task, calls, store, run, caller>>

FormProxyBatch(j) ==
  /\ j \in nudged
  /\ nudged' = nudged \ {j}
  /\ IF Eligible(j)
     THEN \E b \in Batches : FreshBatch(b) /\ Form(b, {j})
     ELSE UNCHANGED <<job, batch>>
  /\ UNCHANGED <<start, task, calls, store, run, caller>>

Reserve(b) ==
  /\ batch[b].status = "pending"
  /\ ~batch[b].reserved
  /\ batch' = [batch EXCEPT ![b].reserved = TRUE]
  /\ start' = [start EXCEPT ![b] = "posting"]
  /\ UNCHANGED <<job, task, calls, store, run, caller, nudged>>

FreeTask(t) ==
  /\ task[t].phase = "free"
  /\ \A c \in calls : c.task # t
  /\ \A j \in Jobs : \A k \in 1..MaxAttempts : job[j].result # <<k, t>>

\* Orphaned bundles of an earlier execution keep a path nobody can name.
Boot(t, b) ==
  /\ FreeTask(t)
  /\ task' = [task EXCEPT ![t] = [NoTask EXCEPT !.batch = b, !.phase = "claim"]]
  /\ store' = {s \in store : s[2][2] # t}

\* Render accepts; the answer may be lost on its way.
StartAccepted(b, t) ==
  /\ start[b] = "posting"
  /\ Boot(t, b)
  /\ start' \in {[start EXCEPT ![b] = "accepted"], [start EXCEPT ![b] = "idle"]}
  /\ UNCHANGED <<job, batch, calls, run, caller, nudged>>

StartRefused(b) ==
  /\ start[b] = "posting"
  /\ start' \in {[start EXCEPT ![b] = "rejected"], [start EXCEPT ![b] = "idle"]}
  /\ UNCHANGED <<job, batch, task, calls, store, run, caller, nudged>>

MarkSubmitted(b) ==
  /\ start[b] = "accepted"
  /\ start' = [start EXCEPT ![b] = "idle"]
  /\ batch' = IF batch[b].marked THEN batch
              ELSE [batch EXCEPT
                      ![b].marked = TRUE,
                      ![b].status = IF @ = "pending" THEN "submitted" ELSE @]
  /\ UNCHANGED <<job, task, calls, store, run, caller, nudged>>

ReleaseBatch(b) ==
  /\ start[b] = "rejected"
  /\ start' = [start EXCEPT ![b] = "idle"]
  /\ IF batch[b].status = "pending" /\ \A j \in Jobs : job[j].batch = b => job[j].status = "batched"
     THEN /\ job' = Requeued(job, {b})
          /\ batch' = [batch EXCEPT ![b].status = "failed"]
     ELSE UNCHANGED <<job, batch>>
  /\ UNCHANGED <<task, calls, store, run, caller, nudged>>

DispatcherDies(b) ==
  /\ start[b] # "idle"
  /\ start' = [start EXCEPT ![b] = "idle"]
  /\ UNCHANGED <<job, batch, task, calls, store, run, caller, nudged>>

-----------------------------------------------------------------------------
(* Render tasks and crawler-worker                                         *)

\* FOR UPDATE SKIP LOCKED passes over a row another transaction has locked.
FreshClaims(b) ==
  {j \in InBatch(b, {"batched"}) : ~ParentEnded(j) /\ j \notin nudged}

LiveClaims(b) == {j \in InBatch(b, {"running"}) : job[j].lease = "live"}

\* A lost answer makes the client claim again.
Claim(t) ==
  LET b     == task[t].batch
      first == batch[b].status \in {"pending", "submitted"}
      got   == IF first THEN FreshClaims(b)
               ELSE IF batch[b].status = "running" THEN LiveClaims(b) ELSE {}
      row(j) == [job[j] EXCEPT !.status = "running", !.lease = "live",
                               !.attempts = IF first THEN @ + 1 ELSE @]
  IN  /\ task[t].phase = "claim"
      /\ job' = [j \in Jobs |-> IF j \in got THEN row(j) ELSE job[j]]
      /\ batch' = IF first THEN [batch EXCEPT ![b].status = "running"] ELSE batch
      /\ task' \in
           {task, [task EXCEPT ![t].phase = "work",
                               ![t].todo = {<<j, job'[j].attempts>> : j \in got}]}
      /\ UNCHANGED <<start, calls, store, run, caller, nudged>>

\* The task scrapes its next item, uploads the bundle and reports.
Work(t) ==
  /\ task[t].phase = "work"
  /\ \E i \in task[t].todo, o \in Outcomes :
       /\ task' = [task EXCEPT
            ![t].phase = "call",
            ![t].todo = @ \ {i},
            ![t].item = [job |-> i[1], token |-> i[2], outcome |-> o, sends |-> 1]]
       /\ store' = IF o = "ok" THEN store \cup {<<i[1], <<i[2], t>>>>} ELSE store
       /\ calls' = calls \cup
            {[task |-> t, batch |-> task[t].batch, job |-> i[1], token |-> i[2],
              outcome |-> o, copy |-> 1, read |-> FALSE]}
  /\ UNCHANGED <<job, batch, start, run, caller, nudged>>

\* Nothing left to do, or the process is gone: its leases lapse.
TaskEnds(t) ==
  /\ task[t].phase # "free"
  /\ task' = [task EXCEPT ![t] = NoTask]
  /\ UNCHANGED <<job, batch, start, calls, store, run, caller, nudged>>

\* Another execution of the same batch, started by Render.
Replayed(t, u) ==
  /\ task[t].phase # "free"
  /\ Boot(u, task[t].batch)
  /\ UNCHANGED <<job, batch, start, calls, run, caller, nudged>>

\* The gateway answers 5xx although crawler-worker is still at it.
CutOff(t) ==
  /\ LostAnswers
  /\ task[t].phase = "call"
  /\ task' = [task EXCEPT ![t].phase = "retry"]
  /\ UNCHANGED <<job, batch, start, calls, store, run, caller, nudged>>

Resend(t) ==
  LET i == task[t].item
  IN  /\ task[t].phase = "retry"
      /\ i.sends < MaxSends
      /\ task' = [task EXCEPT ![t].phase = "call", ![t].item.sends = @ + 1]
      /\ calls' = calls \cup
           {[task |-> t, batch |-> task[t].batch, job |-> i.job, token |-> i.token,
             outcome |-> i.outcome, copy |-> i.sends + 1, read |-> FALSE]}
      /\ UNCHANGED <<job, batch, start, store, run, caller, nudged>>

Bundle(c) == <<c.job, <<c.token, c.task>>>>

Awaited(c) ==
  /\ task[c.task].phase = "call"
  /\ task[c.task].item.job = c.job
  /\ task[c.task].item.sends = c.copy

\* The call is answered; the task goes on if this is the answer it awaits.
Answer(c, phase) ==
  /\ calls' = calls \ {c}
  /\ task' = IF Awaited(c)
             THEN [task EXCEPT ![c.task].phase = phase,
                               ![c.task].item = IF phase = "work" THEN None ELSE @]
             ELSE task

\* What was done stays done when its answer does not arrive.
Answered(c) == Answer(c, "work") \/ Answer(c, "retry")

ReadJobDeletes(c) ==             \* mutant of ReadJob: every rejected bundle goes
  /\ ~c.read
  /\ IF job[c.job].batch = c.batch /\ Holds(c.job, c.token)
     THEN /\ calls' = (calls \ {c}) \cup {[c EXCEPT !.read = TRUE]}
          /\ UNCHANGED <<task, store>>
     ELSE /\ Answer(c, "work")
          /\ store' = store \ {Bundle(c)}
  /\ UNCHANGED <<job, batch, start, run, caller, nudged>>

\* completeBatch reads the job and turns away what does not hold it.
ReadJob(c) ==
  /\ ~c.read
  /\ IF job[c.job].batch = c.batch /\ Holds(c.job, c.token)
     THEN /\ calls' = (calls \ {c}) \cup {[c EXCEPT !.read = TRUE]}
          /\ UNCHANGED <<task, store>>
     ELSE /\ Answer(c, "work")
          /\ store' = IF job[c.job].batch = c.batch /\ job[c.job].result # Bundle(c)[2]
                      THEN store \ {Bundle(c)} ELSE store
  /\ UNCHANGED <<job, batch, start, run, caller, nudged>>

\* What complete_crawler_job does with a callback: nothing once the lease is
\* not its own.
Completed(c, row) == IF Holds(c.job, c.token) THEN [job EXCEPT ![c.job] = row] ELSE job

Accept(c) ==
  /\ c.read /\ c.outcome = "ok"
  /\ Bundle(c) \in store
  /\ job' = Completed(c, Succeeded(job[c.job], Bundle(c)[2]))
  /\ store' = IF Holds(c.job, c.token) THEN store ELSE store \ {Bundle(c)}
  /\ Answered(c)
  /\ UNCHANGED <<batch, start, run, caller, nudged>>

\* The bundle does not verify or the completion failed: the item is failed.
RejectBundle(c) ==
  /\ c.read /\ c.outcome = "ok"
  /\ job' = Completed(c, Failed(c.job, job[c.job], "terminal"))
  /\ store' = store \ {Bundle(c)}
  /\ Answered(c)
  /\ UNCHANGED <<batch, start, run, caller, nudged>>

\* The completion is committed and its answer lost: the caller takes it for
\* a failure, removes the bundle, and its second completion changes nothing.
AcceptUnheard(c) ==
  /\ LostAnswers
  /\ c.read /\ c.outcome = "ok"
  /\ Bundle(c) \in store
  /\ job' = Completed(c, Succeeded(job[c.job], Bundle(c)[2]))
  /\ store' = store \ {Bundle(c)}
  /\ Answered(c)
  /\ UNCHANGED <<batch, start, run, caller, nudged>>

\* An exhausted HTTP/2 error of a proxy job is reported as anti_bot.
ReportFailure(c) ==
  /\ c.read /\ c.outcome # "ok"
  /\ \E class \in {c.outcome} \cup
       (IF /\ Kind[c.job] = "proxy" /\ c.outcome = "retryable"
           /\ job[c.job].attempts = MaxAttempts
        THEN {"anti_bot"} ELSE {}) :
       job' = Completed(c, Failed(c.job, job[c.job], class))
  /\ Answered(c)
  /\ UNCHANGED <<batch, start, store, run, caller, nudged>>

\* The call fails before or without a completion; a read one may already
\* have removed its bundle.
CallFails(c) ==
  /\ Answer(c, "retry")
  /\ store' \in {store} \cup (IF c.read THEN {store \ {Bundle(c)}} ELSE {})
  /\ UNCHANGED <<job, batch, start, run, caller, nudged>>

-----------------------------------------------------------------------------
(* Reconciliation                                                          *)

LeaseLapses(j) ==
  /\ job[j].lease = "live"
  /\ job' = [job EXCEPT ![j].lease = "lapsed"]
  /\ UNCHANGED <<batch, start, task, calls, store, run, caller, nudged>>

StaleUnreleased(b) ==            \* mutant of ReleaseStale: its jobs stay batched
  /\ batch[b].status = "pending"
  /\ batch[b].reserved
  /\ ~batch[b].marked
  /\ batch' = [batch EXCEPT ![b].status = "failed"]
  /\ UNCHANGED <<job, start, task, calls, store, run, caller, nudged>>

\* release_stale_crawler_submissions
ReleaseStale(b) ==
  /\ batch[b].status = "pending"
  /\ batch[b].reserved
  /\ ~batch[b].marked
  /\ job' = Requeued(job, {b})
  /\ batch' = [batch EXCEPT ![b].status = "failed"]
  /\ UNCHANGED <<start, task, calls, store, run, caller, nudged>>

\* reconcile_crawler_render_run for a task that has ended
RenderEnded(b) ==
  /\ batch[b].status = "submitted"
  /\ batch[b].marked
  /\ \A t \in Tasks : task[t].batch # b
  /\ job' = Requeued(job, {b})
  /\ batch' = [batch EXCEPT ![b].status = "failed"]
  /\ UNCHANGED <<start, task, calls, store, run, caller, nudged>>

FallbacksExpired(rows) ==
  [j \in Jobs |-> IF rows[j].status = "fallback_required" /\ rows[j].lease = "lapsed"
                  THEN [rows[j] EXCEPT !.status = "terminal_failed", !.lease = "none"]
                  ELSE rows[j]]

AttemptsKept(rows) ==            \* mutant of AttemptsExpired: not the last attempt
  [j \in Jobs |-> IF rows[j].status = "running" /\ rows[j].lease = "lapsed"
                      /\ rows[j].attempts < MaxAttempts
                  THEN Failed(j, rows[j], "retryable")
                  ELSE rows[j]]

AttemptsExpired(rows) ==
  [j \in Jobs |-> IF rows[j].status = "running" /\ rows[j].lease = "lapsed"
                  THEN Failed(j, rows[j], "retryable")
                  ELSE rows[j]]

\* reconcile_crawler_jobs(true): one transaction of six statements
Reconcile(stale) ==
  LET rows  == Cancelled(FallbacksExpired(job), Jobs)
      final == Cancelled(Requeued(AttemptsExpired(rows), stale), Jobs)
      failed == [b \in Batches |-> IF b \in stale
                                   THEN [batch[b] EXCEPT !.status = "failed"]
                                   ELSE batch[b]]
      busy(b) == \E j \in Jobs : final[j].batch = b /\ final[j].status \in {"batched", "running"}
  IN  /\ \A b \in stale : batch[b].status \in {"pending", "submitted"}
      /\ job' = final
      /\ batch' = [b \in Batches |->
                     IF failed[b].status \in {"submitted", "running"} /\ ~busy(b)
                     THEN [failed[b] EXCEPT !.status = "complete"]
                     ELSE failed[b]]
      /\ UNCHANGED <<start, task, calls, store, run, caller, nudged>>

-----------------------------------------------------------------------------
(* Page runs, the paid fallback, proxy callers                             *)

RunLeased(r, held) ==
  /\ held => ~run[r].ended
  /\ run' = [run EXCEPT ![r].leased = held]
  /\ UNCHANGED <<job, batch, start, task, calls, store, caller, nudged>>

RunEnds(r) ==
  /\ ~run[r].ended
  /\ run' = [run EXCEPT ![r].ended = TRUE]
  /\ UNCHANGED <<job, batch, start, task, calls, store, caller, nudged>>

\* The finalizer of the run cancels what it does not need any more.
CancelJobs(r) ==
  /\ job' = Cancelled(job, {j \in Jobs : Parent[j] = r})
  /\ UNCHANGED <<batch, start, task, calls, store, run, caller, nudged>>

ClaimFallback(j) ==
  /\ Kind[j] = "page"
  /\ ~ParentEnded(j)
  /\ job[j].status = "fallback_required"
  /\ ~job[j].spent
  /\ job[j].lease = "none"
  /\ job' = [job EXCEPT ![j].lease = "live", ![j].spent = TRUE]
  /\ caller' = [caller EXCEPT ![j] = TRUE]
  /\ UNCHANGED <<batch, start, task, calls, store, run, nudged>>

\* The provider answers or fails, and the token decides whether it counts.
FallbackReturns(j, ok) ==
  /\ caller[j]
  /\ caller' = [caller EXCEPT ![j] = FALSE]
  /\ job' = IF job[j].status = "fallback_required" /\ job[j].lease # "none"
            THEN [job EXCEPT ![j] = IF ok THEN Succeeded(job[j], Firecrawl)
                                    ELSE [job[j] EXCEPT !.status = "terminal_failed",
                                                        !.lease = "none"]]
            ELSE job
  /\ UNCHANGED <<batch, start, task, calls, store, run, nudged>>

FallbackDies(j) ==
  /\ caller[j]
  /\ caller' = [caller EXCEPT ![j] = FALSE]
  /\ UNCHANGED <<job, batch, start, task, calls, store, run, nudged>>

\* A proxy caller takes the fallback over, or is gone and swept.
HandOff(j) ==
  /\ Kind[j] = "proxy"
  /\ job[j].status = "fallback_required"
  /\ job[j].lease = "none"
  /\ job' = [job EXCEPT ![j].status = "terminal_failed"]
  /\ UNCHANGED <<batch, start, task, calls, store, run, caller, nudged>>

\* cleanupCrawlerResults: paths first, manifest second.
CleanUp(j) ==
  /\ job[j].status = "succeeded"
  /\ job[j].result # None
  /\ Kind[j] = "proxy" \/ ParentEnded(j)
  /\ store' = store \ {<<j, job[j].result>>}
  /\ job' = [job EXCEPT ![j].result = None]
  /\ UNCHANGED <<batch, start, task, calls, run, caller, nudged>>

-----------------------------------------------------------------------------
DispatchStep ==
  \/ \E b \in Batches :
       \/ CreateBatch(b) \/ Reserve(b) \/ MarkSubmitted(b) \/ ReleaseBatch(b)
       \/ StartRefused(b) \/ DispatcherDies(b)
       \/ \E t \in Tasks : StartAccepted(b, t)
  \/ \E j \in Jobs : Enqueue(j) \/ Nudge(j) \/ FormProxyBatch(j)

TaskStep ==
  \/ \E t \in Tasks :
       \/ Claim(t) \/ Work(t) \/ TaskEnds(t) \/ CutOff(t) \/ Resend(t)
       \/ \E u \in Tasks : Replayed(t, u)
  \/ \E c \in calls :
       \/ ReadJob(c) \/ Accept(c) \/ RejectBundle(c) \/ AcceptUnheard(c)
       \/ ReportFailure(c) \/ CallFails(c)

RecoveryStep ==
  \/ \E j \in Jobs : LeaseLapses(j)
  \/ \E b \in Batches : ReleaseStale(b) \/ RenderEnded(b)
  \/ \E bs \in SUBSET Batches : Reconcile(bs)

CallerStep ==
  \/ \E r \in Runs : RunEnds(r) \/ CancelJobs(r) \/ (\E h \in BOOLEAN : RunLeased(r, h))
  \/ \E j \in Jobs :
       \/ ClaimFallback(j) \/ FallbackDies(j) \/ HandOff(j) \/ CleanUp(j)
       \/ \E ok \in BOOLEAN : FallbackReturns(j, ok)

Next == DispatchStep \/ TaskStep \/ RecoveryStep \/ CallerStep

Spec == Init /\ [][Next]_vars

-----------------------------------------------------------------------------
(* Fairness                                                                *)

UsefulClaim(t) ==
  /\ task[t].phase = "claim"
  /\ batch[task[t].batch].status \in {"pending", "submitted"}
  /\ Claim(t)
  /\ task' # task

UsefulStart(b) == batch[b].status = "pending" /\ \E t \in Tasks : StartAccepted(b, t)

\* The one-minute cron of crawler-dispatch reconciles and forms batches, a
\* lease lapses with time, and crawler-worker answers what it is asked.  The
\* grace periods leave a dispatcher and Render time enough again and again;
\* a task may die at any time.
Fairness ==
  /\ \A b \in Batches :
       /\ SF_vars(Reserve(b)) /\ SF_vars(UsefulStart(b)) /\ WF_vars(MarkSubmitted(b))
       /\ WF_vars(ReleaseBatch(b)) /\ WF_vars(ReleaseStale(b)) /\ WF_vars(RenderEnded(b))
       /\ WF_vars(DispatcherDies(b))
  /\ \A r \in Runs : WF_vars(RunLeased(r, FALSE))
  /\ SF_vars(\E b \in Batches : CreateBatch(b))
  /\ \A bs \in SUBSET Batches : WF_vars(Reconcile(bs))
  /\ \A j \in Jobs : WF_vars(LeaseLapses(j)) /\ WF_vars(FormProxyBatch(j))
  /\ \A t \in Tasks : SF_vars(UsefulClaim(t)) /\ WF_vars(TaskEnds(t))
  /\ WF_vars(\E c \in calls : ReadJob(c) \/ Accept(c) \/ ReportFailure(c) \/ CallFails(c))

FairSpec == Spec /\ Fairness

-----------------------------------------------------------------------------
(* Properties                                                              *)

\* The manifest of a succeeded job names a bundle that is in the bucket, no
\* matter how many executions and callbacks raced for it: completeBatch only
\* deletes bundles that lost.  It needs callbacks that end before they are
\* sent again.
AcceptedBundleKept ==
  \A j \in Jobs :
    job[j].status = "succeeded" /\ job[j].result \notin {None, Firecrawl}
      => <<j, job[j].result>> \in store

\* What a job returns was produced under its last lease: a task whose lease
\* was recovered and given to another attempt can not complete the job.
ResultOfLastAttempt ==
  \A j \in Jobs :
    job[j].result \notin {None, Firecrawl} => job[j].result[1] = job[j].attempts

\* A batched job can still be claimed or released: its batch waits for a
\* task, or the job waits for its cancellation.
NoneStranded ==
  \A j \in Jobs :
    job[j].status = "batched"
      => \/ batch[job[j].batch].status \in {"pending", "submitted"}
         \/ ParentEnded(j)

\* Whatever dies between the enqueue and the callback, the dispatcher brings
\* every job to an end or to its fallback.
JobsSettle == \A j \in Jobs : job[j].status \in Open ~> job[j].status \notin Open

\* What a caller of the ledger may rely on (CrawlerTicket).
TicketState(j) == IF job[j].status \in Open THEN "open"
                  ELSE IF job[j].status = "fallback_required" THEN "delegated"
                  ELSE job[j].status

Ticket == INSTANCE CrawlerTicket WITH
  state    <- [j \in Jobs |-> TicketState(j)],
  attempts <- [j \in Jobs |-> job[j].attempts],
  spent    <- [j \in Jobs |-> job[j].spent]

\* A ticket has at most MaxAttempts attempts and one paid fallback, is answered
\* once, and never again after it is cancelled; a paid call is not cancelled.
TicketKept == Ticket!Spec

=============================================================================
