---------------------------- MODULE PageWorkflow ----------------------------
(***************************************************************************)
(* One run of a Page scout on the workflow backend.  scout-web-execute is   *)
(* invoked for it several times: by the dispatch drain, by crawler-worker   *)
(* when a crawler job of the run has settled, and by crawler-dispatch for   *)
(* runs that wait without reason.  An invocation takes the run's lease,     *)
(* goes as far as the stored crawler results allow, and parks.              *)
(*                                                                         *)
(* An invocation is a process with a program counter.  The crawler jobs are *)
(* those of CrawlerJobs seen from their caller; credits are the usage       *)
(* records of the run's charge and refund keys.                             *)
(***************************************************************************)
EXTENDS Naturals, FiniteSets

CONSTANTS
  Workers,      \* invocations of scout-web-execute that may be alive at once
  None,         \* SQL NULL
  MaxAttempts,  \* limit on the attempts of a queue row
  Overlap       \* an invocation may outlive its lease: it lasts up to 400 s,
                \* the lease 300 s

ASSUME PageAssumption ==
  /\ None \notin Workers
  /\ MaxAttempts \in Nat \ {0}
  /\ Overlap \in BOOLEAN

Stages == {"root", "child"}

VARIABLES
  status,   \* scout_runs.status
  holder,   \* the invocation whose workflow_lease_token the run has
  lapsed,   \* workflow_lease_expires_at has passed
  stale,    \* workflow_progressed_at is older than 30 minutes
  fresh,    \* the scout has no baseline yet
  row,      \* status of the row in scout_dispatch_queue
  attempts, \* its attempts
  call,     \* the drain's HTTP call: <<invocation, what it was answered>>
  job,      \* the crawler jobs of the run, one per stage
  notices,  \* resumes crawler-worker still has to post
  pc,       \* next step of an invocation
  reply,    \* what it will answer
  charges,  \* usage records with the charge key of the run
  refunds,  \* and with its refund key
  alerted   \* the user has had the alert

runVars  == <<status, holder, lapsed, stale, fresh>>
rowVars  == <<row, attempts, call>>
jobVars  == <<job, notices>>
procVars == <<pc, reply>>
bill     == <<charges, refunds, alerted>>
vars == <<runVars, rowVars, jobVars, procVars, bill>>

Statuses == {"running", "success", "error", "skipped"}
Ended    == status # "running"
Steps == {"idle", "check", "claim", "charge", "root", "payroot", "children",
          "paychild", "run", "success", "after", "notify", "park", "error",
          "refund", "final", "close"}
Answers == {"open", "ok", "accepted", "failed"}

\* "paying" and "lost" are fallback_required with a lease, live or lapsed.
JobStates == {"absent", "active", "fallback", "paying", "lost", "ok", "failed",
              "cancelled"}

TypeOK ==
  /\ status \in Statuses
  /\ holder \in Workers \cup {None}
  /\ {lapsed, stale, fresh, alerted} \subseteq BOOLEAN
  /\ row \in {"queued", "leased", "waiting", "done", "failed"}
  /\ attempts \in 0..MaxAttempts
  /\ call \in {None} \cup (Workers \X Answers)
  /\ job \in [Stages -> JobStates]
  /\ notices \in 0..Cardinality(Stages)
  /\ pc \in [Workers -> Steps]
  /\ reply \in [Workers -> Answers]
  /\ charges \in 0..1 /\ refunds \in 0..1

\* enqueue_scout_dispatch has created the run and its row.
Init ==
  /\ status = "running"
  /\ holder = None /\ lapsed = FALSE /\ stale = FALSE
  /\ fresh \in BOOLEAN
  /\ row = "queued" /\ attempts = 0 /\ call = None
  /\ job = [s \in Stages |-> "absent"]
  /\ notices = 0
  /\ pc = [w \in Workers |-> "idle"]
  /\ reply = [w \in Workers |-> "open"]
  /\ charges = 0 /\ refunds = 0 /\ alerted = FALSE

-----------------------------------------------------------------------------
(* The queue row and the drain                                             *)

ActiveRow == row \in {"queued", "leased", "waiting"}

Starts(w) ==
  /\ pc[w] = "idle"
  /\ pc' = [pc EXCEPT ![w] = "check"]
  /\ reply' = [reply EXCEPT ![w] = "open"]

\* claim_scout_dispatch_batch and the request of dispatchClaim; a run that is
\* over by then is mirrored.
ClaimRow(w) ==
  /\ row = "queued"
  /\ IF Ended
     THEN /\ row' = IF status = "error" THEN "failed" ELSE "done"
          /\ UNCHANGED <<attempts, call, procVars>>
     ELSE /\ Starts(w)
          /\ row' = "leased"
          /\ attempts' = attempts + 1
          /\ call' = <<w, "open">>
  /\ UNCHANGED <<runVars, jobVars, bill>>

\* The drain's lease is over: the row is queued again or given up.
RowLapses ==
  /\ row = "leased" /\ call = None
  /\ \A w \in Workers : pc[w] = "idle"
  /\ IF attempts < MaxAttempts \/ Ended
     THEN row' = "queued" /\ UNCHANGED status
     ELSE row' = "failed" /\ status' = "error"
  /\ UNCHANGED <<holder, lapsed, stale, fresh, attempts, call, jobVars,
                 procVars, bill>>

\* dispatchClaim has its answer: park_scout_dispatch for a 202, otherwise
\* finish_scout_dispatch.  The gateway may answer 504 for a worker that goes on.
SettleCall ==
  /\ call # None
  /\ \E answer \in (IF call[2] = "open" THEN {} ELSE {call[2]}) \cup {"failed"} :
       IF row # "leased" THEN UNCHANGED <<row, status>>
       ELSE IF answer = "accepted" THEN row' = "waiting" /\ UNCHANGED status
       ELSE IF answer = "ok" \/ status \in {"success", "skipped"}
            THEN row' = "done" /\ UNCHANGED status
       ELSE /\ row' = "failed"
            /\ status' = IF Ended THEN status ELSE "error"
  /\ call' = None
  /\ UNCHANGED <<holder, lapsed, stale, fresh, attempts, jobVars, procVars, bill>>

DropCall ==
  /\ call # None
  /\ call' = None
  /\ UNCHANGED <<runVars, row, attempts, jobVars, procVars, bill>>

\* finish_waiting_scout_dispatch
FinishWaiting ==
  IF row = "waiting" /\ Ended
  THEN row' = IF status = "error" THEN "failed" ELSE "done"
  ELSE UNCHANGED row

JobsAtWork == \E s \in Stages : job[s] \in {"active", "paying"}

LeaseFree == holder = None \/ lapsed

RefundOnce == refunds' = IF charges > 0 /\ refunds = 0 THEN 1 ELSE refunds

\* mutant of Stalled: asks for the token of the lease and not whether it lives
StalledUnleased == row = "waiting" /\ ~Ended /\ stale /\ holder = None /\ ~JobsAtWork

\* reconcile_waiting_scout_dispatches: mirrors ended runs, and closes and
\* refunds a run whose continuation never came.  (reconcile_stale_scout_runs has
\* nothing to do here: the row is active for as long as the run is running.)
Stalled == row = "waiting" /\ ~Ended /\ stale /\ LeaseFree /\ ~JobsAtWork

ReconcileWaiting ==
  /\ IF Stalled
     THEN /\ status' = "error" /\ holder' = None /\ lapsed' = FALSE
          /\ RefundOnce
          /\ row' = "failed"
     ELSE FinishWaiting /\ UNCHANGED <<status, holder, lapsed, refunds>>
  /\ UNCHANGED <<stale, fresh, attempts, call, jobVars, procVars, charges, alerted>>

\* pending_page_workflow_resumes, and the post of resumePageRuns
PendingResume == row = "waiting" /\ ~Ended /\ LeaseFree /\ ~JobsAtWork

Resume(w) ==
  /\ PendingResume
  /\ Starts(w)
  /\ UNCHANGED <<runVars, rowVars, jobVars, bill>>

\* crawler-worker posts a resume for the job it has just completed, whatever
\* the row is by then; the post may be lost.
ResumeNotified(w) ==
  /\ notices > 0
  /\ notices' = notices - 1
  /\ Starts(w) \/ UNCHANGED procVars
  /\ UNCHANGED <<runVars, rowVars, job, bill>>

-----------------------------------------------------------------------------
(* Crawler jobs, as CrawlerJobs settles them                               *)

JobSettles(s) ==
  /\ job[s] = "active"
  /\ \E new \in {"ok", "failed", "fallback"} \cup (IF Ended THEN {"cancelled"} ELSE {}) :
       job' = [job EXCEPT ![s] = new]
  /\ notices' \in {notices, notices + 1}
  /\ notices' <= Cardinality(Stages)
  /\ UNCHANGED <<runVars, rowVars, procVars, bill>>

\* The lease of a paid call runs out, and reconcile_crawler_jobs closes it.
PaidCallLapses(s) ==
  /\ job[s] \in {"paying", "lost"}
  /\ job' = [job EXCEPT ![s] = IF @ = "paying" THEN "lost" ELSE "failed"]
  /\ UNCHANGED <<runVars, rowVars, notices, procVars, bill>>

\* cancel_terminal_page_crawler_jobs
CancelledJobs ==
  [s \in Stages |-> IF Ended /\ LeaseFree /\ job[s] \in {"active", "fallback"}
                    THEN "cancelled" ELSE job[s]]

-----------------------------------------------------------------------------
(* An invocation of scout-web-execute                                      *)

At(w, step) == pc[w] = step

GoTo(w, step) == pc' = [pc EXCEPT ![w] = step] /\ UNCHANGED reply

\* The answer of a handler is delivered after its finally block.
Ends(w, answer, step) ==
  /\ pc' = [pc EXCEPT ![w] = step]
  /\ reply' = [reply EXCEPT ![w] = answer]

Delivered(w, answer) == IF call # None /\ call[1] = w THEN <<w, answer>> ELSE call

\* An invocation that has no lease returns at once.
Returns(w, answer) ==
  /\ pc' = [pc EXCEPT ![w] = "idle"]
  /\ call' = Delivered(w, answer)
  /\ UNCHANGED <<reply, attempts>>

CheckRun(w) ==
  /\ At(w, "check")
  /\ IF Ended THEN FinishWaiting /\ Returns(w, "ok")
     ELSE GoTo(w, "claim") /\ UNCHANGED rowVars
  /\ UNCHANGED <<runVars, jobVars, bill>>

ClaimAlways(w) ==               \* mutant of ClaimRun: takes a live lease over
  /\ At(w, "claim")
  /\ IF ~Ended
     THEN /\ holder' = w /\ lapsed' = FALSE
          /\ GoTo(w, IF fresh THEN "root" ELSE "charge")
          /\ UNCHANGED rowVars
     ELSE Returns(w, "accepted") /\ UNCHANGED <<holder, lapsed, row>>
  /\ UNCHANGED <<status, stale, fresh, jobVars, bill>>

\* claim_page_workflow_run; without the lease the answer is "workflow_busy".
\* A scout without baseline is scraped first and not charged.
ClaimRun(w) ==
  /\ At(w, "claim")
  /\ IF ~Ended /\ LeaseFree
     THEN /\ holder' = w /\ lapsed' = FALSE
          /\ GoTo(w, IF fresh THEN "root" ELSE "charge")
          /\ UNCHANGED rowVars
     ELSE Returns(w, "accepted") /\ UNCHANGED <<holder, lapsed, row>>
  /\ UNCHANGED <<status, stale, fresh, jobVars, bill>>

ChargePlainly(w) ==             \* mutant of Charge: decrement_credits without key
  /\ At(w, "charge")
  /\ \/ charges' = charges + 1 /\ GoTo(w, "root") /\ UNCHANGED status
     \/ status' = "skipped" /\ Ends(w, "failed", "final") /\ UNCHANGED charges
     \/ /\ status' = "error" /\ Ends(w, "failed", "final")
        /\ charges' \in {charges, charges + 1}
  /\ UNCHANGED <<holder, lapsed, stale, fresh, rowVars, jobVars, refunds, alerted>>

\* decrement_credits_once; a first charge may find too few credits.  When the
\* call fails otherwise it may have charged, and nothing is refunded.
Charge(w) ==
  /\ At(w, "charge")
  /\ \/ charges' = 1 /\ GoTo(w, "root") /\ UNCHANGED status
     \/ /\ charges = 0
        /\ status' = "skipped" /\ Ends(w, "failed", "final") /\ UNCHANGED charges
     \/ status' = "error" /\ Ends(w, "failed", "final") /\ charges' \in {charges, 1}
  /\ UNCHANGED <<holder, lapsed, stale, fresh, rowVars, jobVars, refunds, alerted>>

\* enqueue_crawler_job: the first call creates the job, host policy may route
\* it to the fallback at once.
Enqueued(s) == IF job[s] = "absent" THEN {"active", "fallback"} ELSE {job[s]}

\* claim_page_crawler_fallback, inside the admission window of the invocation
Pay(w, s, step) ==
  /\ ~Ended
  /\ job' = [job EXCEPT ![s] = "paying"]
  /\ GoTo(w, step)

ScrapeRoot(w) ==
  /\ At(w, "root")
  /\ \E now \in Enqueued("root") :
       \/ /\ now = "fallback"
          /\ Pay(w, "root", "payroot")
       \/ /\ job' = [job EXCEPT !["root"] = now]
          /\ GoTo(w, CASE now \in {"active", "fallback", "paying", "lost"} -> "park"
                       [] now = "ok" -> IF fresh THEN "success" ELSE "children"
                       [] OTHER -> "error")
  /\ fresh' = (fresh /\ job'["root"] # "ok")
  /\ UNCHANGED <<status, holder, lapsed, stale, rowVars, notices, bill>>

\* The provider answers; complete_crawler_fallback accepts the token or not.
PayRoot(w) ==
  /\ At(w, "payroot")
  /\ \E ok \in BOOLEAN :
       IF job["root"] \in {"paying", "lost"}
       THEN /\ job' = [job EXCEPT !["root"] = IF ok THEN "ok" ELSE "failed"]
            /\ GoTo(w, IF ok THEN "park" ELSE "error")
       ELSE UNCHANGED job /\ GoTo(w, "error")
  /\ UNCHANGED <<runVars, rowVars, notices, bill>>

\* prepareChildren: a page may have no child to look at.
PrepareChildren(w) ==
  /\ At(w, "children")
  /\ \/ job["child"] = "absent" /\ UNCHANGED job /\ GoTo(w, "run")
     \/ \E now \in Enqueued("child") :
          \/ /\ now = "fallback"
             /\ Pay(w, "child", "paychild")
          \/ /\ job' = [job EXCEPT !["child"] = now]
             /\ GoTo(w, IF now \in {"active", "fallback", "paying", "lost"}
                        THEN "park" ELSE "run")
  /\ UNCHANGED <<runVars, rowVars, notices, bill>>

\* A provider failure is a failure of this child only.
PayChild(w) ==
  /\ At(w, "paychild")
  /\ IF job["child"] \in {"paying", "lost"}
     THEN /\ \E new \in {"ok", "failed"} : job' = [job EXCEPT !["child"] = new]
          /\ GoTo(w, "park")
     ELSE UNCHANGED job /\ GoTo(w, "error")
  /\ UNCHANGED <<runVars, rowVars, notices, bill>>

\* Change detection, extraction and storage of units; any of it may throw.
RunPipeline(w) ==
  /\ At(w, "run")
  /\ \E step \in {"success", "error"} : GoTo(w, step)
  /\ UNCHANGED <<runVars, rowVars, jobVars, bill>>

\* markRunSuccess by run id.  The initialisation of a baseline, which is not
\* charged, has nothing more to do.
MarkSuccess(w) ==
  /\ At(w, "success")
  /\ status' = "success"
  /\ IF charges = 0 THEN Ends(w, "ok", "final") ELSE GoTo(w, "after")
  /\ UNCHANGED <<holder, lapsed, stale, fresh, rowVars, jobVars, bill>>

NotifyFirst(w) ==               \* mutant of PersistCandidates: the alert goes first
  /\ At(w, "after")
  /\ alerted' = TRUE
  /\ \E step \in {"notify", "error"} : GoTo(w, step)
  /\ UNCHANGED <<runVars, rowVars, jobVars, charges, refunds>>

\* Candidates are stored after the success and may throw.
PersistCandidates(w) ==
  /\ At(w, "after")
  /\ \E step \in {"notify", "error"} : GoTo(w, step)
  /\ UNCHANGED <<runVars, rowVars, jobVars, bill>>

\* sendPageScoutAlert if there is something to tell; it never throws.
Notify(w) ==
  /\ At(w, "notify")
  /\ alerted' \in {alerted, TRUE}
  /\ Ends(w, "ok", "final")
  /\ UNCHANGED <<runVars, rowVars, jobVars, charges, refunds>>

\* set_page_workflow_stage: accepts the token of the lease.
ReleasesLease(w) == holder = w /\ status \in {"running", "success"}

Park(w) ==
  /\ At(w, "park")
  /\ IF ReleasesLease(w)
     THEN holder' = None /\ lapsed' = FALSE /\ stale' = FALSE
     ELSE UNCHANGED <<holder, lapsed, stale>>
  /\ Ends(w, IF ReleasesLease(w) THEN "accepted" ELSE "failed", "final")
  /\ UNCHANGED <<status, fresh, rowVars, jobVars, bill>>

\* The catch block: markRunError by run id, then the failure is recorded, and
\* if that works the charge is refunded.
MarkError(w) ==
  /\ At(w, "error")
  /\ status' = "error"
  /\ \E step \in {"refund", "final"} : Ends(w, "failed", step)
  /\ UNCHANGED <<holder, lapsed, stale, fresh, rowVars, jobVars, bill>>

Refund(w) ==
  /\ At(w, "refund")
  /\ RefundOnce
  /\ GoTo(w, "final")
  /\ UNCHANGED <<runVars, rowVars, jobVars, charges, alerted>>

\* The finally block: what a terminal run leaves behind is cleaned up.
Finalize(w) ==
  /\ At(w, "final")
  /\ IF Ended
     THEN /\ IF ReleasesLease(w)
             THEN holder' = None /\ lapsed' = FALSE /\ stale' = FALSE
             ELSE UNCHANGED <<holder, lapsed, stale>>
          /\ GoTo(w, "close")
          /\ UNCHANGED rowVars
     ELSE Returns(w, reply[w]) /\ UNCHANGED <<holder, lapsed, stale, row>>
  /\ UNCHANGED <<status, fresh, jobVars, bill>>

Close(w) ==
  /\ At(w, "close")
  /\ job' = CancelledJobs
  /\ FinishWaiting
  /\ Returns(w, reply[w])
  /\ UNCHANGED <<runVars, notices, bill>>

WorkerDies(w) ==
  /\ pc[w] # "idle"
  /\ pc' = [pc EXCEPT ![w] = "idle"]
  /\ call' = Delivered(w, "failed")
  /\ UNCHANGED <<runVars, row, attempts, jobVars, reply, bill>>

-----------------------------------------------------------------------------
(* Time                                                                    *)

Holding(w) == pc[w] \notin {"idle", "check", "claim"}

LeaseLapses ==
  /\ holder # None /\ ~lapsed
  /\ Overlap \/ ~Holding(holder)
  /\ lapsed' = TRUE
  /\ UNCHANGED <<status, holder, stale, fresh, rowVars, jobVars, procVars, bill>>

GrowsStale ==
  /\ ~stale
  /\ stale' = TRUE
  /\ UNCHANGED <<status, holder, lapsed, fresh, rowVars, jobVars, procVars, bill>>

-----------------------------------------------------------------------------
QueueStep ==
  \/ RowLapses \/ SettleCall \/ DropCall \/ ReconcileWaiting
  \/ \E w \in Workers : ClaimRow(w) \/ Resume(w) \/ ResumeNotified(w)

JobStep == \E s \in Stages : JobSettles(s) \/ PaidCallLapses(s)

Advance(w) ==
  \/ CheckRun(w) \/ ClaimRun(w) \/ Charge(w) \/ ScrapeRoot(w) \/ PayRoot(w)
  \/ PrepareChildren(w) \/ PayChild(w) \/ RunPipeline(w) \/ MarkSuccess(w)
  \/ PersistCandidates(w) \/ Notify(w) \/ Park(w) \/ MarkError(w) \/ Refund(w)
  \/ Finalize(w) \/ Close(w)

Next ==
  \/ QueueStep \/ JobStep \/ LeaseLapses \/ GrowsStale
  \/ \E w \in Workers : Advance(w) \/ WorkerDies(w)

Spec == Init /\ [][Next]_vars

\* pg_cron drives the drain and both reconcilers; crawler jobs settle
\* (CrawlerJobs!JobsSettle); an invocation goes on or is killed.  No resume is
\* assumed to arrive and no invocation to succeed.  Strong fairness: crawler-dispatch
\* calls the reconciler before it posts resumes; and not every invocation is too
\* slow to reach a paid call in time.
Fairness ==
  /\ WF_vars(\E w \in Workers : ClaimRow(w))
  /\ WF_vars(RowLapses) /\ WF_vars(SettleCall \/ DropCall)
  /\ SF_vars(ReconcileWaiting)
  /\ WF_vars(LeaseLapses) /\ WF_vars(GrowsStale)
  /\ \A s \in Stages : WF_vars(JobSettles(s)) /\ WF_vars(PaidCallLapses(s))
  /\ \A w \in Workers : WF_vars(Advance(w) \/ WorkerDies(w))
  /\ SF_vars(\E w \in Workers : ScrapeRoot(w) /\ pc'[w] # "park")
  /\ SF_vars(\E w \in Workers : PrepareChildren(w) /\ pc'[w] # "park")

LiveSpec == Spec /\ Fairness

-----------------------------------------------------------------------------
(* Properties                                                              *)

\* However often the run is delivered, resumed and reconciled, it is charged
\* once, refunded once, and never refunded without a charge.
BilledOnce == charges <= 1 /\ refunds <= charges

\* Nobody works on the run any more, and nobody will: it is over.
Quiet == Ended /\ call = None /\ \A w \in Workers : pc[w] = "idle"

\* A success has been paid for, unless it only stored the first baseline: no
\* reconciler or failing invocation has given its credits back.  It needs
\* invocations that end within their lease.
SuccessIsPaid == Quiet /\ status = "success" => refunds = 0

\* The user is alerted only of a run that is and stays a success.  It needs
\* invocations that end within their lease.
AlertedOfSuccess == alerted => status = "success"

\* The row of the run is closed and the run is over, sooner or later, though
\* invocations die, resumes are lost and the drain parks after the resume.
RunCloses == <>[](Ended /\ ~ActiveRow)
=============================================================================
