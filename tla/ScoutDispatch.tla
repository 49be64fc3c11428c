--------------------------- MODULE ScoutDispatch ---------------------------
(***************************************************************************)
(* The dispatch queue of Page (web), Beat and Civic scouts: the tables     *)
(* scouts, scout_runs and scout_dispatch_queue, the SQL functions that     *)
(* change them, the drain that leases rows and calls workers, and the      *)
(* three workers, each of which writes the run row on its own.             *)
(*                                                                         *)
(* A SQL function is one action: it is one transaction, and the two that   *)
(* race with themselves (enqueue and claim) take an advisory lock.  An     *)
(* edge function is a process with a program counter: every database call  *)
(* it awaits is an action of its own, and it may be killed between two.    *)
(*                                                                         *)
(* Time is three per-row flags that only the clock sets: a lease that has  *)
(* expired, a scheduled_for that has come, a started_at older than the     *)
(* reconcilers' grace.                                                     *)
(***************************************************************************)
EXTENDS Integers, FiniteSets

CONSTANTS
  Scouts,       \* rows of public.scouts
  Runs,         \* the run ids that may be created: the bound of the model
  Workers,      \* drain invocations that may be alive at the same time
  None,         \* SQL NULL
  ScoutOf,      \* the scout a run id belongs to
  TypeOf,       \* scouts.type
  Capacity,     \* SCOUT_DISPATCH_CONCURRENCY
  MaxAttempts,  \* SCOUT_DISPATCH_MAX_ATTEMPTS
  Threshold,    \* p_threshold of increment_scout_failures
  Outlive       \* may a call or worker outlive its lease?  FALSE where the
                \* runtime kills both before (400 s hosted, lease 900 s)

Types == {"web", "beat", "civic"}

ASSUME ConstantsAssumption ==
  /\ ScoutOf \in [Runs -> Scouts]
  /\ TypeOf \in [Scouts -> Types]
  /\ Capacity \in Nat \ {0}
  /\ MaxAttempts \in Nat \ {0}
  /\ Threshold \in Nat \ {0}
  /\ None \notin Runs
  /\ None \notin Workers
  /\ Outlive \in BOOLEAN

\* Only needed to count leases: the table is finite at every moment.
ASSUME RunsFinite == IsFiniteSet(Runs)

VARIABLES
  isActive,     \* scouts.is_active
  failures,     \* scouts.consecutive_failures
  mails,        \* deactivation mails handed to the mailer, per scout (history)
  runStatus,    \* scout_runs.status; "absent": the row does not exist yet
  runSource,    \* scout_runs.metadata.dispatch_source
  retryOf,      \* scout_runs.metadata.deferred_retry_of
  aged,         \* scout_runs.started_at is older than the reconcilers' grace
  sealed,       \* scout_runs.civic_dispatch_complete
  deferred,     \* runs whose failure was deferred, not counted (history)
  qStatus,      \* scout_dispatch_queue.status; "none": the run has no row
  attempts,     \* scout_dispatch_queue.attempts
  leaseOwner,   \* scout_dispatch_queue.lease_owner
  leaseExpired, \* scout_dispatch_queue.lease_expires_at <= now()
  due,          \* scout_dispatch_queue.scheduled_for <= now()
  posted,       \* manual runs whose execute-scout request is still in pg_net
  caller,       \* the drain that holds the n-th claim of a run
  call,         \* that drain's HTTP call to the worker, and what it answered
  exec,         \* the worker invocation behind the n-th claim of a run
  docsOpen,     \* runs with a pending or processing civic_extraction_queue row
  extractor     \* what a civic-extract-worker still has to write about a run

scoutVars == <<isActive, failures, mails>>
runVars   == <<runStatus, runSource, retryOf, aged, sealed, deferred>>
queueVars == <<qStatus, attempts, leaseOwner, leaseExpired, due>>
procVars  == <<posted, caller, call, exec>>
docVars   == <<docsOpen, extractor>>
vars      == <<scoutVars, runVars, queueVars, procVars, docVars>>

RunStatuses == {"absent", "running", "success", "error", "skipped"}
Sources     == {"none", "scheduled", "manual", "deferred_retry"}
RowStatuses == {"none", "queued", "leased", "waiting", "done", "failed"}
\* "open": the fetch has not answered.  "counting": finish_scout_dispatch was
\* called after a network error and increment_scout_failures is next.
Calls == {"none", "open", "ok", "accepted", "failed", "unreachable",
          "counting", "settled"}
\* "accepted": a Beat run answered 202 and still has to resolve its run row.
\* "succeeded": success is written, the failure counter is not reset yet.
\* "queuing", "queued": a Civic run that has queued its first document, or
\* MAX_DOCS_PER_RUN = 2.  "dispatched", "empty": it reset the counter after
\* queuing some, or none.
\* "deferrable"/"countable": the error is written, its accounting is not.
Execs == {"none", "accepted", "running", "succeeded", "queuing", "queued",
          "dispatched", "empty", "deferrable", "countable", "done"}
\* "failing": its document was the last one open and failed; the run is next.
Extractors == {"idle", "failing", "deferrable", "countable"}
Attempts == 1..MaxAttempts

ScoutsTyped ==
  /\ isActive \in [Scouts -> BOOLEAN]
  /\ failures \in [Scouts -> Nat]
  /\ mails \in [Scouts -> Nat]

RunsTyped ==
  /\ runStatus \in [Runs -> RunStatuses]
  /\ runSource \in [Runs -> Sources]
  /\ retryOf \in [Runs -> Runs \cup {None}]
  /\ aged \in [Runs -> BOOLEAN]
  /\ sealed \in [Runs -> BOOLEAN]
  /\ deferred \in SUBSET Runs

QueueTyped ==
  /\ qStatus \in [Runs -> RowStatuses]
  /\ attempts \in [Runs -> 0..MaxAttempts]
  /\ leaseOwner \in [Runs -> Workers \cup {None}]
  /\ leaseExpired \in [Runs -> BOOLEAN]
  /\ due \in [Runs -> BOOLEAN]

ProcsTyped ==
  /\ posted \in SUBSET Runs
  /\ caller \in [Runs -> [Attempts -> Workers \cup {None}]]
  /\ call \in [Runs -> [Attempts -> Calls]]
  /\ exec \in [Runs -> [Attempts -> Execs]]

DocsTyped ==
  /\ docsOpen \in SUBSET Runs
  /\ extractor \in [Runs -> Extractors]

\* Every column keeps its domain; attempts stay within the configured limit.
TypeOK == ScoutsTyped /\ RunsTyped /\ QueueTyped /\ ProcsTyped /\ DocsTyped

Init ==
  /\ isActive = [s \in Scouts |-> TRUE]
  /\ failures = [s \in Scouts |-> 0]
  /\ mails = [s \in Scouts |-> 0]
  /\ runStatus = [r \in Runs |-> "absent"]
  /\ runSource = [r \in Runs |-> "none"]
  /\ retryOf = [r \in Runs |-> None]
  /\ aged = [r \in Runs |-> FALSE]
  /\ sealed = [r \in Runs |-> TRUE]
  /\ deferred = {}
  /\ qStatus = [r \in Runs |-> "none"]
  /\ attempts = [r \in Runs |-> 0]
  /\ leaseOwner = [r \in Runs |-> None]
  /\ leaseExpired = [r \in Runs |-> FALSE]
  /\ due = [r \in Runs |-> FALSE]
  /\ posted = {}
  /\ caller = [r \in Runs |-> [a \in Attempts |-> None]]
  /\ call = [r \in Runs |-> [a \in Attempts |-> "none"]]
  /\ exec = [r \in Runs |-> [a \in Attempts |-> "none"]]
  /\ docsOpen = {}
  /\ extractor = [r \in Runs |-> "idle"]

-----------------------------------------------------------------------------
(* Runs and rows                                                           *)

Terminal(r) == runStatus[r] \in {"success", "error", "skipped"}
Active(r)   == qStatus[r] \in {"queued", "leased", "waiting"}
RunsOf(s)   == {r \in Runs : ScoutOf[r] = s}
BusyUnlessWaiting(s) ==    \* mutant of Busy: the index before 00114
  \E r \in RunsOf(s) : qStatus[r] \in {"queued", "leased"}
Busy(s)     == \E r \in RunsOf(s) : Active(r)
Fresh(s)    == {r \in RunsOf(s) : runStatus[r] = "absent"}
RunType(r)  == TypeOf[ScoutOf[r]]

SetRun(r, status) == runStatus' = [runStatus EXCEPT ![r] = status]

ClosedAsDone(r) == "done"  \* mutant of ClosedStatus: forgets the outcome
\* How a row mirrors the run it belongs to once that run is terminal.
ClosedStatus(r) == IF runStatus[r] = "error" THEN "failed" ELSE "done"

InsertRow(r, now) ==
  /\ qStatus' = [qStatus EXCEPT ![r] = "queued"]
  /\ due' = [due EXCEPT ![r] = now]
  /\ UNCHANGED <<attempts, leaseOwner, leaseExpired>>

CloseRow(r, status) ==
  /\ qStatus' = [qStatus EXCEPT ![r] = status]
  /\ leaseOwner' = [leaseOwner EXCEPT ![r] = None]
  /\ leaseExpired' = [leaseExpired EXCEPT ![r] = FALSE]
  /\ UNCHANGED <<attempts, due>>

-----------------------------------------------------------------------------
(* Where runs come from                                                    *)

\* pg_cron posts to execute-scout without a run id: enqueue_scout_dispatch
\* creates the run and its row, or coalesces with the active one (no change).
EnqueueScheduled(s) ==
  /\ isActive[s]
  /\ ~Busy(s)
  /\ \E r \in Fresh(s) :
       /\ SetRun(r, "running")
       /\ runSource' = [runSource EXCEPT ![r] = "scheduled"]
       /\ InsertRow(r, TRUE)
  /\ UNCHANGED <<scoutVars, retryOf, aged, sealed, deferred, procVars,
                 docVars>>

\* Run Now inserts the run first and posts to execute-scout through pg_net.
TriggerScoutRun(s) ==
  /\ isActive[s]
  /\ \E r \in Fresh(s) :
       /\ SetRun(r, "running")
       /\ posted' = posted \cup {r}
  /\ UNCHANGED <<scoutVars, runSource, retryOf, aged, sealed, deferred,
                 queueVars, caller, call, exec, docVars>>

\* The request arrives: the supplied run is queued, or skipped because its
\* scout already has an active row, or any exception marks it "error".
ExecuteScout(r) ==
  LET s == ScoutOf[r] IN
  /\ r \in posted
  /\ posted' = posted \ {r}
  /\ \/ /\ ~isActive[s] \/ (~Busy(s) /\ runStatus[r] # "running")
        /\ SetRun(r, "error")
        /\ UNCHANGED <<runSource, queueVars>>
     \/ /\ isActive[s] /\ Busy(s)
        /\ SetRun(r, IF runStatus[r] = "running" THEN "skipped"
                     ELSE runStatus[r])
        /\ UNCHANGED <<runSource, queueVars>>
     \/ /\ isActive[s] /\ ~Busy(s) /\ runStatus[r] = "running"
        /\ runSource' = [runSource EXCEPT ![r] = "manual"]
        /\ InsertRow(r, TRUE)
        /\ UNCHANGED runStatus
  /\ UNCHANGED <<scoutVars, retryOf, aged, sealed, deferred, caller, call,
                 exec, docVars>>

\* pg_net delivers at most once.
LosePost(r) ==
  /\ r \in posted
  /\ posted' = posted \ {r}
  /\ UNCHANGED <<scoutVars, runVars, queueVars, caller, call, exec, docVars>>

PauseScout(s) ==
  /\ isActive[s]
  /\ isActive' = [isActive EXCEPT ![s] = FALSE]
  /\ UNCHANGED <<failures, mails, runVars, queueVars, procVars, docVars>>

\* Resuming does not reset consecutive_failures.
ResumeScout(s) ==
  /\ ~isActive[s]
  /\ isActive' = [isActive EXCEPT ![s] = TRUE]
  /\ UNCHANGED <<failures, mails, runVars, queueVars, procVars, docVars>>

-----------------------------------------------------------------------------
(* The drain                                                               *)

WaveIgnored(w) == TRUE     \* mutant of WaveSettled: claim before settling
\* The wave of a drain is settled: Promise.allSettled lets it claim again.
WaveSettled(w) ==
  \A r \in Runs, a \in Attempts : caller[r][a] # w

Mirrored  == {r \in Runs : qStatus[r] \in {"queued", "leased"} /\ Terminal(r)}
Lapsed    == {r \in Runs : qStatus[r] = "leased" /\ leaseExpired[r]
                           /\ ~Terminal(r)}
\* mutant of Exhausted: off by one
ExhaustedLate == {r \in Lapsed : attempts[r] > MaxAttempts}
Exhausted == {r \in Lapsed : attempts[r] >= MaxAttempts}
Requeued  == Lapsed \ Exhausted
Held      == {r \in Runs : qStatus[r] = "leased" /\ ~leaseExpired[r]
                           /\ ~Terminal(r)}
Eligible  == {r \in Runs : qStatus[r] = "queued" /\ due[r] /\ ~Terminal(r)}
             \cup Requeued
Priority(r) == IF runSource[r] = "manual" THEN 100 ELSE 0

\* mutant of Candidates: LIMIT v_limit
CandidatesUpTo(limit) == {C \in SUBSET Eligible : Cardinality(C) <= limit}

\* ORDER BY priority DESC ... LIMIT LEAST(limit, available); rows of equal
\* priority are taken in any order.
Candidates(limit) ==
  {C \in SUBSET Eligible :
     /\ Cardinality(C) <= limit
     /\ Cardinality(C) + Cardinality(Held) <= Capacity
     /\ \/ C = Eligible
        \/ Cardinality(C) = limit
        \/ Cardinality(C) + Cardinality(Held) = Capacity
     /\ \A c \in C, e \in Eligible \ C : Priority(e) <= Priority(c)}

\* Mirror terminal runs, requeue or exhaust lapsed leases, lease the rows of C.
Lease(w, C) ==
  /\ qStatus' = [r \in Runs |->
       IF r \in C THEN "leased"
       ELSE IF r \in Mirrored THEN ClosedStatus(r)
       ELSE IF r \in Exhausted THEN "failed"
       ELSE IF r \in Requeued THEN "queued" ELSE qStatus[r]]
  /\ attempts' = [r \in Runs |->
       IF r \in C THEN attempts[r] + 1 ELSE attempts[r]]
  /\ leaseOwner' = [r \in Runs |->
       IF r \in C THEN w
       ELSE IF r \in Mirrored \cup Lapsed THEN None ELSE leaseOwner[r]]
  /\ leaseExpired' = [r \in Runs |->
       leaseExpired[r] /\ r \notin C \cup Mirrored \cup Lapsed]
  /\ due' = [r \in Runs |-> due[r] \/ r \in Requeued]

\* claim_scout_dispatch_batch, under the capacity lock.  The caller's limit is
\* what remains of its launch ceiling, up to Capacity.
Claim(w) ==
  /\ WaveSettled(w)
  /\ \E limit \in 1..Capacity : \E C \in Candidates(limit) :
       /\ Lease(w, C)
       /\ caller' = [r \in Runs |-> [a \in Attempts |->
            IF r \in C /\ a = attempts[r] + 1 THEN w ELSE caller[r][a]]]
       /\ call' = [r \in Runs |-> [a \in Attempts |->
            IF r \in C /\ a = attempts[r] + 1 THEN "open" ELSE call[r][a]]]
  /\ runStatus' = [r \in Runs |->
       IF r \in Exhausted THEN "error" ELSE runStatus[r]]
  /\ UNCHANGED <<scoutVars, runSource, retryOf, aged, sealed, deferred,
                 posted, exec, docVars>>

\* The fetch of a claim fails on its own: the gateway answers 504 or 503 while
\* the worker may go on, or the connection breaks.
CallFails(r, a) ==
  /\ call[r][a] = "open"
  /\ \E answer \in {"failed", "unreachable"} :
       call' = [call EXCEPT ![r][a] = answer]
  /\ UNCHANGED <<scoutVars, runVars, queueVars, posted, caller, exec, docVars>>

\* finish_scout_dispatch and park_scout_dispatch accept only the lease owner.
OwnsLease(r, a) == qStatus[r] = "leased" /\ leaseOwner[r] = caller[r][a]

Settle(r, a) ==
  /\ call' = [call EXCEPT ![r][a] = "settled"]
  /\ caller' = [caller EXCEPT ![r][a] = None]

FinishRow(r, success) ==
  IF success \/ runStatus[r] \in {"success", "skipped"}
  THEN CloseRow(r, "done") /\ UNCHANGED runStatus
  ELSE /\ CloseRow(r, "failed")
       /\ SetRun(r, IF runStatus[r] = "running" THEN "error"
                    ELSE runStatus[r])

\* After a network error the drain also counts the failure: "counting".
FinishDispatch(r, a) ==
  /\ call[r][a] \in {"ok", "failed", "unreachable"}
  /\ IF OwnsLease(r, a) THEN FinishRow(r, call[r][a] = "ok")
     ELSE UNCHANGED <<queueVars, runStatus>>
  /\ IF call[r][a] = "unreachable"
     THEN call' = [call EXCEPT ![r][a] = "counting"] /\ UNCHANGED caller
     ELSE Settle(r, a)
  /\ UNCHANGED <<scoutVars, runSource, retryOf, aged, sealed, deferred,
                 posted, exec, docVars>>

ParkDispatch(r, a) ==
  /\ call[r][a] = "accepted"
  /\ IF OwnsLease(r, a) THEN CloseRow(r, "waiting") ELSE UNCHANGED queueVars
  /\ Settle(r, a)
  /\ UNCHANGED <<scoutVars, runVars, posted, exec, docVars>>

\* increment_scout_failures: one more failure, pause at the threshold.
IncrementFailures(s) ==
  /\ failures' = [failures EXCEPT ![s] = @ + 1]
  /\ isActive' = [isActive EXCEPT ![s] = @ /\ failures[s] + 1 < Threshold]

\* The drain calls the RPC itself, so no mail goes out on this path.
CountUnreachable(r, a) ==
  /\ call[r][a] = "counting"
  /\ IncrementFailures(ScoutOf[r])
  /\ Settle(r, a)
  /\ UNCHANGED <<mails, runVars, queueVars, posted, exec, docVars>>

\* The drain is killed, or its RPC fails: nothing is written for this claim.
DropCall(r, a) ==
  /\ call[r][a] \notin {"none", "settled"}
  /\ Settle(r, a)
  /\ UNCHANGED <<scoutVars, runVars, queueVars, posted, exec, docVars>>

-----------------------------------------------------------------------------
(* The workers.  A worker answers its drain when the fetch is still open;  *)
(* after a gateway timeout it runs on and answers nobody.                  *)

Answered(r, a, answer) ==
  IF call[r][a] = "open" THEN [call EXCEPT ![r][a] = answer] ELSE call

GoTo(r, a, pc) == exec' = [exec EXCEPT ![r][a] = pc]

Reply(r, a, answer) ==
  /\ call' = Answered(r, a, answer)
  /\ GoTo(r, a, "done")

Starts(r, a, type) ==
  /\ RunType(r) = type
  /\ call[r][a] = "open"
  /\ exec[r][a] = "none"

\* scout-web-execute reads the status first and leaves a terminal run alone.
StartPage(r, a) ==
  /\ Starts(r, a, "web")
  /\ IF runStatus[r] = "running"
     THEN GoTo(r, a, "running") /\ UNCHANGED call
     ELSE Reply(r, a, "ok")
  /\ UNCHANGED <<scoutVars, runVars, queueVars, posted, caller, docVars>>

\* scout-beat-execute answers 202 and goes on under EdgeRuntime.waitUntil.
AcceptBeat(r, a) ==
  /\ Starts(r, a, "beat")
  /\ call' = Answered(r, a, "accepted")
  /\ GoTo(r, a, "accepted")
  /\ UNCHANGED <<scoutVars, runVars, queueVars, posted, caller, docVars>>

\* resolveRun of scout-beat-execute: the update names only the run id.
ResolveBeat(r, a) ==
  /\ exec[r][a] = "accepted"
  /\ SetRun(r, "running")
  /\ aged' = [aged EXCEPT ![r] = FALSE]
  /\ GoTo(r, a, "running")
  /\ UNCHANGED <<scoutVars, runSource, retryOf, sealed, deferred, queueVars,
                 posted, caller, call, docVars>>

\* A throw before the pipeline: close the run only when it is still open.
BeatBackgroundFails(r, a) ==
  /\ exec[r][a] = "accepted"
  /\ SetRun(r, IF Terminal(r) THEN runStatus[r] ELSE "error")
  /\ GoTo(r, a, "done")
  /\ UNCHANGED <<scoutVars, runSource, retryOf, aged, sealed, deferred,
                 queueVars, posted, caller, call, docVars>>

\* resolveRun of civic-execute, which also reopens the alert ledger.
StartCivic(r, a) ==
  /\ Starts(r, a, "civic")
  /\ SetRun(r, "running")
  /\ aged' = [aged EXCEPT ![r] = FALSE]
  /\ sealed' = [sealed EXCEPT ![r] = FALSE]
  /\ GoTo(r, a, "running")
  /\ UNCHANGED <<scoutVars, runSource, retryOf, deferred, queueVars, posted,
                 caller, call, docVars>>

\* markRunSuccess writes by run id, whatever the status is by then.
MarkSuccess(r, a) ==
  /\ RunType(r) \in {"web", "beat"}
  /\ exec[r][a] = "running"
  /\ SetRun(r, "success")
  /\ GoTo(r, a, "succeeded")
  /\ UNCHANGED <<scoutVars, runSource, retryOf, aged, sealed, deferred,
                 queueVars, posted, caller, call, docVars>>

\* reset_scout_failures: after the success of a Page or Beat run, before the
\* end of the dispatch of a Civic run.
ResetFailures(r, a) ==
  /\ \/ exec[r][a] = "succeeded" /\ Reply(r, a, "ok")
     \/ /\ RunType(r) = "civic" /\ UNCHANGED call
        /\ \/ exec[r][a] = "running" /\ GoTo(r, a, "empty")
           \/ exec[r][a] \in {"queuing", "queued"} /\ GoTo(r, a, "dispatched")
  /\ failures' = [failures EXCEPT ![ScoutOf[r]] = 0]
  /\ UNCHANGED <<isActive, mails, runVars, queueVars, posted, caller, docVars>>

\* enqueueCivicDocument.  The extract worker may take it up at once.
QueueDocument(r, a) ==
  /\ RunType(r) = "civic"
  /\ \/ exec[r][a] = "running" /\ GoTo(r, a, "queuing")
     \/ exec[r][a] = "queuing" /\ GoTo(r, a, "queued")
  /\ docsOpen' = docsOpen \cup {r}
  /\ UNCHANGED <<scoutVars, runVars, queueVars, posted, caller, call,
                 extractor>>

\* A Civic invocation that queued no document writes the success itself.
CompleteEmpty(r, a) ==
  /\ exec[r][a] = "empty"
  /\ SetRun(r, "success")
  /\ Reply(r, a, "ok")
  /\ UNCHANGED <<scoutVars, runSource, retryOf, aged, sealed, deferred,
                 queueVars, posted, caller, docVars>>

\* The run ends well, or with the failed documents it is left with.
SettleRun(r) == \E status \in {"success", "error"} : SetRun(r, status)

\* complete_civic_dispatch: settles the run when no document is open.
CompleteDispatch(r, a) ==
  /\ exec[r][a] = "dispatched"
  /\ sealed' = [sealed EXCEPT ![r] = TRUE]
  /\ IF r \in docsOpen THEN UNCHANGED runStatus ELSE SettleRun(r)
  /\ Reply(r, a, "ok")
  /\ UNCHANGED <<scoutVars, runSource, retryOf, aged, deferred, queueVars,
                 posted, caller, docVars>>

\* Not enough credits, or every Civic url is gone: no failure is recorded.
SkipRun(r, a) ==
  /\ exec[r][a] = "running"
  /\ SetRun(r, "skipped")
  /\ \E answer \in {"failed"} \cup
          (IF RunType(r) = "civic" THEN {"ok"} ELSE {}) : Reply(r, a, answer)
  /\ UNCHANGED <<scoutVars, runSource, retryOf, aged, sealed, deferred,
                 queueVars, posted, caller, docVars>>

\* The catch block: markRunError by run id, then recordScoutRunFailure.  A
\* Page run may throw after its success; classes that do not count answer now.
Fail(r, a) ==
  /\ exec[r][a] \in {"running", "queuing", "queued", "empty", "dispatched"}
       \cup (IF RunType(r) = "web" THEN {"succeeded"} ELSE {})
  /\ SetRun(r, "error")
  /\ \/ /\ \E pc \in {"deferrable", "countable"} : GoTo(r, a, pc)
        /\ UNCHANGED call
     \/ Reply(r, a, "failed")
  /\ UNCHANGED <<scoutVars, runSource, retryOf, aged, sealed, deferred,
                 queueVars, posted, caller, docVars>>

\* incrementAndMaybeNotify: the mail goes out whenever the row that comes back
\* is inactive with the counter at the threshold.
CountFailure(s) ==
  /\ IncrementFailures(s)
  /\ mails' = [mails EXCEPT ![s] =
       IF failures[s] + 1 >= Threshold THEN @ + 1 ELSE @]

Retries(r) == {x \in Runs : retryOf[x] = r}

\* enqueue_scout_dispatch(source 'deferred_retry') raises, or was not called:
\* the worker, too, looks at the dispatch source.
RetryRefused(r) ==
  \/ runStatus[r] # "error"
  \/ runSource[r] # "scheduled"
  \/ Retries(r) = {} /\ ~isActive[ScoutOf[r]]

CopiedSource == "scheduled" \* mutant of RetrySource: the original's metadata
RetrySource  == "deferred_retry"

RetryAnyway(r) ==          \* mutant of EnqueueRetry: no coalescing
  IF Retries(r) # {}
  THEN UNCHANGED <<runStatus, runSource, retryOf, queueVars>>
  ELSE \E x \in Fresh(ScoutOf[r]) :
         /\ SetRun(x, "running")
         /\ runSource' = [runSource EXCEPT ![x] = RetrySource]
         /\ retryOf' = [retryOf EXCEPT ![x] = r]
         /\ InsertRow(x, FALSE)

\* enqueue_scout_dispatch returns: an existing retry, the active row of the
\* scout, or a fresh run that is due 45 minutes from now.
EnqueueRetry(r) ==
  IF Retries(r) # {} \/ Busy(ScoutOf[r])
  THEN UNCHANGED <<runStatus, runSource, retryOf, queueVars>>
  ELSE \E x \in Fresh(ScoutOf[r]) :
         /\ SetRun(x, "running")
         /\ runSource' = [runSource EXCEPT ![x] = RetrySource]
         /\ retryOf' = [retryOf EXCEPT ![x] = r]
         /\ InsertRow(x, FALSE)

\* recordScoutRunFailure on a retrieval error of a scheduled run.
GrantRetry(r) ==
  /\ ~RetryRefused(r)
  /\ EnqueueRetry(r)
  /\ deferred' = deferred \cup {r}

DeferFailure(r, a) ==
  /\ exec[r][a] = "deferrable"
  /\ GrantRetry(r)
  /\ Reply(r, a, "failed")
  /\ UNCHANGED <<scoutVars, aged, sealed, posted, caller, docVars>>

\* recordScoutRunFailure otherwise, a refused retry included.
RecordFailure(r, a) ==
  /\ \/ exec[r][a] = "countable"
     \/ exec[r][a] = "deferrable" /\ RetryRefused(r)
  /\ CountFailure(ScoutOf[r])
  /\ Reply(r, a, "failed")
  /\ UNCHANGED <<runVars, queueVars, posted, caller, docVars>>

Alive(r, a) == exec[r][a] \notin {"none", "done"}

\* The runtime kills the worker.
WorkerDies(r, a) ==
  /\ Alive(r, a)
  /\ GoTo(r, a, "done")
  /\ UNCHANGED <<scoutVars, runVars, queueVars, posted, caller, call, docVars>>

-----------------------------------------------------------------------------
(* The documents of a Civic run.  A document that settles while others of  *)
(* its run are open changes nothing here: only the last one is an action.  *)

FinalizeEarly(r) == SettleRun(r) \* mutant of Finalize: before the seal
\* The run settles with its last document once its dispatch is complete.
Finalize(r) == IF sealed[r] THEN SettleRun(r) ELSE UNCHANGED runStatus

\* finalize_civic_run_doc: the last open document is extracted.
FinalizeDocuments(r) ==
  /\ r \in docsOpen
  /\ docsOpen' = docsOpen \ {r}
  /\ Finalize(r)
  /\ UNCHANGED <<scoutVars, runSource, retryOf, aged, sealed, deferred,
                 queueVars, procVars, extractor>>

\* civic_queue_failsafe: a document lease expired for the last time.
FailsafeDocuments(r) ==
  /\ r \in docsOpen
  /\ docsOpen' = docsOpen \ {r}
  /\ SetRun(r, IF runStatus[r] = "running" THEN "error" ELSE runStatus[r])
  /\ UNCHANGED <<scoutVars, runSource, retryOf, aged, sealed, deferred,
                 queueVars, procVars, extractor>>

\* The last open document fails for the last time.  Bound: one extract worker
\* at a time has a run's failure to write.
FailDocuments(r) ==
  /\ r \in docsOpen /\ extractor[r] = "idle"
  /\ docsOpen' = docsOpen \ {r}
  /\ extractor' = [extractor EXCEPT ![r] = "failing"]
  /\ UNCHANGED <<scoutVars, runVars, queueVars, procVars>>

\* markLinkedRunFailedIfSettled: markRunError by run id, complete or not.
MarkDocumentsFailed(r) ==
  /\ extractor[r] = "failing"
  /\ SetRun(r, "error")
  /\ \E left \in {"idle", "deferrable", "countable"} :
       extractor' = [extractor EXCEPT ![r] = left]
  /\ UNCHANGED <<scoutVars, runSource, retryOf, aged, sealed, deferred,
                 queueVars, procVars, docsOpen>>

ExtractorDone(r) == extractor' = [extractor EXCEPT ![r] = "idle"]

\* Its recordScoutRunFailure.
DeferDocuments(r) ==
  /\ extractor[r] = "deferrable"
  /\ GrantRetry(r)
  /\ ExtractorDone(r)
  /\ UNCHANGED <<scoutVars, aged, sealed, procVars, docsOpen>>

CountDocuments(r) ==
  /\ \/ extractor[r] = "countable"
     \/ extractor[r] = "deferrable" /\ RetryRefused(r)
  /\ CountFailure(ScoutOf[r])
  /\ ExtractorDone(r)
  /\ UNCHANGED <<runVars, queueVars, procVars, docsOpen>>

\* The extract worker dies, or sees a document queued meanwhile and stops.
ExtractorStops(r) ==
  /\ extractor[r] # "idle"
  /\ ExtractorDone(r)
  /\ UNCHANGED <<scoutVars, runVars, queueVars, procVars, docsOpen>>

-----------------------------------------------------------------------------
(* Reconcilers and the clock                                               *)

\* reconcile_waiting_scout_dispatches: mirror terminal runs, then close the
\* Beat runs whose background worker is taken for dead.
NoneStalled == {}          \* mutant of Stalled: before 20261029100000
Stalled == {r \in Runs : qStatus[r] = "waiting" /\ runStatus[r] = "running"
                         /\ RunType(r) = "beat" /\ aged[r]}

ReconcileWaiting ==
  LET mirrored == {r \in Runs : qStatus[r] = "waiting" /\ Terminal(r)} IN
  /\ mirrored \cup Stalled # {}
  /\ qStatus' = [r \in Runs |->
       IF r \in mirrored THEN ClosedStatus(r)
       ELSE IF r \in Stalled THEN "failed" ELSE qStatus[r]]
  /\ runStatus' = [r \in Runs |->
       IF r \in Stalled THEN "error" ELSE runStatus[r]]
  /\ UNCHANGED <<scoutVars, runSource, retryOf, aged, sealed, deferred,
                 attempts, leaseOwner, leaseExpired, due, procVars, docVars>>

\* reconcile_stale_scout_runs: old runs that no active row stands for.
\* mutant of Stale: looks at queue rows only
StaleRows == {r \in Runs : runStatus[r] = "running" /\ aged[r]
                           /\ qStatus[r] \in {"done", "failed"}}
Stale == {r \in Runs : runStatus[r] = "running" /\ aged[r] /\ ~Active(r)}

ReconcileStale ==
  /\ Stale # {}
  /\ runStatus' = [r \in Runs |->
       IF r \in Stale THEN "error" ELSE runStatus[r]]
  /\ UNCHANGED <<scoutVars, runSource, retryOf, aged, sealed, deferred,
                 queueVars, procVars, docVars>>

ExpireLease(r) ==
  /\ qStatus[r] = "leased" /\ ~leaseExpired[r]
  /\ Outlive \/ \A a \in Attempts : caller[r][a] = None /\ ~Alive(r, a)
  /\ leaseExpired' = [leaseExpired EXCEPT ![r] = TRUE]
  /\ UNCHANGED <<scoutVars, runVars, qStatus, attempts, leaseOwner, due,
                 procVars, docVars>>

BecomeDue(r) ==
  /\ qStatus[r] = "queued" /\ ~due[r]
  /\ due' = [due EXCEPT ![r] = TRUE]
  /\ UNCHANGED <<scoutVars, runVars, qStatus, attempts, leaseOwner,
                 leaseExpired, procVars, docVars>>

\* Only the Beat and Civic workers reset started_at when they start.
AgeRun(r) ==
  /\ runStatus[r] = "running" /\ ~aged[r]
  /\ Outlive \/ RunType(r) = "web"
     \/ \A a \in Attempts : Alive(r, a) => exec[r][a] = "accepted"
  /\ aged' = [aged EXCEPT ![r] = TRUE]
  /\ UNCHANGED <<scoutVars, runStatus, runSource, retryOf, sealed, deferred,
                 queueVars, procVars, docVars>>

-----------------------------------------------------------------------------
ScoutNext(s) ==
  EnqueueScheduled(s) \/ TriggerScoutRun(s) \/ PauseScout(s) \/ ResumeScout(s)

\* Every step of the drain that settles a call.
SettleCall(r, a) ==
  FinishDispatch(r, a) \/ ParkDispatch(r, a) \/ CountUnreachable(r, a)
  \/ DropCall(r, a)

WorkerNext(r, a) ==
  \/ StartPage(r, a) \/ AcceptBeat(r, a) \/ StartCivic(r, a)
  \/ ResolveBeat(r, a) \/ BeatBackgroundFails(r, a)
  \/ MarkSuccess(r, a) \/ ResetFailures(r, a)
  \/ QueueDocument(r, a) \/ CompleteEmpty(r, a) \/ CompleteDispatch(r, a)
  \/ SkipRun(r, a) \/ Fail(r, a)
  \/ DeferFailure(r, a) \/ RecordFailure(r, a) \/ WorkerDies(r, a)

DocumentsNext(r) ==
  \/ FinalizeDocuments(r) \/ FailsafeDocuments(r) \/ FailDocuments(r)
  \/ MarkDocumentsFailed(r) \/ DeferDocuments(r) \/ CountDocuments(r)
  \/ ExtractorStops(r)

RunNext(r) ==
  \/ ExecuteScout(r) \/ LosePost(r) \/ DocumentsNext(r)
  \/ ExpireLease(r) \/ BecomeDue(r) \/ AgeRun(r)
  \/ \E a \in Attempts :
       CallFails(r, a) \/ SettleCall(r, a) \/ WorkerNext(r, a)

Next ==
  \/ \E s \in Scouts : ScoutNext(s)
  \/ \E w \in Workers : Claim(w)
  \/ \E r \in Runs : RunNext(r)
  \/ ReconcileWaiting \/ ReconcileStale

Spec == Init /\ [][Next]_vars

\* pg_cron calls the drain and both reconcilers every few minutes, time
\* passes, and the wall-clock limit of a drain ends every call it holds.
\* Nothing makes a worker finish, a scout come due or a user resume it; only
\* where leases rely on it does the runtime end a worker that hangs.
Fairness ==
  /\ WF_vars(\E w \in Workers : Claim(w))
  /\ WF_vars(ReconcileWaiting) /\ WF_vars(ReconcileStale)
  /\ \A r \in Runs :
       /\ WF_vars(ExpireLease(r)) /\ WF_vars(BecomeDue(r))
       /\ WF_vars(AgeRun(r))
       /\ \A a \in Attempts :
            /\ WF_vars(SettleCall(r, a))
            /\ WF_vars(~Outlive /\ WorkerDies(r, a))

LiveSpec == Spec /\ Fairness

-----------------------------------------------------------------------------
(* Properties                                                              *)

\* At any moment a scout has at most one row that is queued, leased or waiting,
\* whichever of the cron tick, Run Now and a failing worker enqueued it.
OneActiveRowPerScout ==
  \A r1, r2 \in Runs :
    Active(r1) /\ Active(r2) /\ ScoutOf[r1] = ScoutOf[r2] => r1 = r2

\* What makes the type invariant and the slots inductive: a run that does not
\* exist or is still in pg_net has no row, and a queued row has attempts left.
RowsFollowRuns ==
  \A r \in Runs :
    /\ runStatus[r] = "absent" => qStatus[r] = "none" /\ r \notin posted
    /\ r \in posted => qStatus[r] = "none"
    /\ qStatus[r] = "none" => attempts[r] = 0
    /\ qStatus[r] = "queued" => attempts[r] < MaxAttempts

\* Never more unexpired leases than SCOUT_DISPATCH_CONCURRENCY, although every
\* drain counts the leases of all the others before it takes its own.
CapacityRespected ==
  Cardinality({r \in Runs : qStatus[r] = "leased" /\ ~leaseExpired[r]})
    <= Capacity

\* A run gets at most one deferred retry, of its own scout, and a retry that
\* fails is never retried, over any history of failures.
OneRetryPerRun ==
  \A x \in Runs : retryOf[x] # None =>
    /\ ScoutOf[x] = ScoutOf[retryOf[x]]
    /\ retryOf[retryOf[x]] = None
    /\ \A y \in Runs : retryOf[y] = retryOf[x] => y = x

\* A drain that settles a claim which a later claim has superseded leaves the
\* row and the run alone, even when it holds the later claim as well.
StaleCallHarmless ==
  [][\A r \in Runs, a \in Attempts :
       /\ a < attempts[r]
       /\ call'[r][a] # call[r][a]
       /\ call'[r][a] \in {"counting", "settled"}
       => qStatus'[r] = qStatus[r] /\ runStatus'[r] = runStatus[r]]_vars

\* When the row of a Page or Beat run turns "done", the run ended well or was
\* skipped.  (A Civic row is done when its documents are queued.)
TurnsDoneDelivered ==
  \A r \in Runs :
    Active(r) /\ qStatus'[r] = "done" /\ RunType(r) # "civic" =>
      runStatus'[r] \in {"success", "skipped"}

\* The dispatcher does not report work as done that failed.  Holds where a
\* worker cannot outlive its lease.
DoneMeansDelivered == [][TurnsDoneDelivered]_vars

\* A Civic run that was delivered once is not reported as a success, which would
\* seal its alert, while one of its documents is still open.  (A redelivered one
\* may be: see SealsSettledRun of CivicAlerts.)
SettledBeforeSuccess ==
  \A r \in Runs :
    RunType(r) = "civic" /\ runStatus[r] = "success" /\ attempts[r] <= 1
      => r \notin docsOpen

\* The queue seen from a scout: ScoutSlot with one slot per run.
SlotOf(r) ==
  IF qStatus[r] = "none" THEN "free"
  ELSE IF Active(r) THEN "open" ELSE qStatus[r]

Slot == INSTANCE ScoutSlot WITH slot <- [r \in Runs |-> SlotOf(r)]

\* The dispatch queue implements the slots: no interleaving of cron ticks,
\* drains, workers and reconcilers opens a slot that is held, or reopens or
\* recloses one that was given back.
ImplementsSlots == Slot!Spec

\* The slot of a scout is always freed: whatever dies, every active row closes.
RowsClose == \A r \in Runs : Active(r) ~> ~Active(r)

\* No run stays "running" for ever: a reconciler or a worker settles it.
RunsSettle == \A r \in Runs : runStatus[r] = "running" ~> Terminal(r)

\* What scout_failures.ts says of a deferred failure: the run gets a retry.
DeferredHasRetry == \A r \in deferred : Retries(r) # {}

=============================================================================
