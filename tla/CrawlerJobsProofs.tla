------------------------- MODULE CrawlerJobsProofs --------------------------
(***************************************************************************)
(* The crawler ledger, for any number of jobs, batches, tasks and runs:    *)
(* that it implements the tickets of CrawlerTicket, whose result a job     *)
(* has, and that no batched job is left in a batch nobody will claim.      *)
(***************************************************************************)
EXTENDS CrawlerJobs, TLAPS

-----------------------------------------------------------------------------
(* Rows                                                                    *)

\* What every row of the ledger satisfies: it has attempts left as long as it
\* may be claimed, its paid call is under a lease, and only a success has a
\* result, which is of its last attempt or of the paid call.
RowOK(row) ==
  /\ row \in JobRows
  /\ row.status \in {"absent", "queued", "batched", "retryable_failed"}
       => row.attempts < MaxAttempts
  /\ row.status = "running" => row.attempts >= 1
  /\ row.status \in Open \cup {"absent"} => ~row.spent
  /\ row.status = "absent" => row.lease = "none"
  /\ row.status = "fallback_required" => (row.lease = "none" <=> ~row.spent)
  /\ row.status # "succeeded" => row.result = None
  /\ row.result \notin {None, Firecrawl} => row.result[1] = row.attempts

RowsOK(rows) == rows \in [Jobs -> JobRows] /\ \A j \in Jobs : RowOK(rows[j])

\* The state of a ticket, by row.
StateOf(row) == IF row.status \in Open THEN "open"
                ELSE IF row.status = "fallback_required" THEN "delegated"
                ELSE row.status

\* What CrawlerTicket lets a step do to a ticket.
Allowed(old, new) ==
  /\ \/ StateOf(new) = StateOf(old)
     \/ StateOf(old) = "absent" /\ StateOf(new) \in {"open", "delegated"}
     \/ StateOf(old) = "open" /\ StateOf(new) = "delegated"
     \/ /\ StateOf(old) \in {"open", "delegated"}
        /\ \/ /\ StateOf(new) \in {"terminal_failed", "succeeded"}
              /\ old.attempts > 0 \/ old.spent
           \/ StateOf(new) = "terminal_failed" /\ StateOf(old) = "delegated"
           \/ StateOf(new) = "cancelled" /\ ~old.spent
  /\ \/ new.attempts = old.attempts
     \/ /\ StateOf(old) = "open" /\ StateOf(new) = "open"
        /\ new.attempts = old.attempts + 1 /\ new.attempts <= MaxAttempts
  /\ \/ new.spent = old.spent
     \/ StateOf(old) = "delegated" /\ ~old.spent /\ new.spent

\* What a reconciler may do to it: an end that stays an end, and no result.
Swept(old, new) ==
  /\ new.attempts = old.attempts /\ new.spent = old.spent /\ new.result = old.result
  /\ \/ StateOf(new) = StateOf(old)
     \/ StateOf(old) = "open" /\ StateOf(new) = "terminal_failed" /\ old.attempts > 0
     \/ StateOf(old) = "delegated" /\ StateOf(new) = "terminal_failed"
     \/ StateOf(old) \in {"open", "delegated"} /\ StateOf(new) = "cancelled"
        /\ ~old.spent

LEMMA SweptFacts ==
  ASSUME NEW a, NEW b, NEW c
  PROVE  /\ Swept(a, a)
         /\ Swept(a, b) => Allowed(a, b)
         /\ Swept(a, b) /\ Swept(b, c) => Swept(a, c)
<1>1. Swept(a, a)
  BY DEF Swept
<1>2. Swept(a, b) => Allowed(a, b)
  BY DEF Swept, Allowed
<1>3. Swept(a, b) /\ Swept(b, c) => Swept(a, c)
  BY DEF Swept
<1>. QED BY <1>1, <1>2, <1>3

\* A row that is not open, not delegated and not absent has its answer.
Good(old, new) == RowOK(new) /\ Allowed(old, new)

LEMMA FailedRow ==
  ASSUME NEW j \in Jobs, NEW row, RowOK(row), row.status = "running", NEW class
  PROVE  /\ Good(row, Failed(j, row, class))
         /\ Failed(j, row, class).status # "batched"
         /\ class = "retryable" => Swept(row, Failed(j, row, class))
<1> USE CrawlerAssumption DEF CrawlerAssumption
<1> DEFINE new == Failed(j, row, class)
           status == IF FallbackReason(j, row, class) THEN "fallback_required"
                     ELSE IF TriesAgain(row, class) THEN "retryable_failed"
                     ELSE "terminal_failed"
<1>1. row \in JobRows /\ row.attempts >= 1 /\ ~row.spent /\ row.result = None
  BY DEF RowOK, Open
<1>2. /\ new.status = status /\ new.attempts = row.attempts /\ new.spent = row.spent
      /\ new.lease = "none" /\ new.result = None
      /\ new.batch \in Batches \cup {None} /\ new \in JobRows
  BY <1>1 DEF Failed, JobRows, Open, Final
<1>3. status = "retryable_failed" => row.attempts < MaxAttempts
  BY DEF TriesAgain
<1>4. class = "retryable" => status # "fallback_required"
  BY DEF FallbackReason
<1> HIDE DEF new
<1>5. RowOK(new)
  BY <1>1, <1>2, <1>3 DEF RowOK, Open
<1>6. Allowed(row, new) /\ (class = "retryable" => Swept(row, new))
  BY <1>1, <1>2, <1>4 DEF Allowed, Swept, StateOf, Open, JobRows
<1>. QED BY <1>2, <1>5, <1>6 DEF Good, new

\* Rows that change without being claimed, answered or failed.
LEMMA QuietRow ==
  ASSUME NEW row, RowOK(row)
  PROVE  /\ Good(row, row) /\ Swept(row, row)
         /\ row.status # "batched" => Good(row, [row EXCEPT !.batch = None])
         /\ row.lease = "live" => Good(row, [row EXCEPT !.lease = "lapsed"])
         /\ Good(row, [row EXCEPT !.result = None])
<1>1. row \in JobRows
  BY DEF RowOK
<1>2. Good(row, row) /\ Swept(row, row)
  BY DEF Good, Allowed, Swept
<1>3. ASSUME row.status # "batched" PROVE Good(row, [row EXCEPT !.batch = None])
  BY <1>1, <1>3 DEF Good, RowOK, Allowed, StateOf, JobRows, Open
<1>4. ASSUME row.lease = "live" PROVE Good(row, [row EXCEPT !.lease = "lapsed"])
  BY <1>1, <1>4 DEF Good, RowOK, Allowed, StateOf, JobRows, Open
<1>5. Good(row, [row EXCEPT !.result = None])
  BY <1>1 DEF Good, RowOK, Allowed, StateOf, JobRows, Open
<1>. QED BY <1>2, <1>3, <1>4, <1>5

\* Batches are formed of queued rows and claimed by tasks.
LEMMA BatchedRow ==
  ASSUME NEW row, RowOK(row), NEW b \in Batches
  PROVE  /\ row.status \in {"queued", "retryable_failed"}
              => Good(row, [row EXCEPT !.status = "batched", !.batch = b])
         /\ row.status = "running"
              => Good(row, [row EXCEPT !.status = "running", !.lease = "live"])
<1>1. row \in JobRows
  BY DEF RowOK
<1>2. ASSUME row.status \in {"queued", "retryable_failed"}
      PROVE  Good(row, [row EXCEPT !.status = "batched", !.batch = b])
  BY <1>1, <1>2 DEF Good, RowOK, Allowed, StateOf, JobRows, Open
<1>3. ASSUME row.status = "running"
      PROVE  Good(row, [row EXCEPT !.status = "running", !.lease = "live"])
  BY <1>1, <1>3 DEF Good, RowOK, Allowed, StateOf, JobRows, Open
<1>. QED BY <1>2, <1>3

LEMMA RequeuedRow ==
  ASSUME NEW row, RowOK(row), row.status = "batched"
  PROVE  LET new == [row EXCEPT !.status = "queued", !.batch = None]
         IN  Good(row, new) /\ Swept(row, new)
<1>1. row \in JobRows
  BY DEF RowOK
<1>. QED BY <1>1 DEF Good, RowOK, Allowed, Swept, StateOf, JobRows, Open

LEMMA ClaimedRow ==
  ASSUME NEW row, RowOK(row), row.status = "batched"
  PROVE  Good(row, [row EXCEPT !.status = "running", !.lease = "live", !.attempts = @ + 1])
<1> USE CrawlerAssumption DEF CrawlerAssumption
<1> DEFINE new == [row EXCEPT !.status = "running", !.lease = "live", !.attempts = @ + 1]
<1>1. row \in JobRows /\ row.attempts < MaxAttempts /\ ~row.spent /\ row.result = None
  BY DEF RowOK, Open
<1>2. row.attempts + 1 \in 1..MaxAttempts /\ row.attempts + 1 \in 0..MaxAttempts
  BY <1>1 DEF JobRows
<1>3. /\ new.status = "running" /\ new.attempts = row.attempts + 1
      /\ new.spent = row.spent /\ new.result = None /\ new \in JobRows
  BY <1>1, <1>2 DEF JobRows, Open
<1> HIDE DEF new
<1>4. RowOK(new)
  BY <1>1, <1>2, <1>3 DEF RowOK, Open
<1>5. Allowed(row, new)
  BY <1>2, <1>3 DEF Allowed, StateOf, Open
<1>. QED BY <1>4, <1>5 DEF Good, new

LEMMA EnqueuedRow ==
  ASSUME NEW row, RowOK(row), row.status = "absent",
         NEW s \in {"queued", "fallback_required"}
  PROVE  Good(row, [row EXCEPT !.status = s])
<1>1. row \in JobRows
  BY DEF RowOK
<1>. QED BY <1>1 DEF Good, RowOK, Allowed, StateOf, JobRows, Open

LEMMA SucceededRow ==
  ASSUME NEW row, RowOK(row), row.status = "running", NEW t \in Tasks
  PROVE  Good(row, Succeeded(row, <<row.attempts, t>>))
<1> USE CrawlerAssumption DEF CrawlerAssumption
<1> DEFINE result == <<row.attempts, t>>
           new == Succeeded(row, result)
<1>1. row \in JobRows /\ row.attempts \in 1..MaxAttempts /\ ~row.spent
  BY DEF RowOK, Open, JobRows
<1>2. result \in (1..MaxAttempts) \X Tasks /\ result[1] = row.attempts
  BY <1>1
<1> HIDE DEF result
<1>3. /\ new.status = "succeeded" /\ new.attempts = row.attempts /\ new.spent = row.spent
      /\ new.result = result /\ new \in JobRows
  BY <1>1, <1>2 DEF JobRows, Final, Succeeded
<1> HIDE DEF new
<1>4. RowOK(new)
  BY <1>1, <1>2, <1>3 DEF RowOK, Open
<1>5. Allowed(row, new)
  BY <1>1, <1>3 DEF Allowed, StateOf, Open
<1>. QED BY <1>4, <1>5 DEF Good, new, result

\* The paid call of a Page job begins, and answers or lapses.
LEMMA PaidRow ==
  ASSUME NEW row, RowOK(row), row.status = "fallback_required"
  PROVE  /\ row.lease = "none" => Good(row, [row EXCEPT !.lease = "live", !.spent = TRUE])
         /\ row.lease # "none" => Good(row, Succeeded(row, Firecrawl))
<1>1. row \in JobRows
  BY DEF RowOK
<1>2. ASSUME row.lease = "none"
      PROVE  Good(row, [row EXCEPT !.lease = "live", !.spent = TRUE])
  BY <1>1, <1>2 DEF Good, RowOK, Allowed, StateOf, JobRows, Open
<1>3. ASSUME row.lease # "none"
      PROVE  Good(row, Succeeded(row, Firecrawl))
  BY <1>1, <1>3 DEF Good, RowOK, Allowed, StateOf, JobRows, Open, Final, Succeeded
<1>. QED BY <1>2, <1>3

LEMMA ExpiredRow ==
  ASSUME NEW row, RowOK(row), row.status = "fallback_required"
  PROVE  LET new == [row EXCEPT !.status = "terminal_failed", !.lease = "none"]
         IN  Good(row, new) /\ Swept(row, new)
<1>1. row \in JobRows
  BY DEF RowOK
<1>. QED BY <1>1 DEF Good, RowOK, Allowed, Swept, StateOf, JobRows, Open, Final

LEMMA HandedOffRow ==
  ASSUME NEW row, RowOK(row), row.status = "fallback_required"
  PROVE  Good(row, [row EXCEPT !.status = "terminal_failed"])
<1>1. row \in JobRows
  BY DEF RowOK
<1>. QED BY <1>1 DEF Good, RowOK, Allowed, StateOf, JobRows, Open, Final

LEMMA CancelledRow ==
  ASSUME NEW row, RowOK(row), row.lease = "none",
         row.status \in {"queued", "batched", "retryable_failed", "fallback_required"}
  PROVE  LET new == [row EXCEPT !.status = "cancelled"]
         IN  Good(row, new) /\ Swept(row, new)
<1>1. row \in JobRows
  BY DEF RowOK
<1>. QED BY <1>1 DEF Good, RowOK, Allowed, Swept, StateOf, JobRows, Open, Final

-----------------------------------------------------------------------------
(* What a step does to the ledger                                          *)

\* All rows of a step are good.
GoodStep(old, new) ==
  new \in [Jobs -> JobRows] /\ \A j \in Jobs : Good(old[j], new[j])

\* One row changes.
LEMMA OneRow ==
  ASSUME NEW rows, RowsOK(rows), NEW j \in Jobs, NEW new, Good(rows[j], new)
  PROVE  GoodStep(rows, [rows EXCEPT ![j] = new])
<1>1. rows \in [Jobs -> JobRows] /\ new \in JobRows
  BY DEF RowsOK, Good, RowOK
<1>2. \A k \in Jobs : Good(rows[k], rows[k])
  BY QuietRow DEF RowsOK
<1>. QED BY <1>1, <1>2 DEF GoodStep

LEMMA NoRow ==
  ASSUME NEW rows, RowsOK(rows)
  PROVE  GoodStep(rows, rows)
BY QuietRow DEF RowsOK, GoodStep

\* The passes of a reconciler, row by row.
SweptStep(old, new) ==
  RowsOK(new) /\ \A j \in Jobs : Swept(old[j], new[j])

LEMMA RequeuedRows ==
  ASSUME NEW rows, RowsOK(rows), NEW bs
  PROVE  SweptStep(rows, Requeued(rows, bs))
<1> DEFINE new == Requeued(rows, bs)
<1>1. \A j \in Jobs : RowOK(rows[j])
  BY DEF RowsOK
<1>2. \A j \in Jobs : RowOK(new[j]) /\ Swept(rows[j], new[j])
  <2> SUFFICES ASSUME NEW j \in Jobs PROVE RowOK(new[j]) /\ Swept(rows[j], new[j])
    OBVIOUS
  <2>1. CASE rows[j].status = "batched" /\ rows[j].batch \in bs
    BY <1>1, <2>1, RequeuedRow DEF Requeued, Good
  <2>2. CASE ~(rows[j].status = "batched" /\ rows[j].batch \in bs)
    <3>1. new[j] = rows[j]
      BY <2>2 DEF Requeued
    <3>. QED BY <1>1, <3>1, QuietRow DEF Good
  <2>. QED BY <2>1, <2>2
<1>3. new \in [Jobs -> JobRows]
  <2>1. \A j \in Jobs : new[j] \in JobRows
    BY <1>2 DEF RowOK
  <2>2. new = [j \in Jobs |-> new[j]]
    BY DEF Requeued
  <2> HIDE DEF new
  <2>. QED BY <2>1, <2>2
<1>. QED BY <1>2, <1>3 DEF SweptStep, RowsOK

LEMMA CancelledRows ==
  ASSUME NEW rows, RowsOK(rows), NEW js
  PROVE  SweptStep(rows, Cancelled(rows, js))
<1> DEFINE new == Cancelled(rows, js)
<1>1. \A j \in Jobs : RowOK(rows[j])
  BY DEF RowsOK
<1>2. \A j \in Jobs : RowOK(new[j]) /\ Swept(rows[j], new[j])
  <2> SUFFICES ASSUME NEW j \in Jobs PROVE RowOK(new[j]) /\ Swept(rows[j], new[j])
    OBVIOUS
  <2>1. CASE j \in js /\ Cancellable(rows, j)
    <3>1. /\ rows[j].lease = "none"
          /\ rows[j].status \in {"queued", "batched", "retryable_failed", "fallback_required"}
      BY <2>1 DEF Cancellable
    <3>2. new[j] = [rows[j] EXCEPT !.status = "cancelled"]
      BY <2>1 DEF Cancelled
    <3>. QED BY <1>1, <3>1, <3>2, CancelledRow DEF Good
  <2>2. CASE ~(j \in js /\ Cancellable(rows, j))
    <3>1. new[j] = rows[j]
      BY <2>2 DEF Cancelled
    <3>. QED BY <1>1, <3>1, QuietRow DEF Good
  <2>. QED BY <2>1, <2>2
<1>3. new \in [Jobs -> JobRows]
  <2>1. \A j \in Jobs : new[j] \in JobRows
    BY <1>2 DEF RowOK
  <2>2. new = [j \in Jobs |-> new[j]]
    BY DEF Cancelled
  <2> HIDE DEF new
  <2>. QED BY <2>1, <2>2
<1>. QED BY <1>2, <1>3 DEF SweptStep, RowsOK

LEMMA ExpiredRows ==
  ASSUME NEW rows, RowsOK(rows)
  PROVE  SweptStep(rows, FallbacksExpired(rows)) /\ SweptStep(rows, AttemptsExpired(rows))
<1>1. \A j \in Jobs : RowOK(rows[j])
  BY DEF RowsOK
<1>2. SweptStep(rows, FallbacksExpired(rows))
  <2> DEFINE new == FallbacksExpired(rows)
  <2>1. \A j \in Jobs : RowOK(new[j]) /\ Swept(rows[j], new[j])
    <3> SUFFICES ASSUME NEW j \in Jobs PROVE RowOK(new[j]) /\ Swept(rows[j], new[j])
      OBVIOUS
    <3>1. CASE rows[j].status = "fallback_required" /\ rows[j].lease = "lapsed"
      BY <1>1, <3>1, ExpiredRow DEF FallbacksExpired, Good
    <3>2. CASE ~(rows[j].status = "fallback_required" /\ rows[j].lease = "lapsed")
      <4>1. new[j] = rows[j]
        BY <3>2 DEF FallbacksExpired
      <4>. QED BY <1>1, <4>1, QuietRow DEF Good
    <3>. QED BY <3>1, <3>2
  <2>2. new \in [Jobs -> JobRows]
    <3>1. \A j \in Jobs : new[j] \in JobRows
      BY <2>1 DEF RowOK
    <3>2. new = [j \in Jobs |-> new[j]]
      BY DEF FallbacksExpired
    <3> HIDE DEF new
    <3>. QED BY <3>1, <3>2
  <2>. QED BY <2>1, <2>2 DEF SweptStep, RowsOK
<1>3. SweptStep(rows, AttemptsExpired(rows))
  <2> DEFINE new == AttemptsExpired(rows)
  <2>1. \A j \in Jobs : RowOK(new[j]) /\ Swept(rows[j], new[j])
    <3> SUFFICES ASSUME NEW j \in Jobs PROVE RowOK(new[j]) /\ Swept(rows[j], new[j])
      OBVIOUS
    <3>1. CASE rows[j].status = "running" /\ rows[j].lease = "lapsed"
      BY <1>1, <3>1, FailedRow DEF AttemptsExpired, Good
    <3>2. CASE ~(rows[j].status = "running" /\ rows[j].lease = "lapsed")
      <4>1. new[j] = rows[j]
        BY <3>2 DEF AttemptsExpired
      <4>. QED BY <1>1, <4>1, QuietRow DEF Good
    <3>. QED BY <3>1, <3>2
  <2>2. new \in [Jobs -> JobRows]
    <3>1. \A j \in Jobs : new[j] \in JobRows
      BY <2>1 DEF RowOK
    <3>2. new = [j \in Jobs |-> new[j]]
      BY DEF AttemptsExpired
    <3> HIDE DEF new
    <3>. QED BY <3>1, <3>2
  <2>. QED BY <2>1, <2>2 DEF SweptStep, RowsOK
<1>. QED BY <1>2, <1>3

LEMMA SweptSteps ==
  ASSUME NEW a, NEW b, SweptStep(a, b)
  PROVE  /\ RowsOK(b) /\ GoodStep(a, b)
         /\ \A c : SweptStep(b, c) => SweptStep(a, c)
BY SweptFacts DEF SweptStep, GoodStep, RowsOK, Good

\* The five passes of reconcile_crawler_jobs.
ReconciledRows(stale) ==
  Cancelled(Requeued(AttemptsExpired(Cancelled(FallbacksExpired(job), Jobs)), stale), Jobs)

LEMMA ReconcileRows ==
  ASSUME RowsOK(job), NEW stale
  PROVE  GoodStep(job, ReconciledRows(stale)) /\ SweptStep(job, ReconciledRows(stale))
<1> DEFINE r1 == FallbacksExpired(job)
           r2 == Cancelled(r1, Jobs)
           r3 == AttemptsExpired(r2)
           r4 == Requeued(r3, stale)
           r5 == Cancelled(r4, Jobs)
<1>1. SweptStep(job, r1)
  BY ExpiredRows
<1> HIDE DEF r1
<1>2. SweptStep(r1, r2)
  BY <1>1, CancelledRows, SweptSteps
<1> HIDE DEF r2
<1>3. SweptStep(r2, r3)
  BY <1>2, ExpiredRows, SweptSteps
<1> HIDE DEF r3
<1>4. SweptStep(r3, r4)
  BY <1>3, RequeuedRows, SweptSteps
<1> HIDE DEF r4
<1>5. SweptStep(r4, r5)
  BY <1>4, CancelledRows, SweptSteps
<1> HIDE DEF r5
<1>6. SweptStep(job, r5)
  BY <1>1, <1>2, <1>3, <1>4, <1>5, SweptSteps
<1>. QED BY <1>6, SweptSteps DEF ReconciledRows, r1, r2, r3, r4, r5

\* A task that runs has a batch, and one that calls or retries has an item.
TasksOK ==
  \A t \in Tasks :
    /\ task[t].phase # "free" => task[t].batch \in Batches
    /\ task[t].phase \in {"call", "retry"} => task[t].item \in Items

LedgerInv == TypeOK /\ RowsOK(job) /\ TasksOK

\* A callback changes the row of its job while it holds its lease.
LEMMA CompletedRows ==
  ASSUME RowsOK(job), NEW c \in Callbacks, NEW row,
         Holds(c.job, c.token) => Good(job[c.job], row)
  PROVE  GoodStep(job, Completed(c, row))
<1>1. c.job \in Jobs
  BY DEF Callbacks
<1>2. CASE Holds(c.job, c.token)
  BY <1>1, <1>2, OneRow DEF Completed
<1>3. CASE ~Holds(c.job, c.token)
  BY <1>3, NoRow DEF Completed
<1>. QED BY <1>2, <1>3

LEMMA FormRows ==
  ASSUME RowsOK(job), NEW b \in Batches, NEW js, \A j \in js \cap Jobs : Eligible(j),
         Form(b, js)
  PROVE  GoodStep(job, job')
<1> USE CrawlerAssumption DEF CrawlerAssumption
<1>1. \A j \in Jobs : RowOK(job[j])
  BY DEF RowsOK
<1>2. \A j \in Jobs : Good(job[j], job'[j])
  <2> SUFFICES ASSUME NEW j \in Jobs PROVE Good(job[j], job'[j])
    OBVIOUS
  <2>1. CASE j \in js
    <3>1. job'[j] = [job[j] EXCEPT !.status = "batched", !.batch = b]
      BY <2>1 DEF Form
    <3>2. job[j].status \in {"queued", "retryable_failed"} /\ RowOK(job[j])
      BY <1>1, <2>1 DEF Eligible
    <3> DEFINE row == job[j]
    <3> HIDE DEF row
    <3>3. Good(row, [row EXCEPT !.status = "batched", !.batch = b])
      BY <3>2, BatchedRow DEF row
    <3>. QED BY <3>1, <3>3 DEF row
  <2>2. CASE j \notin js /\ job[j].batch = b
    <3>1. job'[j] = [job[j] EXCEPT !.batch = None]
      BY <2>2 DEF Form
    <3>2. job[j] \in JobRows
      BY <1>1 DEF RowOK
    <3>. QED BY <1>1, <3>1, <3>2 DEF Good, RowOK, Allowed, StateOf, JobRows, Open
  <2>3. CASE j \notin js /\ job[j].batch # b
    <3>1. job'[j] = job[j]
      BY <2>3 DEF Form
    <3>. QED BY <1>1, <3>1, QuietRow
  <2>. QED BY <2>1, <2>2, <2>3
<1>3. job' \in [Jobs -> JobRows]
  <2>1. \A j \in Jobs : job'[j] \in JobRows
    BY <1>2 DEF Good, RowOK
  <2>2. job' = [j \in Jobs |-> job'[j]]
    BY DEF Form
  <2>. QED BY <2>1, <2>2
<1>. QED BY <1>2, <1>3 DEF GoodStep

LEMMA ClaimRows ==
  ASSUME RowsOK(job), NEW t \in Tasks, task[t].batch \in Batches, Claim(t)
  PROVE  GoodStep(job, job')
<1> DEFINE b     == task[t].batch
           first == batch[b].status \in {"pending", "submitted"}
           got   == IF first THEN FreshClaims(b)
                    ELSE IF batch[b].status = "running" THEN LiveClaims(b) ELSE {}
           row(j) == [job[j] EXCEPT !.status = "running", !.lease = "live",
                                    !.attempts = IF first THEN @ + 1 ELSE @]
<1>0. job' = [j \in Jobs |-> IF j \in got THEN row(j) ELSE job[j]]
  BY DEF Claim
<1>1. \A j \in Jobs : RowOK(job[j]) /\ job[j] \in JobRows
  BY DEF RowsOK, RowOK
<1>2. \A j \in Jobs : Good(job[j], job'[j])
  <2> SUFFICES ASSUME NEW j \in Jobs PROVE Good(job[j], job'[j])
    OBVIOUS
  <2>1. CASE j \notin got
    <3>1. job'[j] = job[j]
      BY <1>0, <2>1
    <3>. QED BY <1>1, <3>1, QuietRow
  <2>2. CASE j \in got /\ first
    <3>1. job[j].status = "batched"
      BY <2>2 DEF FreshClaims, InBatch
    <3>2. job'[j] = [job[j] EXCEPT !.status = "running", !.lease = "live",
                                   !.attempts = @ + 1]
      BY <1>0, <2>2
    <3>. QED BY <1>1, <3>1, <3>2, ClaimedRow
  <2>3. CASE j \in got /\ ~first
    <3>1. job[j].status = "running"
      BY <2>3 DEF LiveClaims, InBatch
    <3>2. job'[j] = [job[j] EXCEPT !.status = "running", !.lease = "live",
                                   !.attempts = @]
      BY <1>0, <2>3
    <3>3. job'[j] = [job[j] EXCEPT !.status = "running", !.lease = "live"]
      BY <1>1, <3>2 DEF JobRows
    <3>. QED BY <1>1, <3>1, <3>3, BatchedRow
  <2>. QED BY <2>1, <2>2, <2>3
<1>3. job' \in [Jobs -> JobRows]
  <2>1. \A j \in Jobs : job'[j] \in JobRows
    BY <1>2 DEF Good, RowOK
  <2>2. job' = [j \in Jobs |-> job'[j]]
    BY <1>0
  <2>. QED BY <2>1, <2>2
<1>. QED BY <1>2, <1>3 DEF GoodStep

LEMMA CallbackRows ==
  ASSUME RowsOK(job), NEW c \in Callbacks,
         \/ ReadJob(c) \/ Accept(c) \/ RejectBundle(c) \/ AcceptUnheard(c)
         \/ ReportFailure(c) \/ CallFails(c)
  PROVE  GoodStep(job, job')
<1> USE CrawlerAssumption DEF CrawlerAssumption
<1>1. /\ c.job \in Jobs /\ c.task \in Tasks /\ RowOK(job[c.job])
  BY DEF Callbacks, RowsOK
<1>2. Holds(c.job, c.token)
        => /\ Good(job[c.job], Succeeded(job[c.job], Bundle(c)[2]))
           /\ \A class : Good(job[c.job], Failed(c.job, job[c.job], class))
  <2> SUFFICES ASSUME Holds(c.job, c.token)
               PROVE  /\ Good(job[c.job], Succeeded(job[c.job], Bundle(c)[2]))
                      /\ \A class : Good(job[c.job], Failed(c.job, job[c.job], class))
    OBVIOUS
  <2>1. job[c.job].status = "running" /\ Bundle(c)[2] = <<job[c.job].attempts, c.task>>
    BY DEF Holds, Bundle
  <2>2. Good(job[c.job], Succeeded(job[c.job], Bundle(c)[2]))
    BY <1>1, <2>1, SucceededRow
  <2>3. \A class : Good(job[c.job], Failed(c.job, job[c.job], class))
    BY <1>1, <2>1, FailedRow
  <2>. QED BY <2>2, <2>3
<1>3. CASE ReadJob(c) \/ CallFails(c)
  BY <1>3, NoRow DEF ReadJob, CallFails
<1>4. CASE Accept(c) \/ AcceptUnheard(c)
  <2>1. job' = Completed(c, Succeeded(job[c.job], Bundle(c)[2]))
    BY <1>4 DEF Accept, AcceptUnheard
  <2>. QED BY <1>2, <2>1, CompletedRows
<1>5. CASE RejectBundle(c) \/ ReportFailure(c)
  <2>1. PICK class : job' = Completed(c, Failed(c.job, job[c.job], class))
    BY <1>5 DEF RejectBundle, ReportFailure
  <2>. QED BY <1>2, <2>1, CompletedRows
<1>. QED BY <1>3, <1>4, <1>5

\* Every step treats every row well.
LEMMA LedgerRows ==
  ASSUME LedgerInv, [Next]_vars
  PROVE  GoodStep(job, job')
<1> USE CrawlerAssumption DEF CrawlerAssumption
<1>1. /\ RowsOK(job) /\ calls \subseteq Callbacks
      /\ \A j \in Jobs : RowOK(job[j]) /\ job[j] \in JobRows
  BY DEF LedgerInv, TypeOK, RowsOK, RowOK
<1>2. CASE UNCHANGED job
  BY <1>1, <1>2, NoRow
<1>3. ASSUME NEW b \in Batches, ReleaseStale(b) \/ RenderEnded(b) \/ ReleaseBatch(b)
      PROVE  GoodStep(job, job')
  <2>1. job' = job \/ job' = Requeued(job, {b})
    BY <1>3 DEF ReleaseStale, RenderEnded, ReleaseBatch
  <2>. QED BY <1>1, <2>1, RequeuedRows, SweptSteps, NoRow
<1>4. ASSUME NEW b \in Batches, CreateBatch(b)
      PROVE  GoodStep(job, job')
  <2> DEFINE eligible == {j \in Jobs \ nudged : Eligible(j) /\ ~ParentEnded(j)}
  <2>1. PICK js \in SUBSET eligible : Form(b, js)
    BY <1>4 DEF CreateBatch
  <2>. QED BY <1>1, <2>1, FormRows
<1>5. ASSUME NEW j \in Jobs, FormProxyBatch(j)
      PROVE  GoodStep(job, job')
  <2>1. CASE Eligible(j)
    <3>1. PICK b \in Batches : Form(b, {j})
      BY <1>5, <2>1 DEF FormProxyBatch
    <3>. QED BY <1>1, <2>1, <3>1, FormRows
  <2>2. CASE ~Eligible(j)
    BY <1>5, <2>2, <1>2 DEF FormProxyBatch
  <2>. QED BY <2>1, <2>2
<1>6. ASSUME NEW t \in Tasks, Claim(t)
      PROVE  GoodStep(job, job')
  <2>1. task[t].batch \in Batches
    BY <1>6 DEF LedgerInv, TasksOK, Claim
  <2>. QED BY <1>1, <1>6, <2>1, ClaimRows
<1>7. ASSUME NEW j \in Jobs, Enqueue(j)
      PROVE  GoodStep(job, job')
  <2>1. PICK s \in {"queued", "fallback_required"} : job' = [job EXCEPT ![j].status = s]
    BY <1>7 DEF Enqueue
  <2>2. Good(job[j], [job[j] EXCEPT !.status = s])
    BY <1>1, <1>7, EnqueuedRow DEF Enqueue
  <2>. QED BY <1>1, <2>1, <2>2, OneRow
<1>8. ASSUME NEW j \in Jobs, LeaseLapses(j) \/ ClaimFallback(j) \/ HandOff(j) \/ CleanUp(j)
      PROVE  GoodStep(job, job')
  <2>1. PICK new : Good(job[j], new) /\ job' = [job EXCEPT ![j] = new]
    <3>1. CASE LeaseLapses(j)
      <4>1. Good(job[j], [job[j] EXCEPT !.lease = "lapsed"])
        BY <1>1, <3>1, QuietRow DEF LeaseLapses
      <4>. QED BY <3>1, <4>1 DEF LeaseLapses
    <3>2. CASE ClaimFallback(j)
      <4>1. Good(job[j], [job[j] EXCEPT !.lease = "live", !.spent = TRUE])
        BY <1>1, <3>2, PaidRow DEF ClaimFallback
      <4>2. job' = [job EXCEPT ![j] = [job[j] EXCEPT !.lease = "live", !.spent = TRUE]]
        BY <1>1, <3>2 DEF ClaimFallback, RowsOK
      <4>. QED BY <4>1, <4>2
    <3>3. CASE HandOff(j)
      <4>1. Good(job[j], [job[j] EXCEPT !.status = "terminal_failed"])
        BY <1>1, <3>3, HandedOffRow DEF HandOff
      <4>. QED BY <3>3, <4>1 DEF HandOff
    <3>4. CASE CleanUp(j)
      <4>1. Good(job[j], [job[j] EXCEPT !.result = None])
        BY <1>1, QuietRow
      <4>. QED BY <3>4, <4>1 DEF CleanUp
    <3>. QED BY <1>8, <3>1, <3>2, <3>3, <3>4
  <2>. QED BY <1>1, <2>1, OneRow
<1>9. ASSUME NEW j \in Jobs, NEW ok \in BOOLEAN, FallbackReturns(j, ok)
      PROVE  GoodStep(job, job')
  <2>1. CASE job[j].status = "fallback_required" /\ job[j].lease # "none"
    <3> DEFINE gone == [job[j] EXCEPT !.status = "terminal_failed", !.lease = "none"]
    <3>1. job' = [job EXCEPT ![j] = Succeeded(job[j], Firecrawl)] \/ job' = [job EXCEPT ![j] = gone]
      BY <1>9, <2>1 DEF FallbackReturns
    <3>2. Good(job[j], Succeeded(job[j], Firecrawl))
      BY <1>1, <2>1, PaidRow
    <3>3. Good(job[j], gone)
      BY <1>1, <2>1, ExpiredRow
    <3> HIDE DEF gone
    <3>. QED BY <1>1, <3>1, <3>2, <3>3, OneRow
  <2>2. CASE ~(job[j].status = "fallback_required" /\ job[j].lease # "none")
    BY <1>2, <1>9, <2>2 DEF FallbackReturns
  <2>. QED BY <2>1, <2>2
<1>10. ASSUME NEW c \in calls,
              \/ ReadJob(c) \/ Accept(c) \/ RejectBundle(c) \/ AcceptUnheard(c)
              \/ ReportFailure(c) \/ CallFails(c)
       PROVE  GoodStep(job, job')
  BY <1>1, <1>10, CallbackRows
<1>11. ASSUME NEW bs \in SUBSET Batches, Reconcile(bs)
       PROVE  GoodStep(job, job')
  <2>1. job' = ReconciledRows(bs)
    BY <1>11 DEF Reconcile, ReconciledRows
  <2>. QED BY <1>1, <2>1, ReconcileRows
<1>12. ASSUME NEW r \in Runs, CancelJobs(r)
       PROVE  GoodStep(job, job')
  <2>1. job' = Cancelled(job, {j \in Jobs : Parent[j] = r})
    BY <1>12 DEF CancelJobs
  <2>. QED BY <1>1, <2>1, CancelledRows, SweptSteps
<1>13. CASE DispatchStep
  <2>1. ASSUME NEW b \in Batches,
               \/ Reserve(b) \/ MarkSubmitted(b) \/ StartRefused(b) \/ DispatcherDies(b)
               \/ \E t \in Tasks : StartAccepted(b, t)
        PROVE  UNCHANGED job
    BY <2>1 DEF Reserve, MarkSubmitted, StartRefused, DispatcherDies, StartAccepted
  <2>2. ASSUME NEW j \in Jobs, Nudge(j)
        PROVE  UNCHANGED job
    BY <2>2 DEF Nudge
  <2>. QED BY <1>2, <1>3, <1>4, <1>5, <1>7, <1>13, <2>1, <2>2 DEF DispatchStep
<1>14. CASE TaskStep
  <2>1. ASSUME NEW t \in Tasks,
               \/ Work(t) \/ TaskEnds(t) \/ CutOff(t) \/ Resend(t)
               \/ \E u \in Tasks : Replayed(t, u)
        PROVE  UNCHANGED job
    BY <2>1 DEF Work, TaskEnds, CutOff, Resend, Replayed
  <2>. QED BY <1>2, <1>6, <1>10, <1>14, <2>1 DEF TaskStep
<1>15. CASE RecoveryStep
  BY <1>3, <1>8, <1>11, <1>15 DEF RecoveryStep
<1>16. CASE CallerStep
  <2>1. ASSUME NEW r \in Runs, RunEnds(r) \/ \E h \in BOOLEAN : RunLeased(r, h)
        PROVE  UNCHANGED job
    BY <2>1 DEF RunEnds, RunLeased
  <2>2. ASSUME NEW j \in Jobs, FallbackDies(j)
        PROVE  UNCHANGED job
    BY <2>2 DEF FallbackDies
  <2>. QED BY <1>2, <1>8, <1>9, <1>12, <1>16, <2>1, <2>2 DEF CallerStep
<1>17. CASE UNCHANGED vars
  BY <1>2, <1>17 DEF vars
<1>. QED BY <1>13, <1>14, <1>15, <1>16, <1>17 DEF Next

-----------------------------------------------------------------------------
(* Types                                                                   *)

OthersOK ==
  /\ batch \in [Batches -> BatchRows]
  /\ start \in [Batches -> {"idle", "posting", "accepted", "rejected"}]
  /\ run \in [Runs -> [ended : BOOLEAN, leased : BOOLEAN]]
  /\ caller \in [Jobs -> BOOLEAN]
  /\ nudged \subseteq Jobs

LEMMA OthersTyped ==
  ASSUME OthersOK, TasksOK, [Next]_vars
  PROVE  OthersOK'
<1> USE DEF OthersOK
<1>1. CASE UNCHANGED <<batch, start, run, caller, nudged>>
  BY <1>1
<1>2. NoBatch \in BatchRows /\ \A b \in Batches, s \in {"pending", "submitted", "running",
        "complete", "failed"} : [batch[b] EXCEPT !.status = s] \in BatchRows
  BY DEF NoBatch, BatchRows
<1>3. ASSUME NEW b \in Batches, NEW js, Form(b, js)
      PROVE  batch' \in [Batches -> BatchRows]
  BY <1>2, <1>3 DEF Form, BatchRows, NoBatch
<1>4. CASE DispatchStep
  <2>1. ASSUME NEW b \in Batches, CreateBatch(b) PROVE OthersOK'
    BY <1>3, <2>1 DEF CreateBatch
  <2>2. ASSUME NEW j \in Jobs, FormProxyBatch(j) PROVE OthersOK'
    BY <1>3, <2>2 DEF FormProxyBatch
  <2>3. ASSUME NEW b \in Batches,
               \/ Reserve(b) \/ MarkSubmitted(b) \/ ReleaseBatch(b) \/ StartRefused(b)
               \/ DispatcherDies(b) \/ \E t \in Tasks : StartAccepted(b, t)
        PROVE  OthersOK'
    <3>1. UNCHANGED <<run, caller, nudged>>
      BY <2>3 DEF Reserve, MarkSubmitted, ReleaseBatch, StartRefused, DispatcherDies,
            StartAccepted
    <3>2. start' \in [Batches -> {"idle", "posting", "accepted", "rejected"}]
      BY <2>3 DEF Reserve, MarkSubmitted, ReleaseBatch, StartRefused, DispatcherDies,
            StartAccepted
    <3>3. batch' \in [Batches -> BatchRows]
      <4>1. CASE Reserve(b)
        BY <4>1 DEF Reserve, BatchRows
      <4>2. CASE MarkSubmitted(b)
        <5>1. [batch[b] EXCEPT !.marked = TRUE] \in BatchRows
          BY DEF BatchRows
        <5>2. [batch[b] EXCEPT !.marked = TRUE, !.status = "submitted"] \in BatchRows
          BY DEF BatchRows
        <5>3. \/ batch' = batch
              \/ batch' = [batch EXCEPT ![b] = [@ EXCEPT !.marked = TRUE]]
              \/ batch' = [batch EXCEPT ![b] = [@ EXCEPT !.marked = TRUE, !.status = "submitted"]]
          BY <4>2 DEF MarkSubmitted
        <5>. QED BY <5>1, <5>2, <5>3
      <4>3. CASE ReleaseBatch(b)
        BY <1>2, <4>3 DEF ReleaseBatch
      <4>. QED BY <2>3, <4>1, <4>2, <4>3 DEF StartRefused, DispatcherDies, StartAccepted
    <3>. QED BY <3>1, <3>2, <3>3
  <2>4. ASSUME NEW j \in Jobs, Enqueue(j) \/ Nudge(j) PROVE OthersOK'
    BY <2>4 DEF Enqueue, Nudge
  <2>. QED BY <1>4, <2>1, <2>2, <2>3, <2>4 DEF DispatchStep
<1>5. CASE TaskStep
  <2>1. ASSUME NEW t \in Tasks, Claim(t) PROVE OthersOK'
    <3>1. UNCHANGED <<start, run, caller, nudged>>
      BY <2>1 DEF Claim
    <3>2. batch' = batch \/ batch' = [batch EXCEPT ![task[t].batch].status = "running"]
      BY <2>1 DEF Claim
    <3>3. task[t].batch \in Batches
      BY <2>1 DEF Claim, TasksOK
    <3>4. batch' \in [Batches -> BatchRows]
      BY <3>2, <3>3 DEF BatchRows
    <3>. QED BY <3>1, <3>4
  <2>2. ASSUME NEW t \in Tasks,
               \/ Work(t) \/ TaskEnds(t) \/ CutOff(t) \/ Resend(t)
               \/ \E u \in Tasks : Replayed(t, u)
        PROVE  UNCHANGED <<batch, start, run, caller, nudged>>
    BY <2>2 DEF Work, TaskEnds, CutOff, Resend, Replayed
  <2>3. ASSUME NEW c \in calls,
               \/ ReadJob(c) \/ Accept(c) \/ RejectBundle(c) \/ AcceptUnheard(c)
               \/ ReportFailure(c) \/ CallFails(c)
        PROVE  UNCHANGED <<batch, start, run, caller, nudged>>
    BY <2>3 DEF ReadJob, Accept, RejectBundle, AcceptUnheard, ReportFailure, CallFails
  <2>. QED BY <1>1, <1>5, <2>1, <2>2, <2>3 DEF TaskStep
<1>6. CASE RecoveryStep
  <2>1. ASSUME NEW b \in Batches, ReleaseStale(b) \/ RenderEnded(b) PROVE OthersOK'
    BY <2>1 DEF ReleaseStale, RenderEnded, BatchRows
  <2>2. ASSUME NEW bs \in SUBSET Batches, Reconcile(bs) PROVE OthersOK'
    <3>1. UNCHANGED <<start, run, caller, nudged>>
      BY <2>2 DEF Reconcile
    <3>2. batch' \in [Batches -> BatchRows]
      <4> DEFINE failed == [b \in Batches |-> IF b \in bs
                              THEN [batch[b] EXCEPT !.status = "failed"] ELSE batch[b]]
      <4>1. failed \in [Batches -> BatchRows]
        BY <1>2
      <4>2. \A b \in Batches : [failed[b] EXCEPT !.status = "complete"] \in BatchRows
        BY <4>1 DEF BatchRows
      <4>3. \E busy : batch' = [b \in Batches |->
                IF failed[b].status \in {"submitted", "running"} /\ b \notin busy
                THEN [failed[b] EXCEPT !.status = "complete"] ELSE failed[b]]
        <5> DEFINE rows  == Cancelled(FallbacksExpired(job), Jobs)
                   final == Cancelled(Requeued(AttemptsExpired(rows), bs), Jobs)
                   busy  == {b \in Batches : \E j \in Jobs :
                               final[j].batch = b /\ final[j].status \in {"batched", "running"}}
        <5> HIDE DEF failed
        <5>1. batch' = [b \in Batches |->
                IF failed[b].status \in {"submitted", "running"} /\ b \notin busy
                THEN [failed[b] EXCEPT !.status = "complete"] ELSE failed[b]]
          BY <2>2 DEF Reconcile, failed
        <5>. QED BY <5>1
      <4> HIDE DEF failed
      <4>. QED BY <4>1, <4>2, <4>3
    <3>. QED BY <3>1, <3>2
  <2>3. ASSUME NEW j \in Jobs, LeaseLapses(j) PROVE OthersOK'
    BY <2>3 DEF LeaseLapses
  <2>. QED BY <1>6, <2>1, <2>2, <2>3 DEF RecoveryStep
<1>7. CASE CallerStep
  <2>1. ASSUME NEW r \in Runs, RunEnds(r) \/ CancelJobs(r) \/ \E h \in BOOLEAN : RunLeased(r, h)
        PROVE  OthersOK'
    BY <2>1 DEF RunEnds, CancelJobs, RunLeased
  <2>2. ASSUME NEW j \in Jobs,
               \/ ClaimFallback(j) \/ FallbackDies(j) \/ HandOff(j) \/ CleanUp(j)
               \/ \E ok \in BOOLEAN : FallbackReturns(j, ok)
        PROVE  OthersOK'
    BY <2>2 DEF ClaimFallback, FallbackDies, HandOff, CleanUp, FallbackReturns
  <2>. QED BY <1>7, <2>1, <2>2 DEF CallerStep
<1>8. CASE UNCHANGED vars
  BY <1>1, <1>8 DEF vars
<1>. QED BY <1>4, <1>5, <1>6, <1>7, <1>8 DEF Next

\* Tasks, their callbacks and the bundles they upload.
TasksTyped ==
  /\ task \in [Tasks -> TaskStates]
  /\ calls \subseteq Callbacks
  /\ store \subseteq (Jobs \X ((1..MaxAttempts) \X Tasks))
  /\ TasksOK

LEMMA AnswerTyped ==
  ASSUME TasksTyped, NEW c \in calls, NEW phase \in {"work", "retry"}, Answer(c, phase)
  PROVE  task' \in [Tasks -> TaskStates] /\ calls' \subseteq Callbacks /\ TasksOK'
<1> DEFINE new == [task[c.task] EXCEPT !.phase = phase,
                                        !.item = IF phase = "work" THEN None ELSE @]
<1>1. c.task \in Tasks /\ calls' \subseteq Callbacks /\ task \in [Tasks -> TaskStates]
  BY DEF TasksTyped, Callbacks, Answer
<1>2. CASE Awaited(c)
  <2>1. task' = [task EXCEPT ![c.task] = new]
    BY <1>1, <1>2 DEF Answer
  <2>2. task[c.task].phase = "call"
    BY <1>2 DEF Awaited
  <2>3. task[c.task].batch \in Batches /\ task[c.task].item \in Items
    BY <1>1, <2>2 DEF TasksTyped, TasksOK
  <2>4. /\ new \in TaskStates /\ new.batch = task[c.task].batch /\ new.phase = phase
        /\ phase = "retry" => new.item = task[c.task].item
    <3> DEFINE old  == task[c.task]
               item == IF phase = "work" THEN None ELSE old.item
    <3>1. old \in TaskStates
      BY <1>1
    <3>2. item \in Items \cup {None}
      BY <3>1 DEF TaskStates
    <3>3. new = [old EXCEPT !.phase = phase, !.item = item]
      BY <3>1 DEF TaskStates
    <3>4. phase = "retry" => item = old.item
      OBVIOUS
    <3> HIDE DEF new, old, item
    <3>5. /\ new \in TaskStates /\ new.batch = old.batch /\ new.phase = phase
          /\ new.item = item
      BY <3>1, <3>2, <3>3 DEF TaskStates
    <3>. QED BY <3>4, <3>5 DEF old
  <2> HIDE DEF new
  <2>5. task' \in [Tasks -> TaskStates] /\ task'[c.task] = new
    BY <1>1, <2>1, <2>4
  <2>6. \A t \in Tasks : t # c.task => task'[t] = task[t]
    BY <1>1, <2>1
  <2>7. TasksOK'
    BY <1>1, <2>3, <2>4, <2>5, <2>6 DEF TasksOK, TasksTyped
  <2>. QED BY <1>1, <2>5, <2>7
<1>3. CASE ~Awaited(c)
  BY <1>1, <1>3 DEF Answer, TasksOK, TasksTyped
<1>. QED BY <1>2, <1>3

\* A task is started, or sends a callback.
LEMMA OneTaskTyped ==
  ASSUME TasksTyped, NEW t \in Tasks, NEW new \in TaskStates,
         new.phase # "free" => new.batch \in Batches,
         new.phase \in {"call", "retry"} => new.item \in Items,
         task' = [task EXCEPT ![t] = new]
  PROVE  task' \in [Tasks -> TaskStates] /\ TasksOK'
<1>1. task' \in [Tasks -> TaskStates] /\ task'[t] = new
  BY DEF TasksTyped
<1>2. \A u \in Tasks : u # t => task'[u] = task[u]
  BY DEF TasksTyped
<1>. QED BY <1>1, <1>2 DEF TasksTyped, TasksOK

LEMMA BootTyped ==
  ASSUME TasksTyped, NEW t \in Tasks, NEW b \in Batches, Boot(t, b)
  PROVE  /\ task' \in [Tasks -> TaskStates] /\ TasksOK'
         /\ store' \subseteq (Jobs \X ((1..MaxAttempts) \X Tasks))
<1>1. [NoTask EXCEPT !.batch = b, !.phase = "claim"] \in TaskStates
  BY DEF NoTask, TaskStates
<1>2. store' \subseteq (Jobs \X ((1..MaxAttempts) \X Tasks))
  BY DEF Boot, TasksTyped
<1> DEFINE new == [NoTask EXCEPT !.batch = b, !.phase = "claim"]
<1>3. new.batch = b /\ new.phase = "claim" /\ task' = [task EXCEPT ![t] = new]
  BY DEF Boot, NoTask
<1> HIDE DEF new
<1>4. task' \in [Tasks -> TaskStates] /\ TasksOK'
  BY <1>1, <1>3, OneTaskTyped DEF new
<1>. QED BY <1>2, <1>4

LEMMA ClaimTyped ==
  ASSUME TasksTyped, GoodStep(job, job'), NEW t \in Tasks, Claim(t)
  PROVE  task' \in [Tasks -> TaskStates] /\ TasksOK'
<1> DEFINE b     == task[t].batch
           first == batch[b].status \in {"pending", "submitted"}
           got   == IF first THEN FreshClaims(b)
                    ELSE IF batch[b].status = "running" THEN LiveClaims(b) ELSE {}
           todo  == {<<j, job'[j].attempts>> : j \in got}
           new   == [task[t] EXCEPT !.phase = "work", !.todo = todo]
<1>1. task \in [Tasks -> TaskStates] /\ task[t].phase = "claim" /\ b \in Batches
  BY DEF TasksTyped, TasksOK, Claim
<1>2. got \subseteq Jobs /\ \A j \in got : job'[j].status = "running"
  <2>1. got \subseteq Jobs
    BY DEF FreshClaims, LiveClaims, InBatch
  <2>2. \A j \in got : job'[j] = [job[j] EXCEPT !.status = "running", !.lease = "live",
                                     !.attempts = IF first THEN @ + 1 ELSE @]
    BY <2>1 DEF Claim
  <2>3. \A j \in got : job[j].status \in {"batched", "running"}
    BY DEF FreshClaims, LiveClaims, InBatch
  <2>4. \A j \in Jobs : job'[j] \in JobRows
    BY DEF GoodStep
  <2> HIDE DEF got, first
  <2>. QED BY <2>1, <2>2, <2>4 DEF JobRows
<1>3. \A j \in got : job'[j].attempts \in 1..MaxAttempts
  BY <1>2, CrawlerAssumption DEF GoodStep, Good, RowOK, JobRows, CrawlerAssumption
<1> HIDE DEF got
<1>4. todo \subseteq Jobs \X (1..MaxAttempts)
  BY <1>2, <1>3
<1>5. task' = task \/ task' = [task EXCEPT ![t] = new]
  BY <1>1 DEF Claim, got
<1> HIDE DEF todo
<1>6. new \in TaskStates /\ new.phase = "work" /\ new.batch = b
  BY <1>1, <1>4 DEF TaskStates
<1> HIDE DEF new, b
<1>7. CASE task' = task
  BY <1>1, <1>7 DEF TasksTyped, TasksOK
<1>8. CASE task' = [task EXCEPT ![t] = new]
  BY <1>1, <1>6, <1>8, OneTaskTyped
<1>. QED BY <1>5, <1>7, <1>8

LEMMA CallRecord ==
  ASSUME NEW t \in Tasks, NEW b \in Batches, NEW j \in Jobs, NEW k \in 1..MaxAttempts,
         NEW o \in Outcomes, NEW n \in 1..MaxSends
  PROVE  /\ [task |-> t, batch |-> b, job |-> j, token |-> k,
             outcome |-> o, copy |-> n, read |-> FALSE] \in Callbacks
         /\ <<j, <<k, t>>>> \in Jobs \X ((1..MaxAttempts) \X Tasks)
BY DEF Callbacks

LEMMA WorkTyped ==
  ASSUME TasksTyped, NEW t \in Tasks, Work(t)
  PROVE  TasksTyped'
<1> USE CrawlerAssumption DEF CrawlerAssumption
<1>1. PICK i \in task[t].todo, o \in Outcomes :
        /\ task' = [task EXCEPT
             ![t].phase = "call",
             ![t].todo = @ \ {i},
             ![t].item = [job |-> i[1], token |-> i[2], outcome |-> o, sends |-> 1]]
        /\ store' = IF o = "ok" THEN store \cup {<<i[1], <<i[2], t>>>>} ELSE store
        /\ calls' = calls \cup
             {[task |-> t, batch |-> task[t].batch, job |-> i[1], token |-> i[2],
               outcome |-> o, copy |-> 1, read |-> FALSE]}
  BY DEF Work
<1>2. task \in [Tasks -> TaskStates] /\ task[t].batch \in Batches
  BY DEF TasksTyped, TasksOK, Work
<1>3. i \in Jobs \X (1..MaxAttempts)
  BY <1>2 DEF TaskStates
<1>4. i[1] \in Jobs /\ i[2] \in 1..MaxAttempts /\ 1 \in 1..MaxSends
  BY <1>3
<1> DEFINE item == [job |-> i[1], token |-> i[2], outcome |-> o, sends |-> 1]
           new  == [task[t] EXCEPT !.phase = "call", !.todo = @ \ {i}, !.item = item]
<1>5. item \in Items
  BY <1>4 DEF Items
<1>6. task' = [task EXCEPT ![t] = new]
  BY <1>1, <1>2
<1> HIDE DEF item
<1>7. new \in TaskStates /\ new.phase = "call" /\ new.batch = task[t].batch /\ new.item = item
  BY <1>2, <1>5 DEF TaskStates
<1> HIDE DEF new
<1>8. task' \in [Tasks -> TaskStates] /\ TasksOK'
  BY <1>2, <1>5, <1>6, <1>7, OneTaskTyped
<1>9. calls' \subseteq Callbacks
  <2> DEFINE sent == [task |-> t, batch |-> task[t].batch, job |-> i[1], token |-> i[2],
                      outcome |-> o, copy |-> 1, read |-> FALSE]
  <2>1. sent \in Callbacks
    BY <1>2, <1>4, CallRecord
  <2>2. calls' = calls \cup {sent}
    BY <1>1
  <2> HIDE DEF sent
  <2>. QED BY <2>1, <2>2 DEF TasksTyped
<1>10. store' \subseteq (Jobs \X ((1..MaxAttempts) \X Tasks))
  <2>1. <<i[1], <<i[2], t>>>> \in Jobs \X ((1..MaxAttempts) \X Tasks)
    BY <1>4
  <2>2. store' = store \/ store' = store \cup {<<i[1], <<i[2], t>>>>}
    BY <1>1
  <2>. QED BY <2>1, <2>2 DEF TasksTyped
<1>. QED BY <1>8, <1>9, <1>10 DEF TasksTyped

LEMMA ResendTyped ==
  ASSUME TasksTyped, NEW t \in Tasks, Resend(t)
  PROVE  TasksTyped'
<1> USE CrawlerAssumption DEF CrawlerAssumption
<1> DEFINE i    == task[t].item
           item == [i EXCEPT !.sends = @ + 1]
           new  == [task[t] EXCEPT !.phase = "call", !.item = item]
<1>1. task \in [Tasks -> TaskStates] /\ task[t].batch \in Batches /\ i \in Items
      /\ i.sends < MaxSends
  BY DEF TasksTyped, TasksOK, Resend
<1>2. item \in Items /\ i.sends + 1 \in 1..MaxSends
  BY <1>1 DEF Items
<1>3. task' = [task EXCEPT ![t] = new]
  BY <1>1 DEF Resend
<1>4. calls' \subseteq Callbacks
  <2> DEFINE sent == [task |-> t, batch |-> task[t].batch, job |-> i.job, token |-> i.token,
                      outcome |-> i.outcome, copy |-> i.sends + 1, read |-> FALSE]
  <2>1. i.job \in Jobs /\ i.token \in 1..MaxAttempts /\ i.outcome \in Outcomes
    BY <1>1 DEF Items
  <2>2. sent \in Callbacks
    BY <1>1, <1>2, <2>1, CallRecord
  <2>3. calls' = calls \cup {sent}
    BY DEF Resend
  <2> HIDE DEF sent
  <2>. QED BY <2>2, <2>3 DEF TasksTyped
<1>5. store' = store
  BY DEF Resend
<1> HIDE DEF item
<1>6. new \in TaskStates /\ new.phase = "call" /\ new.batch = task[t].batch /\ new.item = item
  BY <1>1, <1>2 DEF TaskStates
<1> HIDE DEF new, i
<1>7. task' \in [Tasks -> TaskStates] /\ TasksOK'
  BY <1>1, <1>2, <1>3, <1>6, OneTaskTyped
<1>. QED BY <1>4, <1>5, <1>7 DEF TasksTyped

LEMMA CallTyped ==
  ASSUME TasksTyped, NEW c \in calls,
         \/ ReadJob(c) \/ Accept(c) \/ RejectBundle(c) \/ AcceptUnheard(c)
         \/ ReportFailure(c) \/ CallFails(c)
  PROVE  TasksTyped'
<1>1. store' \subseteq store
  BY DEF ReadJob, Accept, RejectBundle, AcceptUnheard, ReportFailure, CallFails
<1>2. CASE \E phase \in {"work", "retry"} : Answer(c, phase)
  BY <1>1, <1>2, AnswerTyped DEF TasksTyped
<1>3. CASE ReadJob(c) /\ ~\E phase \in {"work", "retry"} : Answer(c, phase)
  <2>1. calls' = (calls \ {c}) \cup {[c EXCEPT !.read = TRUE]} /\ task' = task
    BY <1>3 DEF ReadJob
  <2>2. [c EXCEPT !.read = TRUE] \in Callbacks
    BY DEF TasksTyped, Callbacks
  <2>. QED BY <1>1, <2>1, <2>2 DEF TasksTyped, TasksOK
<1>4. ReadJob(c) \/ \E phase \in {"work", "retry"} : Answer(c, phase)
  BY DEF Accept, RejectBundle, AcceptUnheard, ReportFailure, CallFails, Answered
<1>. QED BY <1>2, <1>3, <1>4

LEMMA TaskTypes ==
  ASSUME TasksTyped, OthersOK, GoodStep(job, job'), [Next]_vars
  PROVE  TasksTyped'
<1>1. CASE UNCHANGED <<task, calls, store>>
  BY <1>1 DEF TasksTyped, TasksOK
<1>2. ASSUME NEW b \in Batches, NEW t \in Tasks, StartAccepted(b, t) PROVE TasksTyped'
  BY <1>2, BootTyped DEF StartAccepted, TasksTyped
<1>3. ASSUME NEW t \in Tasks, NEW u \in Tasks, Replayed(t, u) PROVE TasksTyped'
  <2>1. task[t].batch \in Batches
    BY <1>3 DEF Replayed, TasksTyped, TasksOK
  <2>. QED BY <1>3, <2>1, BootTyped DEF Replayed, TasksTyped
<1>4. ASSUME NEW t \in Tasks, Claim(t) PROVE TasksTyped'
  <2>1. UNCHANGED <<calls, store>>
    BY <1>4 DEF Claim
  <2>. QED BY <1>4, <2>1, ClaimTyped DEF TasksTyped
<1>5. ASSUME NEW t \in Tasks, TaskEnds(t) PROVE TasksTyped'
  <2>1. NoTask \in TaskStates /\ NoTask.phase = "free"
    BY DEF NoTask, TaskStates
  <2>2. task' = [task EXCEPT ![t] = NoTask] /\ UNCHANGED <<calls, store>>
    BY <1>5 DEF TaskEnds
  <2>. QED BY <2>1, <2>2, OneTaskTyped DEF TasksTyped
<1>6. ASSUME NEW t \in Tasks, CutOff(t) PROVE TasksTyped'
  <2> DEFINE new == [task[t] EXCEPT !.phase = "retry"]
  <2>1. /\ task' = [task EXCEPT ![t] = new] /\ UNCHANGED <<calls, store>>
        /\ task[t].phase = "call" /\ task[t] \in TaskStates
    BY <1>6 DEF CutOff, TasksTyped
  <2>2. task[t].batch \in Batches /\ task[t].item \in Items
    BY <2>1 DEF TasksTyped, TasksOK
  <2>3. /\ new \in TaskStates /\ new.phase = "retry"
        /\ new.batch = task[t].batch /\ new.item = task[t].item
    BY <2>1 DEF TaskStates
  <2> HIDE DEF new
  <2>. QED BY <2>1, <2>2, <2>3, OneTaskTyped DEF TasksTyped
<1>7. CASE DispatchStep
  <2>1. ASSUME NEW b \in Batches,
               \/ CreateBatch(b) \/ Reserve(b) \/ MarkSubmitted(b) \/ ReleaseBatch(b)
               \/ StartRefused(b) \/ DispatcherDies(b)
        PROVE  UNCHANGED <<task, calls, store>>
    BY <2>1 DEF CreateBatch, Reserve, MarkSubmitted, ReleaseBatch, StartRefused, DispatcherDies
  <2>2. ASSUME NEW j \in Jobs, Enqueue(j) \/ Nudge(j) \/ FormProxyBatch(j)
        PROVE  UNCHANGED <<task, calls, store>>
    BY <2>2 DEF Enqueue, Nudge, FormProxyBatch
  <2>. QED BY <1>1, <1>2, <1>7, <2>1, <2>2 DEF DispatchStep
<1>8. CASE TaskStep
  BY <1>3, <1>4, <1>5, <1>6, <1>8, WorkTyped, ResendTyped, CallTyped DEF TaskStep
<1>9. CASE RecoveryStep
  <2>1. UNCHANGED <<task, calls, store>>
    BY <1>9 DEF RecoveryStep, LeaseLapses, ReleaseStale, RenderEnded, Reconcile
  <2>. QED BY <1>1, <2>1
<1>10. CASE CallerStep
  <2>1. ASSUME NEW j \in Jobs, CleanUp(j)
        PROVE  store' \subseteq store /\ UNCHANGED <<task, calls>>
    BY <2>1 DEF CleanUp
  <2>2. ASSUME NEW r \in Runs, RunEnds(r) \/ CancelJobs(r) \/ \E h \in BOOLEAN : RunLeased(r, h)
        PROVE  UNCHANGED <<task, calls, store>>
    BY <2>2 DEF RunEnds, CancelJobs, RunLeased
  <2>3. ASSUME NEW j \in Jobs,
               \/ ClaimFallback(j) \/ FallbackDies(j) \/ HandOff(j)
               \/ \E ok \in BOOLEAN : FallbackReturns(j, ok)
        PROVE  UNCHANGED <<task, calls, store>>
    BY <2>3 DEF ClaimFallback, FallbackDies, HandOff, FallbackReturns
  <2>4. store' \subseteq store /\ UNCHANGED <<task, calls>>
    BY <1>10, <2>1, <2>2, <2>3 DEF CallerStep
  <2>. QED BY <2>4 DEF TasksTyped, TasksOK
<1>11. CASE UNCHANGED vars
  BY <1>1, <1>11 DEF vars
<1>. QED BY <1>7, <1>8, <1>9, <1>10, <1>11 DEF Next

LEMMA InitLedger == Init => LedgerInv
<1> USE CrawlerAssumption DEF CrawlerAssumption
<1> SUFFICES ASSUME Init PROVE LedgerInv
  OBVIOUS
<1>1. NoJob \in JobRows /\ RowOK(NoJob)
  BY DEF NoJob, JobRows, RowOK, Open
<1>2. NoBatch \in BatchRows
  BY DEF NoBatch, BatchRows
<1>3. NoTask \in TaskStates /\ NoTask.phase = "free"
  BY DEF NoTask, TaskStates
<1>4. RowsOK(job)
  BY <1>1 DEF Init, RowsOK
<1>5. TasksOK
  BY <1>3 DEF Init, TasksOK
<1>6. TypeOK
  BY <1>1, <1>2, <1>3 DEF Init, TypeOK
<1>. QED BY <1>4, <1>5, <1>6 DEF LedgerInv

LEMMA NextLedger == LedgerInv /\ [Next]_vars => LedgerInv' /\ GoodStep(job, job')
<1> SUFFICES ASSUME LedgerInv, [Next]_vars PROVE LedgerInv' /\ GoodStep(job, job')
  OBVIOUS
<1>1. OthersOK /\ TasksTyped
  BY DEF LedgerInv, TypeOK, OthersOK, TasksTyped
<1>2. GoodStep(job, job')
  BY LedgerRows
<1>3. OthersOK'
  BY <1>1, OthersTyped DEF TasksTyped
<1>4. TasksTyped'
  BY <1>1, <1>2, TaskTypes
<1>5. RowsOK(job')
  BY <1>2 DEF GoodStep, Good, RowsOK
<1>. QED BY <1>2, <1>3, <1>4, <1>5 DEF LedgerInv, TypeOK, OthersOK, TasksTyped, GoodStep, RowsOK

\* Types; part of it is that a job is leased at most MaxAttempts times and
\* that every callback names a task, a batch and an attempt that exist.
THEOREM CrawlerTypeOK == Spec => []TypeOK
<1>1. LedgerInv => TypeOK
  BY DEF LedgerInv
<1>. QED BY InitLedger, NextLedger, <1>1, PTL DEF Spec

\* What a job returns was produced under its last lease.
THEOREM CrawlerResultOfLastAttempt == Spec => []ResultOfLastAttempt
<1>1. LedgerInv => ResultOfLastAttempt
  BY DEF LedgerInv, RowsOK, RowOK, ResultOfLastAttempt
<1>. QED BY InitLedger, NextLedger, <1>1, PTL DEF Spec

\* The ledger implements the tickets of CrawlerTicket.
THEOREM CrawlerTicketKept == Spec => TicketKept
<1>1. Init => Ticket!Init
  <2> SUFFICES ASSUME Init PROVE Ticket!Init
    OBVIOUS
  <2>1. \A j \in Jobs : TicketState(j) = "absent" /\ job[j].attempts = 0 /\ job[j].spent = FALSE
    BY DEF Init, NoJob, TicketState, Open
  <2>. QED BY <2>1 DEF Ticket!Init
<1>2. LedgerInv /\ [Next]_vars => [Ticket!Step]_(Ticket!vars)
  <2> SUFFICES ASSUME LedgerInv, [Next]_vars PROVE Ticket!Step
    OBVIOUS
  <2>1. \A j \in Jobs : Allowed(job[j], job'[j])
    BY NextLedger DEF GoodStep, Good
  <2>2. \A j \in Jobs : TicketState(j) = StateOf(job[j]) /\ TicketState(j)' = StateOf(job'[j])
    BY DEF TicketState, StateOf
  <2>3. \A j \in Jobs : job[j].spent \in BOOLEAN /\ job'[j].spent \in BOOLEAN
    BY NextLedger DEF LedgerInv, RowsOK, GoodStep, JobRows
  <2>4. ASSUME NEW j \in Jobs
        PROVE  /\ TicketState(j)' = TicketState(j) \/ Ticket!Moves(j)
               /\ \/ job'[j].attempts = job[j].attempts
                  \/ /\ TicketState(j) = "open" /\ TicketState(j)' = "open"
                     /\ job'[j].attempts = job[j].attempts + 1
                     /\ job'[j].attempts <= MaxAttempts
               /\ \/ job'[j].spent = job[j].spent
                  \/ TicketState(j) = "delegated" /\ ~job[j].spent /\ job'[j].spent
    BY <2>1, <2>2, <2>3 DEF Allowed, Ticket!Moves, Ticket!Answers
  <2>. QED BY <2>4 DEF Ticket!Step
<1>. QED BY <1>1, <1>2, InitLedger, NextLedger, PTL DEF Spec, TicketKept, Ticket!Spec

-----------------------------------------------------------------------------
(* Batched jobs                                                            *)

Waits(bs, b) == bs[b].status \in {"pending", "submitted"}

\* No proxy caller has a row locked, and a batched job waits in its batch.
Housed ==
  /\ nudged = {}
  /\ \A j \in Jobs :
       job[j].status = "batched"
         => ParentEnded(j) \/ (job[j].batch \in Batches /\ Waits(batch, job[j].batch))

\* No row is newly batched, and the batches of those that stay so still wait.
NoneBatched ==
  \A j \in Jobs :
    job'[j].status = "batched"
      => /\ job[j].status = "batched" /\ job'[j].batch = job[j].batch
         /\ \/ ParentEnded(j)
            \/ job[j].batch \in Batches /\ Waits(batch, job[j].batch) => Waits(batch', job[j].batch)

LEMMA EndedStays ==
  ASSUME [Next]_vars, OthersOK
  PROVE  \A j \in Jobs : ParentEnded(j) => ParentEnded(j)'
<1> USE CrawlerAssumption DEF CrawlerAssumption
<1>1. ASSUME NEW r \in Runs, RunEnds(r) \/ \E h \in BOOLEAN : RunLeased(r, h)
      PROVE  \A q \in Runs : run[q].ended => run'[q].ended
  BY <1>1 DEF RunEnds, RunLeased, OthersOK
<1>2. ASSUME NEW j \in Jobs,
             \/ Enqueue(j) \/ Nudge(j) \/ FormProxyBatch(j) \/ LeaseLapses(j)
             \/ ClaimFallback(j) \/ FallbackDies(j) \/ HandOff(j) \/ CleanUp(j)
             \/ \E ok \in BOOLEAN : FallbackReturns(j, ok)
      PROVE  run' = run
  BY <1>2 DEF Enqueue, Nudge, FormProxyBatch, LeaseLapses, ClaimFallback, FallbackDies,
     HandOff, CleanUp, FallbackReturns
<1>3. CASE DispatchStep
  <2>1. run' = run
    BY <1>2, <1>3 DEF DispatchStep, CreateBatch, Reserve, MarkSubmitted, ReleaseBatch,
       StartRefused, DispatcherDies, StartAccepted
  <2>. QED BY <2>1 DEF ParentEnded
<1>4. CASE TaskStep
  <2>1. ASSUME NEW c \in calls,
               \/ ReadJob(c) \/ Accept(c) \/ RejectBundle(c) \/ AcceptUnheard(c)
               \/ ReportFailure(c) \/ CallFails(c)
        PROVE  run' = run
    BY <2>1 DEF ReadJob, Accept, RejectBundle, AcceptUnheard, ReportFailure, CallFails
  <2>2. ASSUME NEW t \in Tasks,
               \/ Claim(t) \/ Work(t) \/ TaskEnds(t) \/ CutOff(t) \/ Resend(t)
               \/ \E u \in Tasks : Replayed(t, u)
        PROVE  run' = run
    BY <2>2 DEF Claim, Work, TaskEnds, CutOff, Resend, Replayed
  <2>. QED BY <1>4, <2>1, <2>2 DEF TaskStep, ParentEnded
<1>5. CASE RecoveryStep
  <2>1. run' = run
    BY <1>2, <1>5 DEF RecoveryStep, ReleaseStale, RenderEnded, Reconcile
  <2>. QED BY <2>1 DEF ParentEnded
<1>6. CASE CallerStep
  <2>1. ASSUME NEW r \in Runs, CancelJobs(r) PROVE run' = run
    BY <2>1 DEF CancelJobs
  <2>2. \A q \in Runs : run[q].ended => run'[q].ended
    BY <1>1, <1>2, <1>6, <2>1 DEF CallerStep
  <2>. QED BY <2>2 DEF ParentEnded
<1>7. CASE UNCHANGED vars
  BY <1>7 DEF vars, ParentEnded
<1>. QED BY <1>3, <1>4, <1>5, <1>6, <1>7 DEF Next

\* A job whose row is not batched by the step keeps its place.
LEMMA StaysHoused ==
  ASSUME Housed, OthersOK, [Next]_vars, NoneBatched, nudged' = {}
  PROVE  Housed'
<1>1. \A j \in Jobs : ParentEnded(j) => ParentEnded(j)'
  BY EndedStays
<1>. QED BY <1>1 DEF Housed, NoneBatched

\* A batch is formed of queued jobs; a job that was batched in it has no run.
LEMMA FormHoused ==
  ASSUME Housed, RowsOK(job), OthersOK, NEW b \in Batches, CreateBatch(b)
  PROVE  Housed'
<1>1. /\ run' = run /\ nudged' = {} /\ ~Waits(batch, b)
      /\ \A j \in Jobs : ParentEnded(j)' = ParentEnded(j)
  BY DEF CreateBatch, FreshBatch, Waits, Housed, ParentEnded
<1>2. PICK js : Form(b, js)
  BY DEF CreateBatch
<1>3. Waits(batch', b) /\ \A c \in Batches : c # b => Waits(batch', c) = Waits(batch, c)
  BY <1>2 DEF Form, Waits, OthersOK, NoBatch
<1>4. ASSUME NEW j \in Jobs, job'[j].status = "batched"
      PROVE  ParentEnded(j)' \/ (job'[j].batch \in Batches /\ Waits(batch', job'[j].batch))
  <2>0. job[j] \in JobRows
    BY DEF RowsOK
  <2>1. CASE j \in js
    <3>1. job'[j].batch = b
      BY <1>2, <2>0, <2>1 DEF Form, JobRows
    <3>. QED BY <1>3, <3>1
  <2>2. CASE j \notin js
    <3>1. job[j].status = "batched" /\ (job[j].batch # b => job'[j] = job[j])
      BY <1>2, <1>4, <2>0, <2>2 DEF Form, JobRows
    <3>2. CASE ParentEnded(j)
      BY <1>1, <3>2
    <3>3. CASE job[j].batch \in Batches /\ Waits(batch, job[j].batch)
      BY <1>1, <1>3, <3>1, <3>3
    <3>. QED BY <3>1, <3>2, <3>3 DEF Housed
  <2>. QED BY <2>1, <2>2
<1>. QED BY <1>1, <1>4 DEF Housed

\* What the passes of a reconciler leave batched was batched in the same
\* batch before; a requeue leaves nothing batched in its batches.
Kept(old, new) ==
  \A j \in Jobs :
    new[j].status = "batched" => old[j].status = "batched" /\ new[j].batch = old[j].batch

LEMMA RequeuedKeeps ==
  ASSUME NEW rows, RowsOK(rows), NEW bs
  PROVE  /\ Kept(rows, Requeued(rows, bs))
         /\ \A j \in Jobs : Requeued(rows, bs)[j].status = "batched"
                            => Requeued(rows, bs)[j].batch \notin bs
BY DEF RowsOK, Requeued, Kept, JobRows

LEMMA CancelledKeeps ==
  ASSUME NEW rows, RowsOK(rows), NEW js
  PROVE  Kept(rows, Cancelled(rows, js))
BY DEF RowsOK, Cancelled, Kept, JobRows

LEMMA ExpiredKeeps ==
  ASSUME NEW rows, RowsOK(rows)
  PROVE  Kept(rows, FallbacksExpired(rows)) /\ Kept(rows, AttemptsExpired(rows))
<1>1. Kept(rows, FallbacksExpired(rows))
  BY DEF RowsOK, FallbacksExpired, Kept, JobRows
<1>2. Kept(rows, AttemptsExpired(rows))
  <2> SUFFICES ASSUME NEW j \in Jobs, AttemptsExpired(rows)[j].status = "batched"
               PROVE  /\ rows[j].status = "batched"
                      /\ AttemptsExpired(rows)[j].batch = rows[j].batch
    BY DEF Kept
  <2>1. CASE rows[j].status = "running" /\ rows[j].lease = "lapsed"
    BY <2>1, FailedRow DEF AttemptsExpired, RowsOK
  <2>2. CASE ~(rows[j].status = "running" /\ rows[j].lease = "lapsed")
    BY <2>2 DEF AttemptsExpired
  <2>. QED BY <2>1, <2>2
<1>. QED BY <1>1, <1>2

LEMMA ReconcileKeeps ==
  ASSUME RowsOK(job), NEW bs
  PROVE  /\ Kept(job, ReconciledRows(bs))
         /\ \A j \in Jobs : ReconciledRows(bs)[j].status = "batched"
                            => ReconciledRows(bs)[j].batch \notin bs
<1> DEFINE r1 == FallbacksExpired(job)
           r2 == Cancelled(r1, Jobs)
           r3 == AttemptsExpired(r2)
           r4 == Requeued(r3, bs)
           r5 == Cancelled(r4, Jobs)
<1>1. RowsOK(r1) /\ Kept(job, r1)
  BY ExpiredRows, ExpiredKeeps DEF SweptStep
<1> HIDE DEF r1
<1>2. RowsOK(r2) /\ Kept(r1, r2)
  BY <1>1, CancelledRows, CancelledKeeps DEF SweptStep
<1> HIDE DEF r2
<1>3. RowsOK(r3) /\ Kept(r2, r3)
  BY <1>2, ExpiredRows, ExpiredKeeps DEF SweptStep
<1> HIDE DEF r3
<1>4. RowsOK(r4) /\ Kept(r3, r4) /\ \A j \in Jobs : r4[j].status = "batched" => r4[j].batch \notin bs
  BY <1>3, RequeuedRows, RequeuedKeeps DEF SweptStep
<1> HIDE DEF r4
<1>5. Kept(r4, r5)
  BY <1>4, CancelledKeeps
<1> HIDE DEF r5
<1>6. Kept(job, r5) /\ \A j \in Jobs : r5[j].status = "batched" => r5[j].batch \notin bs
  BY <1>1, <1>2, <1>3, <1>4, <1>5 DEF Kept
<1>. QED BY <1>6 DEF ReconciledRows, r1, r2, r3, r4, r5

LEMMA ReconcileHoused ==
  ASSUME LedgerInv, Housed, NEW bs \in SUBSET Batches, Reconcile(bs)
  PROVE  NoneBatched
<1> DEFINE failed == [b \in Batches |-> IF b \in bs
                        THEN [batch[b] EXCEPT !.status = "failed"] ELSE batch[b]]
           final == ReconciledRows(bs)
           busy == {b \in Batches : \E j \in Jobs :
                      final[j].batch = b /\ final[j].status \in {"batched", "running"}}
<1>1. job' = final
  BY DEF Reconcile, ReconciledRows
<1>2. batch' = [b \in Batches |-> IF failed[b].status \in {"submitted", "running"} /\ b \notin busy
                                  THEN [failed[b] EXCEPT !.status = "complete"] ELSE failed[b]]
  BY DEF Reconcile, ReconciledRows
<1>3. /\ Kept(job, final)
      /\ \A j \in Jobs : final[j].status = "batched" => final[j].batch \notin bs
  BY ReconcileKeeps DEF LedgerInv
<1> HIDE DEF final
<1>4. \A b \in Batches \ bs : b \in busy => batch'[b] = batch[b]
  BY <1>2
<1>. QED BY <1>1, <1>3, <1>4 DEF NoneBatched, Kept, Housed, Waits

LEMMA ReleasedHoused ==
  ASSUME LedgerInv, Housed, NEW b \in Batches, ReleaseStale(b) \/ RenderEnded(b) \/ ReleaseBatch(b)
  PROVE  NoneBatched
<1>1. CASE UNCHANGED <<job, batch>>
  BY <1>1 DEF NoneBatched, Housed, Waits
<1>2. CASE job' = Requeued(job, {b}) /\ batch' = [batch EXCEPT ![b].status = "failed"]
  <2>1. RowsOK(job) /\ \A c \in Batches : c # b => batch'[c] = batch[c]
    BY <1>2 DEF LedgerInv, TypeOK
  <2>2. /\ Kept(job, job')
        /\ \A j \in Jobs : job'[j].status = "batched" => job'[j].batch \notin {b}
    BY <1>2, <2>1, RequeuedKeeps
  <2>. QED BY <2>1, <2>2 DEF NoneBatched, Kept, Housed, Waits
<1>. QED BY <1>1, <1>2 DEF ReleaseStale, RenderEnded, ReleaseBatch

LEMMA ClaimHoused ==
  ASSUME LedgerInv, Housed, NEW t \in Tasks, Claim(t)
  PROVE  NoneBatched
<1> DEFINE b     == task[t].batch
           first == batch[b].status \in {"pending", "submitted"}
           got   == IF first THEN FreshClaims(b)
                    ELSE IF batch[b].status = "running" THEN LiveClaims(b) ELSE {}
<1>1. b \in Batches /\ job \in [Jobs -> JobRows] /\ batch \in [Batches -> BatchRows]
  BY DEF LedgerInv, TypeOK, TasksOK, Claim
<1>2. batch' = IF first THEN [batch EXCEPT ![b].status = "running"] ELSE batch
  BY DEF Claim
<1>3. \A j \in Jobs : job'[j].status = "batched" => j \notin got /\ job'[j] = job[j]
  <2> SUFFICES ASSUME NEW j \in Jobs PROVE job'[j].status = "batched" => j \notin got /\ job'[j] = job[j]
    OBVIOUS
  <2>1. job[j] \in JobRows
    BY <1>1
  <2>2. job'[j] = IF j \in got THEN [job[j] EXCEPT !.status = "running", !.lease = "live",
                                       !.attempts = IF first THEN @ + 1 ELSE @]
                  ELSE job[j]
    BY DEF Claim
  <2> HIDE DEF got, first
  <2>. QED BY <2>1, <2>2 DEF JobRows
<1>4. CASE ~first
  BY <1>2, <1>3, <1>4 DEF NoneBatched, Housed, Waits
<1>5. CASE first
  <2>1. \A j \in Jobs : job[j].status = "batched" /\ job[j].batch = b /\ j \notin got
                        => ParentEnded(j)
    BY <1>5 DEF FreshClaims, InBatch, Housed
  <2>2. \A c \in Batches : c # b => batch'[c] = batch[c]
    BY <1>1, <1>2, <1>5
  <2>. QED BY <1>3, <2>1, <2>2 DEF NoneBatched, Housed, Waits
<1>. QED BY <1>4, <1>5

\* Actions that batch no row and leave the batches alone, or push them on.
LEMMA OneRowHoused ==
  ASSUME RowsOK(job), Housed, batch' = batch, NEW j \in Jobs, NEW row,
         job' = [job EXCEPT ![j] = row] \/ job' = job,
         \/ row.status # "batched"
         \/ row.status = job[j].status /\ row.batch = job[j].batch
  PROVE  NoneBatched
BY DEF RowsOK, NoneBatched, Housed, Waits

LEMMA OthersHoused ==
  ASSUME LedgerInv, Housed, [Next]_vars, Immediate = FALSE
  PROVE  Housed'
<1> USE CrawlerAssumption DEF CrawlerAssumption
<1>1. /\ RowsOK(job) /\ OthersOK /\ TasksTyped /\ job \in [Jobs -> JobRows]
      /\ batch \in [Batches -> BatchRows]
  BY DEF LedgerInv, TypeOK, OthersOK, TasksTyped
<1>2. NoneBatched /\ nudged' = nudged => Housed'
  BY <1>1, StaysHoused DEF Housed
<1>3. CASE job' = job /\ UNCHANGED <<batch, nudged>>
  <2>1. NoneBatched
    BY <1>3 DEF NoneBatched, Housed
  <2>. QED BY <1>2, <1>3, <2>1
<1>4. ASSUME NEW j \in Jobs, NEW row, job' = job \/ job' = [job EXCEPT ![j] = row],
             \/ row.status # "batched"
             \/ row.status = job[j].status /\ row.batch = job[j].batch,
             UNCHANGED <<batch, nudged>>
      PROVE  Housed'
  BY <1>1, <1>2, <1>4, OneRowHoused
<1>5. CASE DispatchStep
  <2>1. ASSUME NEW b \in Batches, CreateBatch(b) PROVE Housed'
    BY <1>1, <2>1, FormHoused
  <2>2. ASSUME NEW b \in Batches, ReleaseBatch(b) PROVE Housed'
    BY <1>2, <2>2, ReleasedHoused DEF ReleaseBatch
  <2>3. ASSUME NEW b \in Batches, Reserve(b) \/ MarkSubmitted(b) PROVE Housed'
    <3>1. job' = job /\ nudged' = nudged
      BY <2>3 DEF Reserve, MarkSubmitted
    <3>2. \A c \in Batches : Waits(batch, c) => Waits(batch', c)
      BY <1>1, <2>3 DEF Reserve, MarkSubmitted, Waits, BatchRows
    <3>3. NoneBatched
      BY <3>1, <3>2 DEF NoneBatched, Housed
    <3>. QED BY <1>2, <3>1, <3>3
  <2>4. ASSUME NEW b \in Batches,
               StartRefused(b) \/ DispatcherDies(b) \/ \E t \in Tasks : StartAccepted(b, t)
        PROVE  Housed'
    BY <1>3, <2>4 DEF StartRefused, DispatcherDies, StartAccepted
  <2>5. ASSUME NEW j \in Jobs, Nudge(j) \/ FormProxyBatch(j) PROVE Housed'
    BY <2>5 DEF Nudge, FormProxyBatch, Housed
  <2>6. ASSUME NEW j \in Jobs, Enqueue(j) PROVE Housed'
    <3>1. PICK s \in {"queued", "fallback_required"} :
            job' = [job EXCEPT ![j] = [job[j] EXCEPT !.status = s]]
      BY <1>1, <2>6 DEF Enqueue
    <3> DEFINE row == [job[j] EXCEPT !.status = s]
    <3>2. row.status # "batched" /\ job' = [job EXCEPT ![j] = row]
      BY <1>1, <3>1 DEF JobRows
    <3> HIDE DEF row
    <3>. QED BY <1>4, <2>6, <3>2 DEF Enqueue
  <2>. QED BY <1>5, <2>1, <2>2, <2>3, <2>4, <2>5, <2>6 DEF DispatchStep
<1>6. CASE TaskStep
  <2>1. ASSUME NEW t \in Tasks, Claim(t) PROVE Housed'
    BY <1>2, <2>1, ClaimHoused DEF Claim
  <2>2. ASSUME NEW t \in Tasks,
               \/ Work(t) \/ TaskEnds(t) \/ CutOff(t) \/ Resend(t)
               \/ \E u \in Tasks : Replayed(t, u)
        PROVE  Housed'
    BY <1>3, <2>2 DEF Work, TaskEnds, CutOff, Resend, Replayed
  <2>3. ASSUME NEW c \in calls, ReadJob(c) \/ CallFails(c) PROVE Housed'
    BY <1>3, <2>3 DEF ReadJob, CallFails
  <2>4. ASSUME NEW c \in calls, Accept(c) \/ AcceptUnheard(c) \/ RejectBundle(c) \/ ReportFailure(c)
        PROVE  Housed'
    <3>1. UNCHANGED <<batch, nudged>>
      BY <2>4 DEF Accept, AcceptUnheard, RejectBundle, ReportFailure
    <3>2. c.job \in Jobs /\ RowOK(job[c.job]) /\ job[c.job] \in JobRows
      BY <1>1 DEF TasksTyped, Callbacks, RowsOK
    <3>3. CASE Holds(c.job, c.token)
      <4>1. job[c.job].status = "running"
        BY <3>3 DEF Holds
      <4>2. Succeeded(job[c.job], Bundle(c)[2]).status # "batched"
        BY <3>2 DEF Succeeded, JobRows
      <4>3. \A class : Failed(c.job, job[c.job], class).status # "batched"
        BY <3>2, <4>1, FailedRow
      <4>4. PICK row : row.status # "batched" /\ job' = [job EXCEPT ![c.job] = row]
        BY <2>4, <3>3, <4>2, <4>3 DEF Accept, AcceptUnheard, RejectBundle, ReportFailure, Completed
      <4>. QED BY <1>4, <3>1, <3>2, <4>4
    <3>4. CASE ~Holds(c.job, c.token)
      <4>1. job' = job
        BY <2>4, <3>4 DEF Accept, AcceptUnheard, RejectBundle, ReportFailure, Completed
      <4>. QED BY <1>3, <3>1, <4>1
    <3>. QED BY <3>3, <3>4
  <2>. QED BY <1>6, <2>1, <2>2, <2>3, <2>4 DEF TaskStep
<1>7. CASE RecoveryStep
  <2>1. ASSUME NEW b \in Batches, ReleaseStale(b) \/ RenderEnded(b) PROVE Housed'
    BY <1>2, <2>1, ReleasedHoused DEF ReleaseStale, RenderEnded
  <2>2. ASSUME NEW bs \in SUBSET Batches, Reconcile(bs) PROVE Housed'
    BY <1>2, <2>2, ReconcileHoused DEF Reconcile
  <2>3. ASSUME NEW j \in Jobs, LeaseLapses(j) PROVE Housed'
    <3> DEFINE row == [job[j] EXCEPT !.lease = "lapsed"]
    <3>1. row.status = job[j].status /\ row.batch = job[j].batch /\ job' = [job EXCEPT ![j] = row]
      BY <1>1, <2>3 DEF LeaseLapses, JobRows
    <3> HIDE DEF row
    <3>. QED BY <1>4, <2>3, <3>1 DEF LeaseLapses
  <2>. QED BY <1>7, <2>1, <2>2, <2>3 DEF RecoveryStep
<1>8. CASE CallerStep
  <2>1. ASSUME NEW r \in Runs, RunEnds(r) \/ \E h \in BOOLEAN : RunLeased(r, h) PROVE Housed'
    BY <1>3, <2>1 DEF RunEnds, RunLeased
  <2>2. ASSUME NEW r \in Runs, CancelJobs(r) PROVE Housed'
    <3>1. Kept(job, job') /\ UNCHANGED <<batch, nudged>>
      BY <1>1, <2>2, CancelledKeeps DEF CancelJobs
    <3>2. NoneBatched
      BY <3>1 DEF NoneBatched, Kept, Housed
    <3>. QED BY <1>2, <3>1, <3>2
  <2>3. ASSUME NEW j \in Jobs, ClaimFallback(j) \/ HandOff(j) \/ CleanUp(j) PROVE Housed'
    <3>1. PICK row : /\ row.status # "batched" \/ (row.status = job[j].status /\ row.batch = job[j].batch)
                     /\ job' = [job EXCEPT ![j] = row]
      <4>1. CASE ClaimFallback(j)
        <5> DEFINE row == [job[j] EXCEPT !.lease = "live", !.spent = TRUE]
        <5>1. row.status = job[j].status /\ row.batch = job[j].batch /\ job' = [job EXCEPT ![j] = row]
          BY <1>1, <4>1 DEF ClaimFallback, JobRows
        <5>. QED BY <5>1
      <4>2. CASE HandOff(j)
        <5> DEFINE row == [job[j] EXCEPT !.status = "terminal_failed"]
        <5>1. row.status # "batched" /\ job' = [job EXCEPT ![j] = row]
          BY <1>1, <4>2 DEF HandOff, JobRows
        <5>. QED BY <5>1
      <4>3. CASE CleanUp(j)
        <5> DEFINE row == [job[j] EXCEPT !.result = None]
        <5>1. row.status = job[j].status /\ row.batch = job[j].batch /\ job' = [job EXCEPT ![j] = row]
          BY <1>1, <4>3 DEF CleanUp, JobRows
        <5>. QED BY <5>1
      <4>. QED BY <2>3, <4>1, <4>2, <4>3
    <3>2. UNCHANGED <<batch, nudged>>
      BY <2>3 DEF ClaimFallback, HandOff, CleanUp
    <3>. QED BY <1>4, <3>1, <3>2
  <2>4. ASSUME NEW j \in Jobs, FallbackDies(j) PROVE Housed'
    BY <1>3, <2>4 DEF FallbackDies
  <2>5. ASSUME NEW j \in Jobs, NEW ok \in BOOLEAN, FallbackReturns(j, ok) PROVE Housed'
    <3> DEFINE paid == Succeeded(job[j], Firecrawl)
               gone == [job[j] EXCEPT !.status = "terminal_failed", !.lease = "none"]
    <3>1. paid.status # "batched" /\ gone.status # "batched"
      BY <1>1 DEF Succeeded, JobRows
    <3>2. /\ UNCHANGED <<batch, nudged>>
          /\ job' = job \/ job' = [job EXCEPT ![j] = paid] \/ job' = [job EXCEPT ![j] = gone]
      BY <2>5 DEF FallbackReturns
    <3> HIDE DEF paid, gone
    <3>. QED BY <1>4, <3>1, <3>2
  <2>. QED BY <1>8, <2>1, <2>2, <2>3, <2>4, <2>5 DEF CallerStep
<1>9. CASE UNCHANGED vars
  BY <1>3, <1>9 DEF vars
<1>. QED BY <1>5, <1>6, <1>7, <1>8, <1>9 DEF Next

\* As long as only the cron of the dispatcher forms batches, no batched job is
\* left in a batch that nobody will claim or release: a batch is marked
\* running by the claim that takes its batched jobs, and failed by the
\* statement that requeues them.  A nudged proxy job locks its row at the
\* wrong moment for that claim, and is why the assumption is there.
THEOREM CrawlerNoneStranded ==
  ASSUME Immediate = FALSE
  PROVE  Spec => []NoneStranded
<1>1. Init => LedgerInv /\ Housed
  BY InitLedger DEF Init, Housed, NoJob
<1>2. LedgerInv /\ Housed /\ [Next]_vars => (LedgerInv /\ Housed)'
  BY NextLedger, OthersHoused
<1>3. LedgerInv /\ Housed => NoneStranded
  BY DEF Housed, NoneStranded, Waits
<1>. QED BY <1>1, <1>2, <1>3, PTL DEF Spec

-----------------------------------------------------------------------------
(* Bundles                                                                 *)

\* The result names a bundle that a task has uploaded.
Named(result) == result \notin {None, Firecrawl}

\* An execution has one callback under way at most, which it awaits unless it
\* has died.
CallsInv ==
  /\ \A c, d \in calls : c.task = d.task => c = d
  /\ \A c \in calls : task[c.task].phase = "free" \/ Awaited(c)

\* Every bundle a job names is in the bucket, and a callback that has read its
\* job carries a bundle that no job names yet.
BundlesInv ==
  /\ \A j \in Jobs : Named(job[j].result) => <<j, job[j].result>> \in store
  /\ \A c \in calls : c.read /\ Named(job[c.job].result) => job[c.job].result # Bundle(c)[2]

\* The results of a ledger that is new where they are not the old ones.
Fades(old, new) == \A j \in Jobs : new[j].result \in {old[j].result, None, Firecrawl}

OfCallback(c) ==
  ReadJob(c) \/ Accept(c) \/ RejectBundle(c) \/ ReportFailure(c) \/ CallFails(c)

LEMMA OneRowFades ==
  ASSUME RowsOK(job), NEW j \in Jobs, NEW row, row.result \in {job[j].result, None, Firecrawl},
         job' = [job EXCEPT ![j] = row]
  PROVE  Fades(job, job')
BY DEF RowsOK, Fades

LEMMA FormFades ==
  ASSUME RowsOK(job), NEW b, NEW js, Form(b, js)
  PROVE  Fades(job, job')
<1> SUFFICES ASSUME NEW j \in Jobs PROVE job'[j].result = job[j].result
  BY DEF Fades
<1>1. job[j] \in JobRows
  BY DEF RowsOK
<1>2. job'[j] = IF j \in js THEN [job[j] EXCEPT !.status = "batched", !.batch = b]
                ELSE IF job[j].batch = b THEN [job[j] EXCEPT !.batch = None]
                ELSE job[j]
  BY DEF Form
<1>. QED BY <1>1, <1>2 DEF JobRows

LEMMA ClaimFades ==
  ASSUME RowsOK(job), NEW t, Claim(t)
  PROVE  Fades(job, job')
<1> DEFINE b     == task[t].batch
           first == batch[b].status \in {"pending", "submitted"}
           got   == IF first THEN FreshClaims(b)
                    ELSE IF batch[b].status = "running" THEN LiveClaims(b) ELSE {}
<1> SUFFICES ASSUME NEW j \in Jobs PROVE job'[j].result = job[j].result
  BY DEF Fades
<1>1. job[j] \in JobRows
  BY DEF RowsOK
<1>2. job'[j] = IF j \in got THEN [job[j] EXCEPT !.status = "running", !.lease = "live",
                                     !.attempts = IF first THEN @ + 1 ELSE @]
                ELSE job[j]
  BY DEF Claim
<1> HIDE DEF got, first
<1>. QED BY <1>1, <1>2 DEF JobRows

\* A callback that does not accept its bundle fails its job or leaves it.
LEMMA FailureFades ==
  ASSUME RowsOK(job), NEW c \in Callbacks,
         RejectBundle(c) \/ ReportFailure(c) \/ ReadJob(c) \/ CallFails(c)
  PROVE  Fades(job, job')
<1>1. CASE job' = job
  BY <1>1 DEF Fades
<1>2. ASSUME NEW class, job' = Completed(c, Failed(c.job, job[c.job], class))
      PROVE  Fades(job, job')
  <2>1. c.job \in Jobs /\ job[c.job] \in JobRows
    BY DEF RowsOK, Callbacks
  <2> DEFINE row == Failed(c.job, job[c.job], class)
  <2>2. row.result = job[c.job].result
    BY <2>1 DEF Failed, JobRows
  <2>3. job' = job \/ job' = [job EXCEPT ![c.job] = row]
    BY <1>2 DEF Completed
  <2> HIDE DEF row
  <2>. QED BY <1>1, <2>1, <2>2, <2>3, OneRowFades
<1>. QED BY <1>1, <1>2 DEF RejectBundle, ReportFailure, ReadJob, CallFails

\* Only callbacks that accept a bundle name one.
LEMMA OthersFade ==
  ASSUME LedgerInv, DispatchStep \/ RecoveryStep \/ CallerStep \/ UNCHANGED vars
  PROVE  Fades(job, job')
<1>1. RowsOK(job) /\ \A j \in Jobs : job[j] \in JobRows
  BY DEF LedgerInv, RowsOK
<1>2. CASE job' = job
  BY <1>2 DEF Fades
<1>3. CASE SweptStep(job, job')
  BY <1>3 DEF SweptStep, Swept, Fades
<1>4. ASSUME NEW b \in Batches, ReleaseStale(b) \/ RenderEnded(b) \/ ReleaseBatch(b)
      PROVE  Fades(job, job')
  <2>1. job' = job \/ job' = Requeued(job, {b})
    BY <1>4 DEF ReleaseStale, RenderEnded, ReleaseBatch
  <2>. QED BY <1>1, <1>2, <1>3, <2>1, RequeuedRows
<1>5. ASSUME NEW j \in Jobs,
             \/ Enqueue(j) \/ LeaseLapses(j) \/ ClaimFallback(j) \/ HandOff(j) \/ CleanUp(j)
             \/ \E ok \in BOOLEAN : FallbackReturns(j, ok)
      PROVE  Fades(job, job')
  <2>1. PICK row : /\ row.result \in {job[j].result, None, Firecrawl}
                   /\ job' = job \/ job' = [job EXCEPT ![j] = row]
    <3>1. ASSUME NEW s, Enqueue(j), job' = [job EXCEPT ![j].status = s]
          PROVE  \E row : /\ row.result \in {job[j].result, None, Firecrawl}
                          /\ job' = job \/ job' = [job EXCEPT ![j] = row]
      <4> DEFINE row == [job[j] EXCEPT !.status = s]
      <4>1. job' = [job EXCEPT ![j] = row] /\ row.result = job[j].result
        BY <1>1, <3>1 DEF JobRows, RowsOK
      <4> HIDE DEF row
      <4>2. /\ row.result \in {job[j].result, None, Firecrawl}
            /\ job' = job \/ job' = [job EXCEPT ![j] = row]
        BY <4>1
      <4>. QED BY <4>2
    <3>2. CASE LeaseLapses(j)
      <4> DEFINE row == [job[j] EXCEPT !.lease = "lapsed"]
      <4>1. job' = [job EXCEPT ![j] = row] /\ row.result = job[j].result
        BY <1>1, <3>2 DEF LeaseLapses, JobRows, RowsOK
      <4> HIDE DEF row
      <4>2. /\ row.result \in {job[j].result, None, Firecrawl}
            /\ job' = job \/ job' = [job EXCEPT ![j] = row]
        BY <4>1
      <4>. QED BY <4>2
    <3>3. CASE ClaimFallback(j)
      <4> DEFINE row == [job[j] EXCEPT !.lease = "live", !.spent = TRUE]
      <4>1. job' = [job EXCEPT ![j] = row] /\ row.result = job[j].result
        BY <1>1, <3>3 DEF ClaimFallback, JobRows, RowsOK
      <4> HIDE DEF row
      <4>2. /\ row.result \in {job[j].result, None, Firecrawl}
            /\ job' = job \/ job' = [job EXCEPT ![j] = row]
        BY <4>1
      <4>. QED BY <4>2
    <3>4. CASE HandOff(j)
      <4> DEFINE row == [job[j] EXCEPT !.status = "terminal_failed"]
      <4>1. job' = [job EXCEPT ![j] = row] /\ row.result = job[j].result
        BY <1>1, <3>4 DEF HandOff, JobRows, RowsOK
      <4> HIDE DEF row
      <4>2. /\ row.result \in {job[j].result, None, Firecrawl}
            /\ job' = job \/ job' = [job EXCEPT ![j] = row]
        BY <4>1
      <4>. QED BY <4>2
    <3>5. CASE CleanUp(j)
      <4> DEFINE row == [job[j] EXCEPT !.result = None]
      <4>1. job' = [job EXCEPT ![j] = row] /\ row.result = None
        BY <1>1, <3>5 DEF CleanUp, JobRows, RowsOK
      <4> HIDE DEF row
      <4>2. /\ row.result \in {job[j].result, None, Firecrawl}
            /\ job' = job \/ job' = [job EXCEPT ![j] = row]
        BY <4>1
      <4>. QED BY <4>2
    <3>6. ASSUME NEW ok \in BOOLEAN, FallbackReturns(j, ok)
          PROVE  \E row : /\ row.result \in {job[j].result, None, Firecrawl}
                          /\ job' = job \/ job' = [job EXCEPT ![j] = row]
      <4> DEFINE gone == [job[j] EXCEPT !.status = "terminal_failed", !.lease = "none"]
                 paid == Succeeded(job[j], Firecrawl)
      <4>1. gone.result = job[j].result /\ paid.result = Firecrawl
        BY <1>1 DEF JobRows, Succeeded
      <4>2. job' = job \/ job' = [job EXCEPT ![j] = paid] \/ job' = [job EXCEPT ![j] = gone]
        BY <3>6 DEF FallbackReturns
      <4> HIDE DEF gone, paid
      <4>. QED BY <4>1, <4>2
    <3>. QED BY <1>5, <3>1, <3>2, <3>3, <3>4, <3>5, <3>6 DEF Enqueue
  <2>. QED BY <1>1, <1>2, <2>1, OneRowFades
<1>6. CASE DispatchStep
  <2>1. ASSUME NEW b \in Batches, CreateBatch(b) PROVE Fades(job, job')
    BY <1>1, <2>1, FormFades DEF CreateBatch
  <2>2. ASSUME NEW j \in Jobs, Nudge(j) \/ FormProxyBatch(j) PROVE Fades(job, job')
    BY <1>1, <1>2, <2>2, FormFades DEF Nudge, FormProxyBatch
  <2>3. ASSUME NEW b \in Batches,
               \/ Reserve(b) \/ MarkSubmitted(b) \/ StartRefused(b) \/ DispatcherDies(b)
               \/ \E t \in Tasks : StartAccepted(b, t)
        PROVE  Fades(job, job')
    BY <1>2, <2>3 DEF Reserve, MarkSubmitted, StartRefused, DispatcherDies, StartAccepted
  <2>. QED BY <1>4, <1>5, <1>6, <2>1, <2>2, <2>3 DEF DispatchStep
<1>7. CASE RecoveryStep
  <2>1. ASSUME NEW bs \in SUBSET Batches, Reconcile(bs) PROVE Fades(job, job')
    <3>1. job' = ReconciledRows(bs)
      BY <2>1 DEF Reconcile, ReconciledRows
    <3>. QED BY <1>1, <1>3, <3>1, ReconcileRows
  <2>. QED BY <1>4, <1>5, <1>7, <2>1 DEF RecoveryStep
<1>8. CASE CallerStep
  <2>1. ASSUME NEW r \in Runs, CancelJobs(r) PROVE Fades(job, job')
    BY <1>1, <1>3, <2>1, CancelledRows DEF CancelJobs
  <2>2. ASSUME NEW r \in Runs, RunEnds(r) \/ \E h \in BOOLEAN : RunLeased(r, h)
        PROVE  Fades(job, job')
    BY <1>2, <2>2 DEF RunEnds, RunLeased
  <2>3. ASSUME NEW j \in Jobs, FallbackDies(j) PROVE Fades(job, job')
    BY <1>2, <2>3 DEF FallbackDies
  <2>. QED BY <1>5, <1>8, <2>1, <2>2, <2>3 DEF CallerStep
<1>9. CASE UNCHANGED vars
  BY <1>2, <1>9 DEF vars
<1>. QED BY <1>6, <1>7, <1>8, <1>9

-----------------------------------------------------------------------------
(* Callbacks under way                                                     *)

\* Steps that take callbacks away and move one execution that has none.
LEMMA FewerCalls ==
  ASSUME CallsInv, NEW t \in Tasks, calls' \subseteq calls,
         task' = task \/ \E new : task' = [task EXCEPT ![t] = new],
         \A c \in calls' : c.task # t \/ task'[c.task].phase = "free",
         task \in [Tasks -> TaskStates], calls \subseteq Callbacks
  PROVE  CallsInv'
<1>1. \A c \in calls' : task'[c.task] = task[c.task] \/ task'[c.task].phase = "free"
  <2> SUFFICES ASSUME NEW c \in calls'
               PROVE  task'[c.task] = task[c.task] \/ task'[c.task].phase = "free"
    OBVIOUS
  <2>1. c.task \in Tasks
    BY DEF Callbacks
  <2>. QED BY <2>1
<1>. QED BY <1>1 DEF CallsInv, Awaited

LEMMA BootCalls ==
  ASSUME CallsInv, TasksTyped, NEW t \in Tasks, NEW b, Boot(t, b), calls' = calls
  PROVE  CallsInv'
<1>1. \A c \in calls : c.task # t
  BY DEF Boot, FreeTask
<1>. QED BY <1>1, FewerCalls DEF Boot, TasksTyped

\* An execution that claims, works or is about to resend awaits no callback.
LEMMA NothingAwaited ==
  ASSUME CallsInv, NEW t \in Tasks, task[t].phase \notin {"free", "call"}
  PROVE  \A c \in calls : c.task # t
BY DEF CallsInv, Awaited

LEMMA NewCall ==
  ASSUME CallsInv, TasksTyped, NEW t \in Tasks, task[t].phase \in {"work", "retry"},
         NEW c \in Callbacks, c.task = t, calls' = calls \cup {c},
         NEW new, task' = [task EXCEPT ![t] = new],
         new.phase = "call", new.item.job = c.job, new.item.sends = c.copy
  PROVE  CallsInv'
<1>1. \A d \in calls : d.task # t /\ d.task \in Tasks
  BY NothingAwaited DEF TasksTyped, Callbacks
<1>2. task'[t] = new /\ \A d \in calls : task'[d.task] = task[d.task]
  BY <1>1 DEF TasksTyped
<1>. QED BY <1>1, <1>2 DEF CallsInv, Awaited

LEMMA AnswerCalls ==
  ASSUME CallsInv, TasksTyped, NEW c \in calls, NEW phase, Answer(c, phase)
  PROVE  CallsInv'
<1>1. c.task \in Tasks /\ calls' = calls \ {c} /\ \A d \in calls' : d.task # c.task
  BY DEF TasksTyped, Callbacks, Answer, CallsInv
<1>2. task' = task \/ \E new : task' = [task EXCEPT ![c.task] = new]
  <2>1. CASE Awaited(c)
    <3>1. task' = [task EXCEPT ![c.task] = [task[c.task] EXCEPT !.phase = phase,
                     !.item = IF phase = "work" THEN None ELSE @]]
      BY <2>1 DEF Answer, TasksTyped
    <3>. QED BY <3>1
  <2>2. CASE ~Awaited(c)
    BY <2>2 DEF Answer
  <2>. QED BY <2>1, <2>2
<1>. QED BY <1>1, <1>2, FewerCalls DEF TasksTyped

LEMMA CallbackCalls ==
  ASSUME CallsInv, TasksTyped, NEW c \in calls, OfCallback(c)
  PROVE  CallsInv'
<1>1. CASE \E phase : Answer(c, phase)
  BY <1>1, AnswerCalls
<1>2. CASE ReadJob(c) /\ ~\E phase : Answer(c, phase)
  <2> DEFINE d == [c EXCEPT !.read = TRUE]
  <2>1. calls' = (calls \ {c}) \cup {d} /\ task' = task
    BY <1>2 DEF ReadJob
  <2>2. d.task = c.task /\ d.job = c.job /\ d.copy = c.copy
    BY DEF TasksTyped, Callbacks
  <2> HIDE DEF d
  <2>. QED BY <2>1, <2>2 DEF CallsInv, Awaited
<1>. QED BY <1>1, <1>2 DEF OfCallback, Accept, RejectBundle, ReportFailure, CallFails, ReadJob, Answered

LEMMA CallsStep ==
  ASSUME LedgerInv, CallsInv, LostAnswers = FALSE, [Next]_vars
  PROVE  CallsInv'
<1>1. TasksTyped
  BY DEF LedgerInv, TypeOK, TasksTyped
<1>2. CASE UNCHANGED <<task, calls>>
  BY <1>2 DEF CallsInv, Awaited
<1>3. CASE DispatchStep
  <2>1. ASSUME NEW b \in Batches, NEW t \in Tasks, StartAccepted(b, t) PROVE CallsInv'
    BY <1>1, <2>1, BootCalls DEF StartAccepted
  <2>2. ASSUME NEW b \in Batches,
               \/ CreateBatch(b) \/ Reserve(b) \/ MarkSubmitted(b) \/ ReleaseBatch(b)
               \/ StartRefused(b) \/ DispatcherDies(b)
        PROVE  UNCHANGED <<task, calls>>
    BY <2>2 DEF CreateBatch, Reserve, MarkSubmitted, ReleaseBatch, StartRefused, DispatcherDies
  <2>3. ASSUME NEW j \in Jobs, Enqueue(j) \/ Nudge(j) \/ FormProxyBatch(j)
        PROVE  UNCHANGED <<task, calls>>
    BY <2>3 DEF Enqueue, Nudge, FormProxyBatch
  <2>. QED BY <1>2, <1>3, <2>1, <2>2, <2>3 DEF DispatchStep
<1>4. CASE TaskStep
  <2>1. ASSUME NEW t \in Tasks, Claim(t) PROVE CallsInv'
    <3>1. \A c \in calls : c.task # t
      BY <2>1, NothingAwaited DEF Claim
    <3>2. calls' = calls /\ (task' = task \/ \E new : task' = [task EXCEPT ![t] = new])
      <4> DEFINE todo == {<<j, job'[j].attempts>> :
                            j \in IF batch[task[t].batch].status \in {"pending", "submitted"}
                                  THEN FreshClaims(task[t].batch)
                                  ELSE IF batch[task[t].batch].status = "running"
                                       THEN LiveClaims(task[t].batch) ELSE {}}
      <4>1. task' \in {task, [task EXCEPT ![t].phase = "work", ![t].todo = todo]}
        BY <2>1 DEF Claim
      <4> HIDE DEF todo
      <4>2. [task EXCEPT ![t].phase = "work", ![t].todo = todo] =
            [task EXCEPT ![t] = [task[t] EXCEPT !.phase = "work", !.todo = todo]]
        BY <1>1 DEF TasksTyped
      <4>. QED BY <2>1, <4>1, <4>2 DEF Claim
    <3>. QED BY <1>1, <3>1, <3>2, FewerCalls DEF TasksTyped
  <2>2. ASSUME NEW t \in Tasks, Work(t) PROVE CallsInv'
    <3>1. PICK i \in task[t].todo, o \in Outcomes :
            /\ task' = [task EXCEPT
                 ![t].phase = "call",
                 ![t].todo = @ \ {i},
                 ![t].item = [job |-> i[1], token |-> i[2], outcome |-> o, sends |-> 1]]
            /\ calls' = calls \cup
                 {[task |-> t, batch |-> task[t].batch, job |-> i[1], token |-> i[2],
                   outcome |-> o, copy |-> 1, read |-> FALSE]}
      BY <2>2 DEF Work
    <3> DEFINE c   == [task |-> t, batch |-> task[t].batch, job |-> i[1], token |-> i[2],
                       outcome |-> o, copy |-> 1, read |-> FALSE]
               new == [task[t] EXCEPT
                         !.phase = "call", !.todo = @ \ {i},
                         !.item = [job |-> i[1], token |-> i[2], outcome |-> o, sends |-> 1]]
    <3>2. new.phase = "call" /\ new.item.job = c.job /\ new.item.sends = c.copy
      BY <1>1 DEF TasksTyped, TaskStates
    <3>3. calls' = calls \cup {c} /\ task' = [task EXCEPT ![t] = new] /\ c.task = t
      BY <1>1, <3>1 DEF TasksTyped
    <3>4. c \in Callbacks
      BY <1>1, <2>2, <3>3, WorkTyped DEF TasksTyped
    <3> HIDE DEF c, new
    <3>. QED BY <1>1, <2>2, <3>2, <3>3, <3>4, NewCall DEF Work
  <2>3. ASSUME NEW t \in Tasks, Resend(t) PROVE CallsInv'
    <3> DEFINE i   == task[t].item
               c   == [task |-> t, batch |-> task[t].batch, job |-> i.job, token |-> i.token,
                       outcome |-> i.outcome, copy |-> i.sends + 1, read |-> FALSE]
               new == [task[t] EXCEPT !.phase = "call", !.item.sends = @ + 1]
    <3>1. calls' = calls \cup {c} /\ task' = [task EXCEPT ![t] = new] /\ c.task = t
      BY <1>1, <2>3 DEF Resend, TasksTyped
    <3>2. new.phase = "call" /\ new.item.job = c.job /\ new.item.sends = c.copy
      BY <1>1, <2>3 DEF TasksTyped, TasksOK, TaskStates, Items, Resend
    <3>3. c \in Callbacks
      BY <1>1, <2>3, <3>1, ResendTyped DEF TasksTyped
    <3>4. task[t].phase = "retry"
      BY <2>3 DEF Resend
    <3> HIDE DEF c, new, i
    <3>. QED BY <1>1, <3>1, <3>2, <3>3, <3>4, NewCall
  <2>4. ASSUME NEW t \in Tasks, TaskEnds(t) PROVE CallsInv'
    <3>1. task' = [task EXCEPT ![t] = NoTask] /\ calls' = calls /\ NoTask.phase = "free"
      BY <2>4 DEF TaskEnds, NoTask
    <3>2. task'[t].phase = "free"
      BY <1>1, <3>1 DEF TasksTyped
    <3>. QED BY <1>1, <3>1, <3>2, FewerCalls DEF TasksTyped
  <2>5. ASSUME NEW t \in Tasks, NEW u \in Tasks, Replayed(t, u) PROVE CallsInv'
    BY <1>1, <2>5, BootCalls DEF Replayed
  <2>6. ASSUME NEW c \in calls, OfCallback(c) PROVE CallsInv'
    BY <1>1, <2>6, CallbackCalls
  <2>. QED BY <1>4, <2>1, <2>2, <2>3, <2>4, <2>5, <2>6
       DEF TaskStep, OfCallback, CutOff, AcceptUnheard
<1>5. CASE RecoveryStep
  BY <1>2, <1>5 DEF RecoveryStep, LeaseLapses, ReleaseStale, RenderEnded, Reconcile
<1>6. CASE CallerStep
  BY <1>2, <1>6 DEF CallerStep, ClaimFallback, FallbackDies, HandOff, FallbackReturns,
     RunEnds, CancelJobs, RunLeased, CleanUp
<1>7. CASE UNCHANGED vars
  BY <1>2, <1>7 DEF vars
<1>. QED BY <1>3, <1>4, <1>5, <1>6, <1>7 DEF Next

-----------------------------------------------------------------------------
(* What is deleted from the bucket                                         *)

\* Steps that name no new bundle and delete none that is named.
LEMMA NothingNamed ==
  ASSUME BundlesInv, Fades(job, job'),
         \A c \in calls' : c.read => c \in calls,
         \A j \in Jobs : Named(job'[j].result) => <<j, job[j].result>> \in store',
         calls \subseteq Callbacks
  PROVE  BundlesInv'
<1>1. \A j \in Jobs : Named(job'[j].result) => job'[j].result = job[j].result
  BY DEF Fades, Named
<1>2. \A c \in calls : c.job \in Jobs
  BY DEF Callbacks
<1>3. \A c : Bundle(c)' = Bundle(c)
  BY DEF Bundle
<1>. QED BY <1>1, <1>2, <1>3 DEF BundlesInv

LEMMA BootBundles ==
  ASSUME LedgerInv, BundlesInv, NEW t \in Tasks, NEW b, Boot(t, b), UNCHANGED <<job, calls>>
  PROVE  BundlesInv'
<1>1. /\ \A j \in Jobs : \A k \in 1..MaxAttempts : job[j].result # <<k, t>>
      /\ store' = {s \in store : s[2][2] # t}
  BY DEF Boot, FreeTask
<1>2. ASSUME NEW j \in Jobs, Named(job[j].result) PROVE <<j, job[j].result>> \in store'
  <2>1. job[j] \in JobRows
    BY DEF LedgerInv, RowsOK
  <2>2. job[j].result \in (1..MaxAttempts) \X Tasks
    BY <1>2, <2>1 DEF JobRows, Named
  <2>3. job[j].result[2] # t
    BY <1>1, <2>2
  <2>4. <<j, job[j].result>> \in store
    BY <1>2 DEF BundlesInv
  <2>. QED BY <1>1, <2>3, <2>4
<1>. QED BY <1>2, NothingNamed DEF Fades, LedgerInv, TypeOK

\* A callback deletes its own bundle only when its job names another one.
LEMMA OwnBundle ==
  ASSUME LedgerInv, BundlesInv, NEW c \in calls, Fades(job, job'),
         \A d \in calls' : d.read => d \in calls,
         \/ store' = store
         \/ /\ store' = store \ {Bundle(c)}
            /\ Named(job[c.job].result) => job[c.job].result # Bundle(c)[2]
  PROVE  BundlesInv'
<1>1. ASSUME NEW j \in Jobs, Named(job'[j].result) PROVE <<j, job[j].result>> \in store'
  <2>1. job'[j].result = job[j].result
    BY <1>1 DEF Fades, Named
  <2>2. <<j, job[j].result>> \in store
    BY <1>1, <2>1 DEF BundlesInv
  <2>3. Named(job[c.job].result) /\ job[c.job].result # Bundle(c)[2] => <<c.job, job[c.job].result>> # Bundle(c)
    BY DEF Bundle
  <2>4. j # c.job => <<j, job[j].result>> # Bundle(c)
    BY DEF Bundle
  <2>. QED BY <1>1, <2>1, <2>2, <2>3, <2>4
<1>. QED BY <1>1, NothingNamed DEF LedgerInv, TypeOK

LEMMA CallbackBundles ==
  ASSUME LedgerInv, CallsInv, BundlesInv, NEW c \in calls, OfCallback(c)
  PROVE  BundlesInv'
<1>t. /\ c \in Callbacks /\ c.job \in Jobs /\ RowsOK(job) /\ job \in [Jobs -> JobRows]
      /\ calls \subseteq Callbacks
  BY DEF LedgerInv, TypeOK, Callbacks
<1>r. c.read /\ Named(job[c.job].result) => job[c.job].result # Bundle(c)[2]
  BY DEF BundlesInv
<1>1. ASSUME NEW phase, Answer(c, phase) PROVE calls' \subseteq calls
  BY <1>1 DEF Answer
<1>2. CASE RejectBundle(c) \/ ReportFailure(c) \/ CallFails(c)
  <2>1. Fades(job, job')
    BY <1>t, <1>2, FailureFades
  <2>2. calls' \subseteq calls
    BY <1>1, <1>2 DEF RejectBundle, ReportFailure, CallFails, Answered
  <2>3. store' = store \/ (c.read /\ store' = store \ {Bundle(c)})
    BY <1>2 DEF RejectBundle, ReportFailure, CallFails
  <2>. QED BY <1>r, <2>1, <2>2, <2>3, OwnBundle
<1>3. CASE ReadJob(c)
  <2>1. Fades(job, job')
    BY <1>t, <1>3, FailureFades
  <2>2. CASE job[c.job].batch = c.batch /\ Holds(c.job, c.token)
    <3> DEFINE d == [c EXCEPT !.read = TRUE]
    <3>1. calls' = (calls \ {c}) \cup {d} /\ UNCHANGED <<job, store>>
      BY <1>3, <2>2 DEF ReadJob
    <3>2. ~Named(job[c.job].result) /\ d.job = c.job
      BY <1>t, <2>2 DEF Holds, RowsOK, RowOK, Named, Callbacks
    <3>3. \A e \in calls : Bundle(e)' = Bundle(e)
      BY DEF Bundle
    <3> HIDE DEF d
    <3>. QED BY <3>1, <3>2, <3>3 DEF BundlesInv, Bundle
  <2>3. CASE ~(job[c.job].batch = c.batch /\ Holds(c.job, c.token))
    <3>1. calls' \subseteq calls
      BY <1>1, <1>3, <2>3 DEF ReadJob
    <3>2. \/ store' = store
          \/ store' = store \ {Bundle(c)} /\ job[c.job].result # Bundle(c)[2]
      BY <1>3, <2>3 DEF ReadJob
    <3>. QED BY <2>1, <3>1, <3>2, OwnBundle
  <2>. QED BY <2>2, <2>3
<1>4. CASE Accept(c) /\ Holds(c.job, c.token)
  <2> DEFINE result == <<c.token, c.task>>
  <2>1. /\ job' = [job EXCEPT ![c.job] = Succeeded(job[c.job], result)]
        /\ store' = store /\ <<c.job, result>> \in store /\ calls' = calls \ {c}
    BY <1>4 DEF Accept, Completed, Bundle, Answered, Answer
  <2>2. Succeeded(job[c.job], result).result = result
    BY <1>t DEF Succeeded, JobRows
  <2>3. job'[c.job].result = result /\ \A j \in Jobs : j # c.job => job'[j] = job[j]
    BY <1>t, <2>1, <2>2
  <2> HIDE DEF result
  <2>4. \A j \in Jobs : Named(job'[j].result) => <<j, job'[j].result>> \in store'
    BY <2>1, <2>3 DEF BundlesInv
  <2>5. ASSUME NEW d \in calls', d.read, Named(job'[d.job].result)
        PROVE  job'[d.job].result # <<d.token, d.task>>
    <3>1. d \in calls /\ d.job \in Jobs /\ d.task # c.task
      BY <1>t, <2>1 DEF CallsInv, Callbacks
    <3>2. CASE d.job = c.job
      BY <2>3, <3>1, <3>2 DEF result
    <3>3. CASE d.job # c.job
      BY <2>3, <2>5, <3>1, <3>3 DEF BundlesInv, Bundle
    <3>. QED BY <3>2, <3>3
  <2>. QED BY <2>4, <2>5 DEF BundlesInv, Bundle
<1>5. CASE Accept(c) /\ ~Holds(c.job, c.token)
  <2>1. job' = job /\ store' = store \ {Bundle(c)} /\ c.read
    BY <1>5 DEF Accept, Completed
  <2>2. calls' \subseteq calls
    BY <1>1, <1>5 DEF Accept, Answered
  <2>. QED BY <1>r, <2>1, <2>2, OwnBundle DEF Fades
<1>. QED BY <1>2, <1>3, <1>4, <1>5 DEF OfCallback

LEMMA BundlesStep ==
  ASSUME LedgerInv, CallsInv, BundlesInv, LostAnswers = FALSE, [Next]_vars
  PROVE  BundlesInv'
<1>1. /\ RowsOK(job) /\ job \in [Jobs -> JobRows] /\ calls \subseteq Callbacks
      /\ Fades(job, job)
  BY DEF LedgerInv, TypeOK, Fades
<1>2. ASSUME store \subseteq store', \A c \in calls' : c.read => c \in calls, Fades(job, job')
      PROVE  BundlesInv'
  <2>1. \A j \in Jobs : Named(job'[j].result) => <<j, job[j].result>> \in store'
    BY <1>2 DEF Fades, Named, BundlesInv
  <2>. QED BY <1>1, <1>2, <2>1, NothingNamed
<1>3. CASE DispatchStep
  <2>1. ASSUME NEW b \in Batches, NEW t \in Tasks, StartAccepted(b, t) PROVE BundlesInv'
    BY <2>1, BootBundles DEF StartAccepted
  <2>2. ASSUME NEW b \in Batches,
               \/ CreateBatch(b) \/ Reserve(b) \/ MarkSubmitted(b) \/ ReleaseBatch(b)
               \/ StartRefused(b) \/ DispatcherDies(b)
        PROVE  UNCHANGED <<store, calls>>
    BY <2>2 DEF CreateBatch, Reserve, MarkSubmitted, ReleaseBatch, StartRefused, DispatcherDies
  <2>3. ASSUME NEW j \in Jobs, Enqueue(j) \/ Nudge(j) \/ FormProxyBatch(j)
        PROVE  UNCHANGED <<store, calls>>
    BY <2>3 DEF Enqueue, Nudge, FormProxyBatch
  <2>4. UNCHANGED <<store, calls>> => BundlesInv'
    BY <1>2, <1>3, OthersFade
  <2>. QED BY <1>3, <2>1, <2>2, <2>3, <2>4 DEF DispatchStep
<1>4. CASE TaskStep
  <2>1. ASSUME NEW t \in Tasks, Claim(t) PROVE BundlesInv'
    BY <1>1, <1>2, <2>1, ClaimFades DEF Claim
  <2>2. ASSUME NEW t \in Tasks, TaskEnds(t) PROVE BundlesInv'
    BY <1>1, <1>2, <2>2 DEF TaskEnds
  <2>3. ASSUME NEW t \in Tasks, Work(t) \/ Resend(t) PROVE BundlesInv'
    <3>1. job' = job /\ store \subseteq store'
      BY <2>3 DEF Work, Resend
    <3>2. PICK c : calls' = calls \cup {c} /\ c.read = FALSE
      <4>1. CASE Work(t)
        <5>1. PICK i, o : calls' = calls \cup
                {[task |-> t, batch |-> task[t].batch, job |-> i[1], token |-> i[2],
                  outcome |-> o, copy |-> 1, read |-> FALSE]}
          BY <4>1 DEF Work
        <5> DEFINE c == [task |-> t, batch |-> task[t].batch, job |-> i[1], token |-> i[2],
                         outcome |-> o, copy |-> 1, read |-> FALSE]
        <5>2. calls' = calls \cup {c} /\ c.read = FALSE
          BY <5>1
        <5>. QED BY <5>2
      <4>2. CASE Resend(t)
        <5> DEFINE i == task[t].item
                   c == [task |-> t, batch |-> task[t].batch, job |-> i.job, token |-> i.token,
                         outcome |-> i.outcome, copy |-> i.sends + 1, read |-> FALSE]
        <5>1. calls' = calls \cup {c} /\ c.read = FALSE
          BY <4>2 DEF Resend
        <5> HIDE DEF c
        <5>. QED BY <5>1
      <4>. QED BY <2>3, <4>1, <4>2
    <3>. QED BY <1>1, <1>2, <3>1, <3>2
  <2>4. ASSUME NEW t \in Tasks, NEW u \in Tasks, Replayed(t, u) PROVE BundlesInv'
    BY <2>4, BootBundles DEF Replayed
  <2>5. ASSUME NEW c \in calls, OfCallback(c) PROVE BundlesInv'
    BY <2>5, CallbackBundles
  <2>. QED BY <1>4, <2>1, <2>2, <2>3, <2>4, <2>5
       DEF TaskStep, OfCallback, CutOff, AcceptUnheard
<1>5. CASE RecoveryStep
  <2>1. UNCHANGED <<store, calls>>
    BY <1>5 DEF RecoveryStep, LeaseLapses, ReleaseStale, RenderEnded, Reconcile
  <2>. QED BY <1>2, <1>5, <2>1, OthersFade
<1>6. CASE CallerStep
  <2>1. ASSUME NEW j \in Jobs, CleanUp(j) PROVE BundlesInv'
    <3>1. /\ job' = [job EXCEPT ![j] = [job[j] EXCEPT !.result = None]]
          /\ store' = store \ {<<j, job[j].result>>} /\ calls' = calls
      BY <1>1, <2>1 DEF CleanUp
    <3>2. [job[j] EXCEPT !.result = None].result = None
      BY <1>1 DEF JobRows
    <3>3. job'[j].result = None /\ \A k \in Jobs : k # j => job'[k] = job[k]
      BY <1>1, <3>1, <3>2
    <3>4. Fades(job, job')
      BY <3>3 DEF Fades
    <3>5. \A k \in Jobs : Named(job'[k].result) => <<k, job[k].result>> \in store'
      BY <3>1, <3>3 DEF Named, BundlesInv
    <3>. QED BY <1>1, <3>1, <3>4, <3>5, NothingNamed
  <2>2. ASSUME NEW r \in Runs, RunEnds(r) \/ CancelJobs(r) \/ \E h \in BOOLEAN : RunLeased(r, h)
        PROVE  UNCHANGED <<store, calls>>
    BY <2>2 DEF RunEnds, CancelJobs, RunLeased
  <2>3. ASSUME NEW j \in Jobs,
               \/ ClaimFallback(j) \/ FallbackDies(j) \/ HandOff(j)
               \/ \E ok \in BOOLEAN : FallbackReturns(j, ok)
        PROVE  UNCHANGED <<store, calls>>
    BY <2>3 DEF ClaimFallback, FallbackDies, HandOff, FallbackReturns
  <2>4. UNCHANGED <<store, calls>> => BundlesInv'
    BY <1>2, <1>6, OthersFade
  <2>. QED BY <1>6, <2>1, <2>2, <2>3, <2>4 DEF CallerStep
<1>7. CASE UNCHANGED vars
  BY <1>1, <1>2, <1>7 DEF vars
<1>. QED BY <1>3, <1>4, <1>5, <1>6, <1>7 DEF Next

\* The manifest of a succeeded job names a bundle that is in the bucket, for
\* any number of batches, executions, attempts and sends of a callback, as
\* long as an answer is not lost while crawler-worker is still at the call:
\* then a bundle has one callback at a time, and what deletes a bundle either
\* holds the job's lease or has seen the job name another one.
THEOREM CrawlerBundleKept ==
  ASSUME LostAnswers = FALSE
  PROVE  Spec => []AcceptedBundleKept
<1>1. Init => LedgerInv /\ CallsInv /\ BundlesInv
  BY InitLedger DEF Init, CallsInv, BundlesInv, NoJob, Named
<1>2. LedgerInv /\ CallsInv /\ BundlesInv /\ [Next]_vars
        => (LedgerInv /\ CallsInv /\ BundlesInv)'
  BY NextLedger, CallsStep, BundlesStep
<1>3. BundlesInv => AcceptedBundleKept
  BY DEF BundlesInv, AcceptedBundleKept, Named
<1>. QED BY <1>1, <1>2, <1>3, PTL DEF Spec
=============================================================================
