---------------------------- MODULE ScoutSchedule ----------------------------
(***************************************************************************)
(* The schedule of one scout with a time zone: the row of scouts, its      *)
(* pg_cron job, the minute ticks of that job, and the requests that pause, *)
(* resume and edit the scout.                                              *)
(*                                                                         *)
(* The job of such a scout ticks every minute; a tick dispatches the scout *)
(* when its wall clock shows a minute of the schedule.  A request writes   *)
(* the row and then the job in two calls, and takes the first back when    *)
(* the second fails.  It may be killed between any two calls, a call may   *)
(* commit and its answer be lost, and taking back may fail as well;        *)
(* meanwhile a failing run may pause the scout.                            *)
(***************************************************************************)
EXTENDS Integers

CONSTANTS
  Ticks,        \* ticks in progress at one time
  Requests,     \* requests in progress at one time
  Schedules,    \* crons a user may set: sets of wall-clock minutes
  Offset,       \* the zone's offset from UTC, by minute
  End,          \* bound: the last minute
  MaxRequests,  \* bound: how many requests are made
  Overlap       \* whether requests may overlap each other

ScheduleAssumption ==
  /\ End \in Nat /\ MaxRequests \in Nat
  /\ Offset \in [0..End -> Int]
  /\ Overlap \in BOOLEAN

VARIABLES
  clock,
  active,       \* scouts.is_active
  cron,         \* scouts.schedule_cron
  mark,         \* schedule_last_dispatched_at
  job,          \* whether cron.job has the scout's job
  tick,         \* the minute a tick in progress was started at, or Idle
  dispatched,   \* history: requests to execute-scout, by wall-clock minute
  request,      \* requests in progress
  made,         \* how many requests there were
  owed          \* history: the job may be missing (BreakOff, JobAnswerLost)

times == <<clock, mark, tick, dispatched>>
vars == <<times, active, cron, job, request, made, owed>>

Idle == -1
Minutes == 0..End
Local(t) == t + Offset[t]
Walls == {Local(t) : t \in Minutes}

NoRequest == [at |-> "none"]
Columns == {"is_active", "schedule_cron"}

TypeOK ==
  /\ clock \in Minutes /\ mark \in Minutes \cup {Idle}
  /\ active \in BOOLEAN /\ job \in BOOLEAN /\ cron \in Schedules
  /\ tick \in [Ticks -> Minutes \cup {Idle}]
  /\ dispatched \in [Walls -> Nat]
  /\ request \in [Requests -> {NoRequest} \cup
       [at: {"read", "job", "undo"}, edit: BOOLEAN, names: SUBSET Columns,
        toActive: BOOLEAN, toCron: Schedules,
        wasActive: BOOLEAN, wasCron: Schedules]]
  /\ made \in 0..MaxRequests /\ owed \in BOOLEAN

Init ==
  /\ clock = 0 /\ mark = Idle
  /\ active \in BOOLEAN /\ cron \in Schedules /\ job = active
  /\ tick = [k \in Ticks |-> Idle]
  /\ dispatched = [w \in Walls |-> 0]
  /\ request = [q \in Requests |-> NoRequest] /\ made = 0
  /\ owed = FALSE

-----------------------------------------------------------------------------
(* Ticks                                                                   *)

\* AT TIME ZONE resolves a repeated wall-clock minute to standard time, which
\* is its later occurrence.
Resolved(w) == CHOOSE t \in Minutes :
  Local(t) = w /\ \A u \in Minutes : Local(u) = w => u <= t

\* mutant of Due: both occurrences of a repeated minute are due
DueTwice(t) == Local(t) \in cron

\* scout_schedule_due: a missing minute has no tick.
Due(t) == Local(t) \in cron /\ Resolved(Local(t)) = t

MinutePasses ==
  /\ clock < End /\ clock' = clock + 1
  /\ UNCHANGED <<mark, tick, dispatched, active, cron, job, request, made, owed>>

\* pg_cron starts the job, perhaps twice; now() is when the tick starts.
TickStarts(k) ==
  /\ job /\ tick[k] = Idle /\ tick' = [tick EXCEPT ![k] = clock]
  /\ UNCHANGED <<clock, mark, dispatched, active, cron, job, request, made, owed>>

\* dispatch_scout_schedule: claim_scout_schedule is one UPDATE on the row, and
\* its commit posts the request.
TickClaims(k) ==
  /\ tick[k] # Idle /\ tick' = [tick EXCEPT ![k] = Idle]
  /\ LET t == tick[k] IN
     \/ /\ active /\ mark < t /\ Due(t)
        /\ mark' = t
        /\ dispatched' = [dispatched EXCEPT ![Local(t)] = @ + 1]
     \/ ~(active /\ mark < t /\ Due(t)) /\ UNCHANGED <<mark, dispatched>>
  /\ UNCHANGED <<clock, active, cron, job, request, made, owed>>

\* The post raises, or the tick is killed: the claim is rolled back.
TickDies(k) ==
  /\ tick[k] # Idle /\ tick' = [tick EXCEPT ![k] = Idle]
  /\ UNCHANGED <<clock, mark, dispatched, active, cron, job, request, made, owed>>

-----------------------------------------------------------------------------
(* pauseScout, resumeScout and updateScout                                 *)

Ends(q) == request' = [request EXCEPT ![q] = NoRequest]
Moves(q, place) == request' = [request EXCEPT ![q].at = place]

\* The scout is read.  Pause and resume name is_active; an edit may name that,
\* the cron, or both, and leaves a column it does not name as it was read.
Ask(q, edit, names, toActive, toCron) ==
  /\ request[q] = NoRequest /\ made < MaxRequests /\ made' = made + 1
  /\ Overlap \/ \A p \in Requests : request[p] = NoRequest
  /\ ~edit => names = {"is_active"}
  /\ "is_active" \notin names => toActive = active
  /\ "schedule_cron" \notin names => toCron = cron
  /\ request' = [request EXCEPT ![q] =
       [at |-> "read", edit |-> edit, names |-> names,
        toActive |-> toActive, toCron |-> toCron,
        wasActive |-> active, wasCron |-> cron]]
  /\ UNCHANGED <<times, active, cron, job, owed>>

\* The columns of a request are written.
Writes(q, toActive, toCron) ==
  /\ active' = IF "is_active" \in request[q].names THEN toActive ELSE active
  /\ cron' = IF "schedule_cron" \in request[q].names THEN toCron ELSE cron

\* resolveScheduleAction compares with what was read; pause and resume do not.
JobAction(r) ==
  IF r.edit /\ r.toActive = r.wasActive /\ r.toCron = r.wasCron
  THEN "none"
  ELSE IF r.toActive THEN "schedule" ELSE "unschedule"

WriteRow(q) ==
  /\ request[q].at = "read" /\ Moves(q, "job")
  /\ Writes(q, request[q].toActive, request[q].toCron)
  /\ UNCHANGED <<times, job, made, owed>>

\* An edit that changes neither column leaves the job as it is.
LeaveJob(q) ==
  /\ request[q].at = "job" /\ JobAction(request[q]) = "none" /\ Ends(q)
  /\ UNCHANGED <<times, active, cron, job, made, owed>>

\* schedule_scout raises unless the row is active with the same cron.
Schedulable(r) == active /\ cron = r.toCron

Schedule(q) ==
  /\ request[q].at = "job" /\ JobAction(request[q]) = "schedule"
  /\ \/ Schedulable(request[q]) /\ job' = TRUE /\ owed' = FALSE /\ Ends(q)
     \/ ~Schedulable(request[q]) /\ UNCHANGED <<job, owed>> /\ Moves(q, "undo")
  /\ UNCHANGED <<times, active, cron, made>>

Unschedule(q) ==
  /\ request[q].at = "job" /\ JobAction(request[q]) = "unschedule"
  /\ job' = FALSE /\ owed' = FALSE /\ Ends(q)
  /\ UNCHANGED <<times, active, cron, made>>

\* The call after the row's write fails and changes nothing: the one for the
\* job, or the baseline of an edited page.
JobCallFails(q) ==
  /\ request[q].at = "job" /\ Moves(q, "undo")
  /\ JobAction(request[q]) = "none" => request[q].toActive
  /\ UNCHANGED <<times, active, cron, job, made, owed>>

\* The call for the job commits and is answered with an error all the same.
JobAnswerLost(q) ==
  /\ request[q].at = "job" /\ Moves(q, "undo")
  /\ \/ /\ JobAction(request[q]) = "schedule" /\ Schedulable(request[q])
        /\ job' = TRUE /\ owed' = FALSE
     \/ JobAction(request[q]) = "unschedule" /\ job' = FALSE /\ owed' = TRUE
  /\ UNCHANGED <<times, active, cron, made>>

\* mutant of Undo: the failed request leaves the row as it wrote it
UndoNothing(q) ==
  /\ request[q].at = "undo" /\ Ends(q)
  /\ UNCHANGED <<times, active, cron, job, made, owed>>

\* rollbackScoutUpdate: what was read is written back.
Undo(q) ==
  /\ request[q].at = "undo" /\ Ends(q)
  /\ Writes(q, request[q].wasActive, request[q].wasCron)
  /\ UNCHANGED <<times, job, made, owed>>

\* A request ends where it is: its row is refused, or written without an
\* answer, which throws before the job and the rollback; the rollback fails,
\* which is only logged; or it is killed.
BreakOff(q) ==
  /\ request[q] # NoRequest /\ Ends(q)
  /\ owed' = \/ owed
             \/ /\ request[q].at # "read" /\ ~request[q].wasActive
                /\ JobAction(request[q]) = "schedule"
  /\ UNCHANGED <<times, active, cron, job, made>>

\* increment_scout_failures at the threshold: the job stays.
AutoPause ==
  /\ active /\ active' = FALSE
  /\ UNCHANGED <<times, cron, job, request, made, owed>>

Next ==
  \/ MinutePasses \/ AutoPause
  \/ \E k \in Ticks : TickStarts(k) \/ TickClaims(k) \/ TickDies(k)
  \/ \E q \in Requests :
       \/ \E edit, a \in BOOLEAN, names \in SUBSET Columns, c \in Schedules :
            Ask(q, edit, names, a, c)
       \/ WriteRow(q) \/ LeaveJob(q) \/ Schedule(q) \/ Unschedule(q)
       \/ JobCallFails(q) \/ JobAnswerLost(q) \/ Undo(q) \/ BreakOff(q)

Spec == Init /\ [][Next]_vars

-----------------------------------------------------------------------------
(* Properties                                                              *)

\* A wall-clock minute of the schedule dispatches the scout at most once: not
\* again by a second tick of that minute, after an edit, a pause and a resume,
\* or when the clock is set back.
OncePerSlot == \A w \in Walls : dispatched[w] <= 1

\* When no request is in progress an active scout has its job, although a job
\* call may fail, raise or be taken back and a failing run may pause the scout
\* inside a request; only two things excuse a missing job, both until the next
\* call for the job: an activation that broke off with its row written and its
\* job not made (killed, no answer to the write, a failed rollback), and an
\* unschedule that committed unanswered and was taken back in the row.  A
\* change of the cron of an active scout never loses the job, wherever it
\* breaks off.  Of requests that do not overlap.
ActiveHasJob ==
  (\A q \in Requests : request[q] = NoRequest) /\ active /\ ~owed => job
=============================================================================
