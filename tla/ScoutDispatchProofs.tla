------------------------ MODULE ScoutDispatchProofs ------------------------
(***************************************************************************)
(* Theorems about ScoutDispatch for every value of its constants.          *)
(***************************************************************************)
EXTENDS ScoutDispatch, FiniteSetTheorems, TLAPS

-----------------------------------------------------------------------------
(* What the helpers write keeps its type                                   *)

\* A status written to a run is a status.
LEMMA SetRunTyped ==
  ASSUME runStatus \in [Runs -> RunStatuses], NEW r \in Runs,
         NEW status \in RunStatuses, SetRun(r, status)
  PROVE  runStatus' \in [Runs -> RunStatuses]
BY DEF SetRun

\* enqueue_scout_dispatch inserts a well-typed row.
LEMMA InsertRowTyped ==
  ASSUME QueueTyped, NEW r \in Runs, NEW now \in BOOLEAN, InsertRow(r, now)
  PROVE  QueueTyped'
BY DEF InsertRow, QueueTyped, RowStatuses

\* finish, park and the failed lease write a well-typed row.
LEMMA CloseRowTyped ==
  ASSUME QueueTyped, NEW r \in Runs, NEW status \in RowStatuses,
         CloseRow(r, status)
  PROVE  QueueTyped'
BY DEF CloseRow, QueueTyped

\* Both outcomes of finish_scout_dispatch write a well-typed row and run.
LEMMA FinishRowTyped ==
  ASSUME TypeOK, NEW r \in Runs, NEW success \in BOOLEAN,
         FinishRow(r, success)
  PROVE  QueueTyped' /\ runStatus' \in [Runs -> RunStatuses]
<1>1. CASE success \/ runStatus[r] \in {"success", "skipped"}
  BY <1>1, CloseRowTyped DEF FinishRow, TypeOK, RunsTyped, RowStatuses
<1>2. CASE ~(success \/ runStatus[r] \in {"success", "skipped"})
  <2>1. (IF runStatus[r] = "running" THEN "error" ELSE runStatus[r])
          \in RunStatuses
    BY DEF TypeOK, RunsTyped, RunStatuses
  <2> QED
    BY <1>2, <2>1, CloseRowTyped, SetRunTyped
    DEF FinishRow, TypeOK, RunsTyped, RowStatuses
<1> QED BY <1>1, <1>2

\* A worker moves between its program points.
LEMMA GoToTyped ==
  ASSUME ProcsTyped, NEW r \in Runs, NEW a \in Attempts, NEW pc \in Execs,
         GoTo(r, a, pc)
  PROVE  exec' \in [Runs -> [Attempts -> Execs]]
BY DEF GoTo, ProcsTyped

\* An answer reaches the call when it is still open.
LEMMA AnsweredTyped ==
  ASSUME ProcsTyped, NEW r \in Runs, NEW a \in Attempts, NEW answer \in Calls
  PROVE  Answered(r, a, answer) \in [Runs -> [Attempts -> Calls]]
BY DEF Answered, ProcsTyped

\* A worker that answers ends; the drain and the posts are untouched.
LEMMA ReplyTyped ==
  ASSUME ProcsTyped, NEW r \in Runs, NEW a \in Attempts, NEW answer \in Calls,
         Reply(r, a, answer), UNCHANGED <<posted, caller>>
  PROVE  ProcsTyped'
<1>1. exec' \in [Runs -> [Attempts -> Execs]]
  BY GoToTyped DEF Reply, Execs
<1>2. call' \in [Runs -> [Attempts -> Calls]]
  BY AnsweredTyped DEF Reply
<1> QED BY <1>1, <1>2 DEF ProcsTyped

\* A drain that settles a claim lets go of it.
LEMMA SettleTyped ==
  ASSUME ProcsTyped, NEW r \in Runs, NEW a \in Attempts, Settle(r, a),
         UNCHANGED <<posted, exec>>
  PROVE  ProcsTyped'
BY DEF Settle, ProcsTyped, Calls

\* increment_scout_failures and the mail keep the scouts well typed.
LEMMA CountFailureTyped ==
  ASSUME ScoutsTyped, NEW s \in Scouts, CountFailure(s)
  PROVE  ScoutsTyped'
BY DEF CountFailure, IncrementFailures, ScoutsTyped

\* A deferred retry is a well-typed run with a well-typed row.
LEMMA GrantRetryTyped ==
  ASSUME TypeOK, NEW r \in Runs, GrantRetry(r), UNCHANGED <<aged, sealed>>
  PROVE  QueueTyped' /\ RunsTyped'
<1>1. deferred' \in SUBSET Runs
  BY DEF GrantRetry, TypeOK, RunsTyped
<1>2. CASE Retries(r) # {} \/ Busy(ScoutOf[r])
  BY <1>1, <1>2
  DEF GrantRetry, EnqueueRetry, TypeOK, QueueTyped, RunsTyped, queueVars
<1>3. CASE ~(Retries(r) # {} \/ Busy(ScoutOf[r]))
  <2>1. PICK x \in Fresh(ScoutOf[r]) :
          /\ SetRun(x, "running")
          /\ runSource' = [runSource EXCEPT ![x] = RetrySource]
          /\ retryOf' = [retryOf EXCEPT ![x] = r]
          /\ InsertRow(x, FALSE)
    BY <1>3 DEF GrantRetry, EnqueueRetry
  <2>2. x \in Runs
    BY DEF Fresh, RunsOf
  <2>3. QueueTyped'
    BY <2>1, <2>2, InsertRowTyped DEF TypeOK
  <2>4. RunsTyped'
    BY <1>1, <2>1, <2>2
    DEF TypeOK, RunsTyped, SetRun, RetrySource, RunStatuses, Sources
  <2> QED BY <2>3, <2>4
<1> QED BY <1>2, <1>3

-----------------------------------------------------------------------------
(* Type correctness                                                        *)

\* claim_scout_dispatch_batch writes well-typed rows: it never leases a row
\* that used up its attempts, because those are failed first.
LEMMA LeaseTyped ==
  ASSUME TypeOK, RowsFollowRuns, NEW w \in Workers, NEW limit \in Nat,
         NEW C \in Candidates(limit), Lease(w, C)
  PROVE  QueueTyped'
<1> USE DEF TypeOK, QueueTyped
<1>1. C \subseteq Eligible /\ Eligible \subseteq Runs
  BY DEF Candidates, Eligible, Requeued, Lapsed
<1>2. qStatus' \in [Runs -> RowStatuses]
  BY DEF Lease, RowStatuses, ClosedStatus
<1>3. attempts' \in [Runs -> 0..MaxAttempts]
  <2>1. ASSUME NEW r \in C
        PROVE  attempts[r] < MaxAttempts
    BY <1>1, ConstantsAssumption
    DEF Eligible, Requeued, Lapsed, Exhausted, RowsFollowRuns
  <2> QED BY <2>1, ConstantsAssumption DEF Lease
<1>4. leaseOwner' \in [Runs -> Workers \cup {None}]
  BY DEF Lease
<1>5. leaseExpired' \in [Runs -> BOOLEAN]
  BY DEF Lease
<1>6. due' \in [Runs -> BOOLEAN]
  BY DEF Lease
<1> QED BY <1>2, <1>3, <1>4, <1>5, <1>6

\* Every step keeps the columns in their domains.
LEMMA TypeStep ==
  ASSUME TypeOK, RowsFollowRuns, [Next]_vars
  PROVE  TypeOK'
<1> USE ConstantsAssumption
    DEF scoutVars, runVars, queueVars, procVars, docVars, DocsTyped
<1>1. ASSUME NEW s \in Scouts, EnqueueScheduled(s)
      PROVE  TypeOK'
  <2>1. PICK r \in Fresh(s) :
          /\ SetRun(r, "running")
          /\ runSource' = [runSource EXCEPT ![r] = "scheduled"]
          /\ InsertRow(r, TRUE)
    BY <1>1 DEF EnqueueScheduled
  <2>2. r \in Runs
    BY DEF Fresh, RunsOf
  <2>3. QueueTyped'
    BY <2>1, <2>2, InsertRowTyped DEF TypeOK
  <2> QED
    BY <1>1, <2>1, <2>2, <2>3
    DEF EnqueueScheduled, SetRun, TypeOK, ScoutsTyped, RunsTyped, ProcsTyped,
        RunStatuses, Sources
<1>2. ASSUME NEW s \in Scouts, TriggerScoutRun(s)
      PROVE  TypeOK'
  BY <1>2
  DEF TriggerScoutRun, TypeOK, ScoutsTyped, RunsTyped, QueueTyped, ProcsTyped,
      RunStatuses, SetRun, Fresh, RunsOf
<1>3. ASSUME NEW s \in Scouts, PauseScout(s)
      PROVE  TypeOK'
  BY <1>3
  DEF PauseScout, TypeOK, ScoutsTyped, RunsTyped, QueueTyped, ProcsTyped
<1>4. ASSUME NEW s \in Scouts, ResumeScout(s)
      PROVE  TypeOK'
  BY <1>4
  DEF ResumeScout, TypeOK, ScoutsTyped, RunsTyped, QueueTyped, ProcsTyped
<1>5. ASSUME NEW r \in Runs, ExecuteScout(r)
      PROVE  TypeOK'
  <2>1. QueueTyped'
    BY <1>5, InsertRowTyped DEF ExecuteScout, TypeOK, QueueTyped
  <2>2. runStatus' \in [Runs -> RunStatuses]
    <3>1. (IF runStatus[r] = "running" THEN "skipped" ELSE runStatus[r])
            \in RunStatuses
      BY DEF TypeOK, RunsTyped, RunStatuses
    <3>2. UNCHANGED runStatus \/ \E status \in RunStatuses : SetRun(r, status)
      BY <1>5, <3>1 DEF ExecuteScout, RunStatuses
    <3> QED BY <3>2, SetRunTyped DEF TypeOK, RunsTyped
  <2>3. runSource' \in [Runs -> Sources]
    BY <1>5 DEF ExecuteScout, TypeOK, RunsTyped, Sources
  <2>4. ScoutsTyped' /\ ProcsTyped' /\ DocsTyped'
    BY <1>5 DEF ExecuteScout, TypeOK, ScoutsTyped, ProcsTyped
  <2> QED
    BY <1>5, <2>1, <2>2, <2>3, <2>4 DEF ExecuteScout, TypeOK, RunsTyped
<1>6. ASSUME NEW r \in Runs, LosePost(r)
      PROVE  TypeOK'
  BY <1>6
  DEF LosePost, TypeOK, ScoutsTyped, RunsTyped, QueueTyped, ProcsTyped
<1>7. ASSUME NEW r \in Runs, FinalizeDocuments(r) \/ FailsafeDocuments(r)
      PROVE  TypeOK'
  <2>1. runStatus' \in [Runs -> RunStatuses]
    BY <1>7
    DEF FinalizeDocuments, FailsafeDocuments, Finalize, SettleRun, TypeOK,
        RunsTyped, RunStatuses, SetRun
  <2> QED
    BY <1>7, <2>1
    DEF FinalizeDocuments, FailsafeDocuments, TypeOK, ScoutsTyped, RunsTyped,
        QueueTyped, ProcsTyped
<1>8. ASSUME NEW r \in Runs,
             FailDocuments(r) \/ MarkDocumentsFailed(r) \/ ExtractorStops(r)
      PROVE  TypeOK'
  <2>1. runStatus' \in [Runs -> RunStatuses]
    BY <1>8
    DEF FailDocuments, MarkDocumentsFailed, ExtractorStops, TypeOK, RunsTyped,
        RunStatuses, SetRun
  <2>2. DocsTyped'
    BY <1>8
    DEF FailDocuments, MarkDocumentsFailed, ExtractorStops, ExtractorDone,
        TypeOK, DocsTyped, Extractors
  <2> QED
    BY <1>8, <2>1, <2>2
    DEF FailDocuments, MarkDocumentsFailed, ExtractorStops, TypeOK,
        ScoutsTyped, RunsTyped, QueueTyped, ProcsTyped
<1>9. ASSUME NEW r \in Runs, DeferDocuments(r) \/ CountDocuments(r)
      PROVE  TypeOK'
  <2>1. DocsTyped'
    BY <1>9
    DEF DeferDocuments, CountDocuments, ExtractorDone, TypeOK, DocsTyped,
        Extractors
  <2>2. CASE DeferDocuments(r)
    BY <2>1, <2>2, GrantRetryTyped
    DEF DeferDocuments, TypeOK, ScoutsTyped, ProcsTyped
  <2>3. CASE CountDocuments(r)
    <3>1. ScoutsTyped'
      BY <2>3, CountFailureTyped, ConstantsAssumption
      DEF CountDocuments, TypeOK
    <3> QED
      BY <2>1, <2>3, <3>1
      DEF CountDocuments, TypeOK, RunsTyped, QueueTyped, ProcsTyped
  <2> QED BY <1>9, <2>2, <2>3
<1>10. ASSUME NEW r \in Runs, ExpireLease(r)
      PROVE  TypeOK'
  BY <1>10
  DEF ExpireLease, TypeOK, ScoutsTyped, RunsTyped, QueueTyped, ProcsTyped
<1>11. ASSUME NEW r \in Runs, BecomeDue(r)
      PROVE  TypeOK'
  BY <1>11
  DEF BecomeDue, TypeOK, ScoutsTyped, RunsTyped, QueueTyped, ProcsTyped
<1>12. ASSUME NEW r \in Runs, AgeRun(r)
      PROVE  TypeOK'
  BY <1>12
  DEF AgeRun, TypeOK, ScoutsTyped, RunsTyped, QueueTyped, ProcsTyped
<1>13. ASSUME NEW r \in Runs, NEW a \in Attempts, CallFails(r, a)
      PROVE  TypeOK'
  BY <1>13
  DEF CallFails, TypeOK, ScoutsTyped, RunsTyped, QueueTyped, ProcsTyped,
      Calls
<1>14. ASSUME NEW r \in Runs, NEW a \in Attempts, FinishDispatch(r, a)
      PROVE  TypeOK'
  <2>1. QueueTyped' /\ runStatus' \in [Runs -> RunStatuses]
    BY <1>14, FinishRowTyped DEF FinishDispatch, TypeOK, QueueTyped, RunsTyped
  <2>2. ProcsTyped'
    <3>1. CASE call[r][a] = "unreachable"
      <4>1. /\ call' = [call EXCEPT ![r][a] = "counting"]
            /\ UNCHANGED <<posted, caller, exec>>
        BY <1>14, <3>1 DEF FinishDispatch
      <4> QED BY <4>1 DEF TypeOK, ProcsTyped, Calls
    <3>2. CASE call[r][a] # "unreachable"
      BY <1>14, <3>2, SettleTyped DEF FinishDispatch, TypeOK
    <3> QED BY <3>1, <3>2
  <2> QED
    BY <1>14, <2>1, <2>2
    DEF FinishDispatch, TypeOK, ScoutsTyped, RunsTyped
<1>15. ASSUME NEW r \in Runs, NEW a \in Attempts, ParkDispatch(r, a)
      PROVE  TypeOK'
  <2>1. QueueTyped'
    BY <1>15, CloseRowTyped DEF ParkDispatch, TypeOK, QueueTyped, RowStatuses
  <2>2. ProcsTyped'
    BY <1>15, SettleTyped DEF ParkDispatch, TypeOK
  <2> QED
    BY <1>15, <2>1, <2>2 DEF ParkDispatch, TypeOK, ScoutsTyped, RunsTyped
<1>16. ASSUME NEW r \in Runs, NEW a \in Attempts, CountUnreachable(r, a)
      PROVE  TypeOK'
  <2>1. ProcsTyped'
    BY <1>16, SettleTyped DEF CountUnreachable, TypeOK
  <2> QED
    BY <1>16, <2>1
    DEF CountUnreachable, IncrementFailures, TypeOK, ScoutsTyped, RunsTyped,
        QueueTyped
<1>17. ASSUME NEW r \in Runs, NEW a \in Attempts, DropCall(r, a)
      PROVE  TypeOK'
  <2>1. ProcsTyped'
    BY <1>17, SettleTyped DEF DropCall, TypeOK
  <2> QED
    BY <1>17, <2>1 DEF DropCall, TypeOK, ScoutsTyped, RunsTyped, QueueTyped
<1>18. ASSUME NEW r \in Runs, NEW a \in Attempts, StartPage(r, a)
      PROVE  TypeOK'
  <2>1. CASE runStatus[r] = "running"
    <3>1. exec' \in [Runs -> [Attempts -> Execs]]
      BY <1>18, <2>1, GoToTyped DEF StartPage, TypeOK, Execs
    <3> QED
      BY <1>18, <2>1, <3>1
      DEF StartPage, TypeOK, ScoutsTyped, RunsTyped, QueueTyped, ProcsTyped
  <2>2. CASE runStatus[r] # "running"
    <3>1. ProcsTyped'
      BY <1>18, <2>2, ReplyTyped DEF StartPage, TypeOK, Calls
    <3> QED
      BY <1>18, <3>1 DEF StartPage, TypeOK, ScoutsTyped, RunsTyped, QueueTyped
  <2> QED BY <2>1, <2>2
<1>19. ASSUME NEW r \in Runs, NEW a \in Attempts, AcceptBeat(r, a)
      PROVE  TypeOK'
  <2>1. exec' \in [Runs -> [Attempts -> Execs]]
    BY <1>19, GoToTyped DEF AcceptBeat, TypeOK, Execs
  <2>2. call' \in [Runs -> [Attempts -> Calls]]
    BY <1>19, AnsweredTyped DEF AcceptBeat, TypeOK, Calls
  <2> QED
    BY <1>19, <2>1, <2>2
    DEF AcceptBeat, TypeOK, ScoutsTyped, RunsTyped, QueueTyped, ProcsTyped
<1>20. ASSUME NEW r \in Runs, NEW a \in Attempts, StartCivic(r, a)
      PROVE  TypeOK'
  <2>1. exec' \in [Runs -> [Attempts -> Execs]]
    BY <1>20, GoToTyped DEF StartCivic, TypeOK, Execs
  <2>2. runStatus' \in [Runs -> RunStatuses]
    BY <1>20 DEF StartCivic, TypeOK, RunsTyped, RunStatuses, SetRun
  <2> QED
    BY <1>20, <2>1, <2>2
    DEF StartCivic, TypeOK, ScoutsTyped, RunsTyped, QueueTyped, ProcsTyped
<1>21. ASSUME NEW r \in Runs, NEW a \in Attempts, ResolveBeat(r, a)
      PROVE  TypeOK'
  <2>1. exec' \in [Runs -> [Attempts -> Execs]]
    BY <1>21, GoToTyped DEF ResolveBeat, TypeOK, Execs
  <2>2. runStatus' \in [Runs -> RunStatuses]
    BY <1>21 DEF ResolveBeat, TypeOK, RunsTyped, RunStatuses, SetRun
  <2> QED
    BY <1>21, <2>1, <2>2
    DEF ResolveBeat, TypeOK, ScoutsTyped, RunsTyped, QueueTyped, ProcsTyped
<1>22. ASSUME NEW r \in Runs, NEW a \in Attempts, BeatBackgroundFails(r, a)
      PROVE  TypeOK'
  <2>1. exec' \in [Runs -> [Attempts -> Execs]]
    BY <1>22, GoToTyped DEF BeatBackgroundFails, TypeOK, Execs
  <2>2. runStatus' \in [Runs -> RunStatuses]
    BY <1>22 DEF BeatBackgroundFails, TypeOK, RunsTyped, RunStatuses, SetRun
  <2> QED
    BY <1>22, <2>1, <2>2
    DEF BeatBackgroundFails, TypeOK, ScoutsTyped, RunsTyped, QueueTyped,
        ProcsTyped
<1>23. ASSUME NEW r \in Runs, NEW a \in Attempts, MarkSuccess(r, a)
      PROVE  TypeOK'
  <2>1. exec' \in [Runs -> [Attempts -> Execs]]
    BY <1>23, GoToTyped DEF MarkSuccess, TypeOK, Execs
  <2>2. runStatus' \in [Runs -> RunStatuses]
    BY <1>23 DEF MarkSuccess, TypeOK, RunsTyped, RunStatuses, SetRun
  <2> QED
    BY <1>23, <2>1, <2>2
    DEF MarkSuccess, TypeOK, ScoutsTyped, RunsTyped, QueueTyped, ProcsTyped
<1>24. ASSUME NEW r \in Runs, NEW a \in Attempts, ResetFailures(r, a)
      PROVE  TypeOK'
  <2>1. ScoutsTyped'
    BY <1>24 DEF ResetFailures, TypeOK, ScoutsTyped
  <2>2. ProcsTyped'
    <3>1. CASE Reply(r, a, "ok")
      BY <1>24, <3>1, ReplyTyped DEF ResetFailures, TypeOK, Calls
    <3>2. CASE UNCHANGED call
               /\ \E pc \in {"empty", "dispatched"} : GoTo(r, a, pc)
      <4>1. exec' \in [Runs -> [Attempts -> Execs]]
        BY <3>2, GoToTyped DEF TypeOK, Execs
      <4> QED BY <1>24, <3>2, <4>1 DEF ResetFailures, TypeOK, ProcsTyped
    <3> QED BY <1>24, <3>1, <3>2 DEF ResetFailures
  <2> QED
    BY <1>24, <2>1, <2>2 DEF ResetFailures, TypeOK, RunsTyped, QueueTyped
<1>25. ASSUME NEW r \in Runs, NEW a \in Attempts, CompleteEmpty(r, a)
      PROVE  TypeOK'
  <2>1. ProcsTyped'
    BY <1>25, ReplyTyped DEF CompleteEmpty, TypeOK, Calls
  <2>2. runStatus' \in [Runs -> RunStatuses]
    BY <1>25 DEF CompleteEmpty, TypeOK, RunsTyped, RunStatuses, SetRun
  <2> QED
    BY <1>25, <2>1, <2>2
    DEF CompleteEmpty, TypeOK, ScoutsTyped, RunsTyped, QueueTyped
<1>26. ASSUME NEW r \in Runs, NEW a \in Attempts, CompleteDispatch(r, a)
      PROVE  TypeOK'
  <2>1. ProcsTyped'
    BY <1>26, ReplyTyped DEF CompleteDispatch, TypeOK, Calls
  <2>2. runStatus' \in [Runs -> RunStatuses]
    BY <1>26
    DEF CompleteDispatch, SettleRun, TypeOK, RunsTyped, RunStatuses, SetRun
  <2> QED
    BY <1>26, <2>1, <2>2
    DEF CompleteDispatch, TypeOK, ScoutsTyped, RunsTyped, QueueTyped
<1>27. ASSUME NEW r \in Runs, NEW a \in Attempts, SkipRun(r, a)
      PROVE  TypeOK'
  <2>1. ProcsTyped'
    BY <1>27, ReplyTyped, {"failed"} \subseteq Calls, {"ok"} \subseteq Calls
    DEF SkipRun, TypeOK, Calls
  <2>2. runStatus' \in [Runs -> RunStatuses]
    BY <1>27 DEF SkipRun, TypeOK, RunsTyped, RunStatuses, SetRun
  <2> QED
    BY <1>27, <2>1, <2>2
    DEF SkipRun, TypeOK, ScoutsTyped, RunsTyped, QueueTyped
<1>28. ASSUME NEW r \in Runs, NEW a \in Attempts, Fail(r, a)
      PROVE  TypeOK'
  <2>1. ProcsTyped'
    <3>1. CASE Reply(r, a, "failed")
      BY <1>28, <3>1, ReplyTyped DEF Fail, TypeOK, Calls
    <3>2. CASE /\ \E pc \in {"deferrable", "countable"} : GoTo(r, a, pc)
               /\ UNCHANGED call
      <4>1. exec' \in [Runs -> [Attempts -> Execs]]
        BY <3>2, GoToTyped DEF TypeOK, Execs
      <4> QED BY <1>28, <3>2, <4>1 DEF Fail, TypeOK, ProcsTyped
    <3> QED BY <1>28, <3>1, <3>2 DEF Fail
  <2>2. runStatus' \in [Runs -> RunStatuses]
    BY <1>28 DEF Fail, TypeOK, RunsTyped, RunStatuses, SetRun
  <2> QED
    BY <1>28, <2>1, <2>2
    DEF Fail, TypeOK, ScoutsTyped, RunsTyped, QueueTyped
<1>29. ASSUME NEW r \in Runs, NEW a \in Attempts, DeferFailure(r, a)
      PROVE  TypeOK'
  <2>1. ProcsTyped'
    BY <1>29, ReplyTyped DEF DeferFailure, TypeOK, Calls
  <2> QED
    BY <1>29, <2>1, GrantRetryTyped DEF DeferFailure, TypeOK, ScoutsTyped
<1>30. ASSUME NEW r \in Runs, NEW a \in Attempts, RecordFailure(r, a)
      PROVE  TypeOK'
  <2>1. ProcsTyped'
    BY <1>30, ReplyTyped DEF RecordFailure, TypeOK, Calls
  <2>2. ScoutOf[r] \in Scouts
    BY ConstantsAssumption
  <2>3. ScoutsTyped'
    BY <1>30, <2>2, CountFailureTyped DEF RecordFailure, TypeOK
  <2> QED
    BY <1>30, <2>1, <2>3 DEF RecordFailure, TypeOK, RunsTyped, QueueTyped
<1>31. ASSUME NEW r \in Runs, NEW a \in Attempts, WorkerDies(r, a)
      PROVE  TypeOK'
  <2>1. exec' \in [Runs -> [Attempts -> Execs]]
    BY <1>31, GoToTyped DEF WorkerDies, TypeOK, Execs
  <2> QED
    BY <1>31, <2>1
    DEF WorkerDies, TypeOK, ScoutsTyped, RunsTyped, QueueTyped, ProcsTyped
<1>32. ASSUME NEW w \in Workers, Claim(w)
      PROVE  TypeOK'
  <2> PICK limit \in 1..Capacity : \E C \in Candidates(limit) :
          /\ Lease(w, C)
          /\ caller' = [r \in Runs |-> [a \in Attempts |->
               IF r \in C /\ a = attempts[r] + 1 THEN w ELSE caller[r][a]]]
          /\ call' = [r \in Runs |-> [a \in Attempts |->
               IF r \in C /\ a = attempts[r] + 1 THEN "open" ELSE call[r][a]]]
    BY <1>32 DEF Claim
  <2>1. PICK C \in Candidates(limit) :
          /\ Lease(w, C)
          /\ caller' = [r \in Runs |-> [a \in Attempts |->
               IF r \in C /\ a = attempts[r] + 1 THEN w ELSE caller[r][a]]]
          /\ call' = [r \in Runs |-> [a \in Attempts |->
               IF r \in C /\ a = attempts[r] + 1 THEN "open" ELSE call[r][a]]]
    OBVIOUS
  <2>2. QueueTyped'
    BY <2>1, LeaseTyped
  <2>3. caller' \in [Runs -> [Attempts -> Workers \cup {None}]]
    BY <2>1 DEF TypeOK, ProcsTyped
  <2>4. call' \in [Runs -> [Attempts -> Calls]]
    BY <2>1 DEF TypeOK, ProcsTyped, Calls
  <2>5. runStatus' \in [Runs -> RunStatuses]
    BY <1>32 DEF Claim, TypeOK, RunsTyped, RunStatuses
  <2> QED
    BY <1>32, <2>2, <2>3, <2>4, <2>5
    DEF Claim, TypeOK, ScoutsTyped, RunsTyped, ProcsTyped
<1>33. ASSUME ReconcileWaiting
      PROVE  TypeOK'
  <2>1. qStatus' \in [Runs -> RowStatuses]
    BY <1>33 DEF ReconcileWaiting, TypeOK, QueueTyped, ClosedStatus, RowStatuses
  <2>2. runStatus' \in [Runs -> RunStatuses]
    BY <1>33 DEF ReconcileWaiting, TypeOK, RunsTyped, RunStatuses
  <2> QED
    BY <1>33, <2>1, <2>2
    DEF ReconcileWaiting, TypeOK, ScoutsTyped, RunsTyped, QueueTyped, ProcsTyped
<1>34. ASSUME ReconcileStale
      PROVE  TypeOK'
  BY <1>34
  DEF ReconcileStale, TypeOK, ScoutsTyped, RunsTyped, QueueTyped, ProcsTyped,
      RunStatuses
<1>35. ASSUME NEW r \in Runs, NEW a \in Attempts, QueueDocument(r, a)
      PROVE  TypeOK'
  <2>1. exec' \in [Runs -> [Attempts -> Execs]]
    BY <1>35, GoToTyped DEF QueueDocument, TypeOK, Execs
  <2>2. DocsTyped'
    BY <1>35 DEF QueueDocument, TypeOK, DocsTyped
  <2> QED
    BY <1>35, <2>1, <2>2
    DEF QueueDocument, TypeOK, ScoutsTyped, RunsTyped, QueueTyped, ProcsTyped
<1>36. CASE UNCHANGED vars
  BY <1>36
  DEF vars, TypeOK, ScoutsTyped, RunsTyped, QueueTyped, ProcsTyped
<1> QED
  BY <1>1, <1>2, <1>3, <1>4, <1>5, <1>6, <1>7, <1>8, <1>9, <1>10, <1>11,
     <1>12, <1>13, <1>14, <1>15, <1>16, <1>17, <1>18, <1>19, <1>20,
     <1>21, <1>22, <1>23, <1>24, <1>25, <1>26, <1>27, <1>28, <1>29,
     <1>30, <1>31, <1>32, <1>33, <1>34, <1>35, <1>36
  DEF Next, ScoutNext, RunNext, DocumentsNext, SettleCall, WorkerNext

-----------------------------------------------------------------------------
(* How a step moves the rows                                               *)

\* A free slot is opened for a scout that has no active row.
QInsert ==
  \E r \in Runs :
    /\ qStatus[r] = "none"
    /\ ~Busy(ScoutOf[r])
    /\ qStatus' = [qStatus EXCEPT ![r] = "queued"]

\* Only active rows move, and none goes back to not being there.
QMove ==
  \A r \in Runs :
    \/ qStatus'[r] = qStatus[r]
    \/ Active(r) /\ qStatus'[r] \in RowStatuses \ {"none"}

\* No run that exists ceases to.
Keeps == \A r \in Runs : runStatus'[r] = "absent" => runStatus[r] = "absent"

\* A run that gets a status other than "absent" exists.
LEMMA SetRunKeeps ==
  ASSUME TypeOK, NEW r \in Runs, NEW status, status # "absent",
         SetRun(r, status)
  PROVE  Keeps /\ runStatus'[r] # "absent"
BY DEF Keeps, SetRun, TypeOK, RunsTyped

\* A step that leaves the queue alone keeps rows and runs in line.
LEMMA RowsKept ==
  ASSUME RowsFollowRuns, Keeps, UNCHANGED <<qStatus, attempts, posted>>
  PROVE  QMove /\ RowsFollowRuns'
BY DEF RowsFollowRuns, Keeps, QMove

\* The insert of enqueue_scout_dispatch opens the slot of an idle scout.
LEMMA RowInserted ==
  ASSUME TypeOK, RowsFollowRuns, NEW r \in Runs, NEW now,
         qStatus[r] = "none", ~Busy(ScoutOf[r]), InsertRow(r, now),
         Keeps, runStatus'[r] # "absent", posted' = posted \ {r}
  PROVE  QInsert /\ RowsFollowRuns'
<1>1. QInsert
  BY DEF QInsert, InsertRow
<1>2. attempts'[r] = 0 /\ 0 < MaxAttempts
  BY ConstantsAssumption DEF InsertRow, RowsFollowRuns
<1>3. ASSUME NEW x \in Runs, x # r
      PROVE  qStatus'[x] = qStatus[x] /\ attempts'[x] = attempts[x]
  BY <1>3 DEF InsertRow, TypeOK, QueueTyped
<1>4. qStatus'[r] = "queued" /\ r \notin posted'
  BY DEF InsertRow, TypeOK, QueueTyped
<1> QED BY <1>1, <1>2, <1>3, <1>4 DEF RowsFollowRuns, Keeps

\* finish and park move one active row and nothing else.
LEMMA RowClosed ==
  ASSUME TypeOK, RowsFollowRuns, NEW r \in Runs, Active(r),
         NEW status \in {"waiting", "done", "failed"}, CloseRow(r, status),
         Keeps, UNCHANGED posted
  PROVE  QMove /\ RowsFollowRuns'
<1>1. ASSUME NEW x \in Runs, x # r
      PROVE  qStatus'[x] = qStatus[x]
  BY <1>1 DEF CloseRow, TypeOK, QueueTyped
<1>2. qStatus'[r] = status /\ UNCHANGED attempts
  BY DEF CloseRow, TypeOK, QueueTyped
<1>3. QMove
  BY <1>1, <1>2 DEF QMove, RowStatuses
<1>4. runStatus[r] # "absent" /\ r \notin posted
  BY DEF RowsFollowRuns, Active
<1> QED BY <1>1, <1>2, <1>3, <1>4 DEF RowsFollowRuns, Keeps

\* The claim moves active rows only, and requeues only rows with attempts left.
LEMMA RowsLeased ==
  ASSUME TypeOK, RowsFollowRuns, NEW w \in Workers, NEW limit \in Nat,
         NEW C \in Candidates(limit), Lease(w, C), Keeps, UNCHANGED posted
  PROVE  QMove /\ RowsFollowRuns'
<1> USE DEF TypeOK, QueueTyped
<1>1. C \subseteq Runs /\ \A r \in C : Active(r)
  BY DEF Candidates, Eligible, Requeued, Lapsed, Active
<1>2. \A r \in Mirrored \cup Lapsed : r \in Runs /\ Active(r)
  BY DEF Mirrored, Lapsed, Active
<1>3. Exhausted \subseteq Lapsed /\ Requeued \subseteq Lapsed
  BY DEF Exhausted, Requeued
<1>4. QMove
  BY <1>1, <1>2, <1>3 DEF QMove, Lease, ClosedStatus, RowStatuses
<1>5. ASSUME NEW r \in Runs
      PROVE  /\ qStatus'[r] = "none" => attempts'[r] = 0
             /\ qStatus'[r] = "queued" => attempts'[r] < MaxAttempts
  <2>1. CASE r \in C
    BY <2>1 DEF Lease
  <2>2. CASE r \notin C /\ r \in Mirrored
    BY <2>2 DEF Lease, ClosedStatus
  <2>3. CASE r \notin C /\ r \notin Mirrored /\ r \in Exhausted
    BY <2>3 DEF Lease
  <2>4. CASE r \notin C /\ r \notin Mirrored /\ r \in Requeued
    <3>1. attempts[r] < MaxAttempts
      BY <2>4, ConstantsAssumption DEF Requeued, Exhausted
    <3> QED BY <2>4, <3>1 DEF Lease, Requeued
  <2>5. CASE r \notin C \cup Mirrored \cup Exhausted \cup Requeued
    BY <2>5 DEF Lease, RowsFollowRuns
  <2> QED BY <2>1, <2>2, <2>3, <2>4, <2>5
<1>6. ASSUME NEW r \in Runs, qStatus[r] = "none"
      PROVE  qStatus'[r] = "none"
  BY <1>4, <1>6 DEF QMove, Active
<1> QED BY <1>4, <1>5, <1>6 DEF RowsFollowRuns, Keeps

\* A deferred retry takes a free slot, or coalesces and moves nothing.
LEMMA RetryInserted ==
  ASSUME TypeOK, RowsFollowRuns, NEW r \in Runs, GrantRetry(r),
         UNCHANGED posted
  PROVE  (QInsert \/ QMove) /\ Keeps /\ RowsFollowRuns'
<1>1. CASE Retries(r) # {} \/ Busy(ScoutOf[r])
  BY <1>1, RowsKept DEF GrantRetry, EnqueueRetry, Keeps, queueVars
<1>2. CASE ~(Retries(r) # {} \/ Busy(ScoutOf[r]))
  <2>1. PICK x \in Fresh(ScoutOf[r]) :
          /\ SetRun(x, "running")
          /\ InsertRow(x, FALSE)
    BY <1>2 DEF GrantRetry, EnqueueRetry
  <2>2. x \in Runs /\ ScoutOf[x] = ScoutOf[r] /\ runStatus[x] = "absent"
    BY DEF Fresh, RunsOf
  <2>3. qStatus[x] = "none" /\ x \notin posted
    BY <2>2 DEF RowsFollowRuns
  <2>4. Keeps /\ runStatus'[x] # "absent"
    BY <2>1, <2>2, SetRunKeeps
  <2> QED BY <1>2, <2>1, <2>2, <2>3, <2>4, RowInserted
<1> QED BY <1>1, <1>2

\* Every step either opens the slot of an idle scout or moves active rows.
LEMMA QueueStep ==
  ASSUME TypeOK, RowsFollowRuns, [Next]_vars
  PROVE  (QInsert \/ QMove) /\ Keeps /\ RowsFollowRuns'
<1> USE DEF scoutVars, runVars, queueVars, procVars, docVars
<1>1. ASSUME NEW s \in Scouts, EnqueueScheduled(s)
      PROVE  (QInsert \/ QMove) /\ Keeps /\ RowsFollowRuns'
  <2>1. PICK r \in Fresh(s) :
          /\ SetRun(r, "running")
          /\ InsertRow(r, TRUE)
    BY <1>1 DEF EnqueueScheduled
  <2>2. r \in Runs /\ ScoutOf[r] = s /\ runStatus[r] = "absent"
    BY DEF Fresh, RunsOf
  <2>3. qStatus[r] = "none" /\ r \notin posted
    BY <2>2 DEF RowsFollowRuns
  <2>4. Keeps /\ runStatus'[r] # "absent"
    BY <2>1, <2>2, SetRunKeeps
  <2> QED
    BY <1>1, <2>1, <2>2, <2>3, <2>4, RowInserted DEF EnqueueScheduled
<1>2. ASSUME NEW s \in Scouts, TriggerScoutRun(s)
      PROVE  (QInsert \/ QMove) /\ Keeps /\ RowsFollowRuns'
  <2>1. PICK r \in Fresh(s) :
          /\ SetRun(r, "running")
          /\ posted' = posted \cup {r}
    BY <1>2 DEF TriggerScoutRun
  <2>2. r \in Runs /\ runStatus[r] = "absent"
    BY DEF Fresh, RunsOf
  <2>3. qStatus[r] = "none"
    BY <2>2 DEF RowsFollowRuns
  <2>4. Keeps /\ runStatus'[r] # "absent"
    BY <2>1, <2>2, SetRunKeeps
  <2> QED
    BY <1>2, <2>1, <2>3, <2>4
    DEF TriggerScoutRun, Keeps, QMove, RowsFollowRuns
<1>3. ASSUME NEW s \in Scouts, PauseScout(s)
      PROVE  (QInsert \/ QMove) /\ Keeps /\ RowsFollowRuns'
  BY <1>3, RowsKept DEF PauseScout, Keeps
<1>4. ASSUME NEW s \in Scouts, ResumeScout(s)
      PROVE  (QInsert \/ QMove) /\ Keeps /\ RowsFollowRuns'
  BY <1>4, RowsKept DEF ResumeScout, Keeps
<1>5. ASSUME NEW r \in Runs, ExecuteScout(r)
      PROVE  (QInsert \/ QMove) /\ Keeps /\ RowsFollowRuns'
  <2>1. qStatus[r] = "none" /\ runStatus[r] # "absent"
    BY <1>5 DEF ExecuteScout, RowsFollowRuns
  <2>2. Keeps /\ runStatus'[r] # "absent"
    BY <1>5, <2>1 DEF ExecuteScout, Keeps, SetRun, TypeOK, RunsTyped
  <2>3. CASE UNCHANGED queueVars
    BY <1>5, <2>2, <2>3
    DEF ExecuteScout, Keeps, QMove, RowsFollowRuns
  <2>4. CASE InsertRow(r, TRUE) /\ ~Busy(ScoutOf[r])
    BY <1>5, <2>1, <2>2, <2>4, RowInserted DEF ExecuteScout
  <2> QED BY <1>5, <2>3, <2>4 DEF ExecuteScout
<1>6. ASSUME NEW r \in Runs, LosePost(r)
      PROVE  (QInsert \/ QMove) /\ Keeps /\ RowsFollowRuns'
  BY <1>6 DEF LosePost, Keeps, QMove, RowsFollowRuns
<1>7. ASSUME NEW r \in Runs, FinalizeDocuments(r) \/ FailsafeDocuments(r)
      PROVE  (QInsert \/ QMove) /\ Keeps /\ RowsFollowRuns'
  <2>1. Keeps
    BY <1>7
    DEF FinalizeDocuments, FailsafeDocuments, Finalize, SettleRun, Keeps,
        SetRun, TypeOK, RunsTyped
  <2> QED BY <1>7, <2>1, RowsKept DEF FinalizeDocuments, FailsafeDocuments
<1>8. ASSUME NEW r \in Runs,
             \/ FailDocuments(r) \/ MarkDocumentsFailed(r)
             \/ CountDocuments(r) \/ ExtractorStops(r)
      PROVE  (QInsert \/ QMove) /\ Keeps /\ RowsFollowRuns'
  <2>1. Keeps
    BY <1>8
    DEF FailDocuments, MarkDocumentsFailed, CountDocuments, ExtractorStops,
        Keeps, SetRun, TypeOK, RunsTyped
  <2> QED
    BY <1>8, <2>1, RowsKept
    DEF FailDocuments, MarkDocumentsFailed, CountDocuments, ExtractorStops
<1>9. ASSUME NEW r \in Runs, DeferDocuments(r)
      PROVE  (QInsert \/ QMove) /\ Keeps /\ RowsFollowRuns'
  BY <1>9, RetryInserted DEF DeferDocuments
<1>10. ASSUME NEW r \in Runs, ExpireLease(r)
      PROVE  (QInsert \/ QMove) /\ Keeps /\ RowsFollowRuns'
  BY <1>10, RowsKept DEF ExpireLease, Keeps
<1>11. ASSUME NEW r \in Runs, BecomeDue(r)
      PROVE  (QInsert \/ QMove) /\ Keeps /\ RowsFollowRuns'
  BY <1>11, RowsKept DEF BecomeDue, Keeps
<1>12. ASSUME NEW r \in Runs, AgeRun(r)
      PROVE  (QInsert \/ QMove) /\ Keeps /\ RowsFollowRuns'
  BY <1>12, RowsKept DEF AgeRun, Keeps
<1>13. ASSUME NEW r \in Runs, NEW a \in Attempts, CallFails(r, a)
      PROVE  (QInsert \/ QMove) /\ Keeps /\ RowsFollowRuns'
  BY <1>13, RowsKept DEF CallFails, Keeps
<1>14. ASSUME NEW r \in Runs, NEW a \in Attempts, FinishDispatch(r, a)
      PROVE  (QInsert \/ QMove) /\ Keeps /\ RowsFollowRuns'
  <2>1. CASE OwnsLease(r, a)
    <3>1. Active(r)
      BY <2>1 DEF OwnsLease, Active
    <3>2. PICK status \in {"done", "failed"} : CloseRow(r, status)
      BY <1>14, <2>1 DEF FinishDispatch, FinishRow
    <3>3. Keeps
      BY <1>14, <2>1
      DEF FinishDispatch, FinishRow, Keeps, SetRun, TypeOK, RunsTyped
    <3> QED BY <1>14, <3>1, <3>2, <3>3, RowClosed DEF FinishDispatch
  <2>2. CASE ~OwnsLease(r, a)
    BY <1>14, <2>2, RowsKept DEF FinishDispatch, Keeps
  <2> QED BY <2>1, <2>2
<1>15. ASSUME NEW r \in Runs, NEW a \in Attempts, ParkDispatch(r, a)
      PROVE  (QInsert \/ QMove) /\ Keeps /\ RowsFollowRuns'
  <2>1. CASE OwnsLease(r, a)
    <3>1. Active(r)
      BY <2>1 DEF OwnsLease, Active
    <3> QED BY <1>15, <2>1, <3>1, RowClosed DEF ParkDispatch, Keeps
  <2>2. CASE ~OwnsLease(r, a)
    BY <1>15, <2>2, RowsKept DEF ParkDispatch, Keeps
  <2> QED BY <2>1, <2>2
<1>16. ASSUME NEW r \in Runs, NEW a \in Attempts, CountUnreachable(r, a)
      PROVE  (QInsert \/ QMove) /\ Keeps /\ RowsFollowRuns'
  BY <1>16, RowsKept DEF CountUnreachable, Keeps
<1>17. ASSUME NEW r \in Runs, NEW a \in Attempts, DropCall(r, a)
      PROVE  (QInsert \/ QMove) /\ Keeps /\ RowsFollowRuns'
  BY <1>17, RowsKept DEF DropCall, Keeps
<1>18. ASSUME NEW r \in Runs, NEW a \in Attempts, StartPage(r, a)
      PROVE  (QInsert \/ QMove) /\ Keeps /\ RowsFollowRuns'
  BY <1>18, RowsKept DEF StartPage, Keeps
<1>19. ASSUME NEW r \in Runs, NEW a \in Attempts, AcceptBeat(r, a)
      PROVE  (QInsert \/ QMove) /\ Keeps /\ RowsFollowRuns'
  BY <1>19, RowsKept DEF AcceptBeat, Keeps
<1>20. ASSUME NEW r \in Runs, NEW a \in Attempts, StartCivic(r, a)
      PROVE  (QInsert \/ QMove) /\ Keeps /\ RowsFollowRuns'
  <2>1. Keeps
    BY <1>20, SetRunKeeps DEF StartCivic, Keeps
  <2> QED BY <1>20, <2>1, RowsKept DEF StartCivic
<1>21. ASSUME NEW r \in Runs, NEW a \in Attempts, ResolveBeat(r, a)
      PROVE  (QInsert \/ QMove) /\ Keeps /\ RowsFollowRuns'
  <2>1. Keeps
    BY <1>21, SetRunKeeps DEF ResolveBeat, Keeps
  <2> QED BY <1>21, <2>1, RowsKept DEF ResolveBeat
<1>22. ASSUME NEW r \in Runs, NEW a \in Attempts, BeatBackgroundFails(r, a)
      PROVE  (QInsert \/ QMove) /\ Keeps /\ RowsFollowRuns'
  <2>1. (IF Terminal(r) THEN runStatus[r] ELSE "error") # "absent"
    BY DEF Terminal
  <2>2. Keeps
    BY <1>22, <2>1, SetRunKeeps DEF BeatBackgroundFails
  <2> QED BY <1>22, <2>2, RowsKept DEF BeatBackgroundFails
<1>23. ASSUME NEW r \in Runs, NEW a \in Attempts, MarkSuccess(r, a)
      PROVE  (QInsert \/ QMove) /\ Keeps /\ RowsFollowRuns'
  <2>1. Keeps
    BY <1>23, SetRunKeeps DEF MarkSuccess, Keeps
  <2> QED BY <1>23, <2>1, RowsKept DEF MarkSuccess
<1>24. ASSUME NEW r \in Runs, NEW a \in Attempts, ResetFailures(r, a)
      PROVE  (QInsert \/ QMove) /\ Keeps /\ RowsFollowRuns'
  BY <1>24, RowsKept DEF ResetFailures, Keeps
<1>25. ASSUME NEW r \in Runs, NEW a \in Attempts, CompleteEmpty(r, a)
      PROVE  (QInsert \/ QMove) /\ Keeps /\ RowsFollowRuns'
  <2>1. Keeps
    BY <1>25, SetRunKeeps DEF CompleteEmpty, Keeps
  <2> QED BY <1>25, <2>1, RowsKept DEF CompleteEmpty
<1>26. ASSUME NEW r \in Runs, NEW a \in Attempts, CompleteDispatch(r, a)
      PROVE  (QInsert \/ QMove) /\ Keeps /\ RowsFollowRuns'
  <2>1. Keeps
    BY <1>26, SetRunKeeps DEF CompleteDispatch, SettleRun, Keeps
  <2> QED BY <1>26, <2>1, RowsKept DEF CompleteDispatch
<1>27. ASSUME NEW r \in Runs, NEW a \in Attempts, SkipRun(r, a)
      PROVE  (QInsert \/ QMove) /\ Keeps /\ RowsFollowRuns'
  <2>1. Keeps
    BY <1>27, SetRunKeeps DEF SkipRun, Keeps
  <2> QED BY <1>27, <2>1, RowsKept DEF SkipRun
<1>28. ASSUME NEW r \in Runs, NEW a \in Attempts, Fail(r, a)
      PROVE  (QInsert \/ QMove) /\ Keeps /\ RowsFollowRuns'
  <2>1. Keeps
    BY <1>28, SetRunKeeps DEF Fail, Keeps
  <2> QED BY <1>28, <2>1, RowsKept DEF Fail
<1>29. ASSUME NEW r \in Runs, NEW a \in Attempts, DeferFailure(r, a)
      PROVE  (QInsert \/ QMove) /\ Keeps /\ RowsFollowRuns'
  BY <1>29, RetryInserted DEF DeferFailure
<1>30. ASSUME NEW r \in Runs, NEW a \in Attempts, RecordFailure(r, a)
      PROVE  (QInsert \/ QMove) /\ Keeps /\ RowsFollowRuns'
  BY <1>30, RowsKept DEF RecordFailure, Keeps
<1>31. ASSUME NEW r \in Runs, NEW a \in Attempts, WorkerDies(r, a)
      PROVE  (QInsert \/ QMove) /\ Keeps /\ RowsFollowRuns'
  BY <1>31, RowsKept DEF WorkerDies, Keeps
<1>32. ASSUME NEW w \in Workers, Claim(w)
      PROVE  (QInsert \/ QMove) /\ Keeps /\ RowsFollowRuns'
  <2>1. PICK limit \in 1..Capacity : \E C \in Candidates(limit) : Lease(w, C)
    BY <1>32 DEF Claim
  <2>2. PICK C \in Candidates(limit) : Lease(w, C)
    BY <2>1
  <2>3. Keeps /\ UNCHANGED posted
    BY <1>32 DEF Claim, Keeps
  <2>4. limit \in Nat
    BY ConstantsAssumption
  <2> QED BY <2>2, <2>3, <2>4, RowsLeased
<1>33. ASSUME ReconcileWaiting
      PROVE  (QInsert \/ QMove) /\ Keeps /\ RowsFollowRuns'
  <2>1. Keeps /\ UNCHANGED <<attempts, posted>>
    BY <1>33 DEF ReconcileWaiting, Keeps
  <2>2. QMove /\ \A r \in Runs : qStatus'[r] = "queued" => qStatus[r] = "queued"
    BY <1>33
    DEF ReconcileWaiting, QMove, Stalled, ClosedStatus, Active, RowStatuses
  <2> QED BY <2>1, <2>2 DEF RowsFollowRuns, Keeps, QMove, Active
<1>34. ASSUME ReconcileStale
      PROVE  (QInsert \/ QMove) /\ Keeps /\ RowsFollowRuns'
  <2>1. Keeps
    BY <1>34 DEF ReconcileStale, Keeps
  <2> QED BY <1>34, <2>1, RowsKept DEF ReconcileStale
<1>35. ASSUME NEW r \in Runs, NEW a \in Attempts, QueueDocument(r, a)
      PROVE  (QInsert \/ QMove) /\ Keeps /\ RowsFollowRuns'
  BY <1>35, RowsKept DEF QueueDocument, Keeps
<1>36. CASE UNCHANGED vars
  BY <1>36, RowsKept DEF vars, Keeps
<1> QED
  BY <1>1, <1>2, <1>3, <1>4, <1>5, <1>6, <1>7, <1>8, <1>9, <1>10, <1>11,
     <1>12, <1>13, <1>14, <1>15, <1>16, <1>17, <1>18, <1>19, <1>20,
     <1>21, <1>22, <1>23, <1>24, <1>25, <1>26, <1>27, <1>28, <1>29,
     <1>30, <1>31, <1>32, <1>33, <1>34, <1>35, <1>36
  DEF Next, ScoutNext, RunNext, DocumentsNext, SettleCall, WorkerNext

-----------------------------------------------------------------------------
(* The inductive invariant, and what follows from it                       *)

IInv == TypeOK /\ RowsFollowRuns

\* TypeOK alone is not inductive: a lease increments attempts, and only
\* RowsFollowRuns knows that a queued row has attempts left.
LEMMA IInvHolds == Spec => []IInv
<1>1. Init => IInv
  <2>1. ASSUME Init
        PROVE  TypeOK
    BY <2>1, ConstantsAssumption
    DEF Init, TypeOK, ScoutsTyped, RunsTyped, QueueTyped, ProcsTyped,
        DocsTyped, RunStatuses, Sources, RowStatuses, Calls, Execs, Extractors
  <2> QED BY <2>1 DEF Init, IInv, RowsFollowRuns
<1>2. IInv /\ [Next]_vars => IInv'
  BY TypeStep, QueueStep DEF IInv
<1> QED BY <1>1, <1>2, PTL DEF Spec

\* Type correctness: every column of the scouts, runs and dispatch tables keeps
\* its domain, and attempts never pass SCOUT_DISPATCH_MAX_ATTEMPTS.
THEOREM Typed == Spec => []TypeOK
<1>1. IInv => TypeOK
  BY DEF IInv
<1> QED BY <1>1, IInvHolds, PTL

\* A scout never has two active rows, whoever enqueued them: the promise of
\* enqueue_scout_dispatch and of the partial unique index behind it.
THEOREM OneActive == Spec => []OneActiveRowPerScout
<1>1. Init => OneActiveRowPerScout
  BY DEF Init, OneActiveRowPerScout, Active
<1>2. IInv /\ OneActiveRowPerScout /\ [Next]_vars => OneActiveRowPerScout'
  <2> SUFFICES ASSUME IInv, OneActiveRowPerScout, [Next]_vars
               PROVE  OneActiveRowPerScout'
    OBVIOUS
  <2>1. QInsert \/ QMove
    BY QueueStep DEF IInv
  <2>2. CASE QInsert
    <3>1. PICK r \in Runs :
            /\ ~Busy(ScoutOf[r])
            /\ qStatus' = [qStatus EXCEPT ![r] = "queued"]
      BY <2>2 DEF QInsert
    <3>2. \A x \in Runs : Active(x)' => x = r \/ Active(x)
      BY <3>1 DEF Active, IInv, TypeOK, QueueTyped
    <3>3. \A x \in Runs : Active(x) => ScoutOf[x] # ScoutOf[r]
      BY <3>1 DEF Busy, RunsOf
    <3> QED BY <3>2, <3>3 DEF OneActiveRowPerScout
  <2>3. CASE QMove
    <3>1. \A x \in Runs : Active(x)' => Active(x)
      BY <2>3 DEF QMove, Active
    <3> QED BY <3>1 DEF OneActiveRowPerScout
  <2> QED BY <2>1, <2>2, <2>3
<1> QED BY <1>1, <1>2, IInvHolds, PTL DEF Spec

-----------------------------------------------------------------------------
(* The queue implements the slots                                          *)

\* The insert of a row is the opening of a slot.
LEMMA InsertOpens ==
  ASSUME TypeOK, QInsert
  PROVE  \E r \in Runs : Slot!Open(r)
<1>1. PICK r \in Runs :
        /\ qStatus[r] = "none"
        /\ ~Busy(ScoutOf[r])
        /\ qStatus' = [qStatus EXCEPT ![r] = "queued"]
  BY DEF QInsert
<1>2. SlotOf(r) = "free" /\ SlotOf(r)' = "open"
  BY <1>1 DEF SlotOf, Active, TypeOK, QueueTyped
<1>3. \A x \in Runs : x # r => SlotOf(x)' = SlotOf(x)
  BY <1>1 DEF SlotOf, Active, TypeOK, QueueTyped
<1>4. \A x \in Runs : ScoutOf[x] = ScoutOf[r] => SlotOf(x) # "open"
  BY <1>1 DEF SlotOf, Active, Busy, RunsOf, TypeOK, QueueTyped, RowStatuses
<1>5. [x \in Runs |-> SlotOf(x)]'
        = [[x \in Runs |-> SlotOf(x)] EXCEPT ![r] = "open"]
  BY <1>2, <1>3
<1> QED BY <1>2, <1>4, <1>5 DEF Slot!Open

\* A step that moves active rows gives back the slots of those it closes.
LEMMA MoveCloses ==
  ASSUME TypeOK, QMove
  PROVE  \E closing \in SUBSET Runs : Slot!Close(closing)
<1> DEFINE closing == {r \in Runs : Active(r) /\ ~Active(r)'}
           outcome == [r \in closing |-> qStatus'[r]]
<1>1. \A r \in closing : SlotOf(r) = "open" /\ SlotOf(r)' = qStatus'[r]
                         /\ qStatus'[r] \in {"done", "failed"}
  BY DEF QMove, SlotOf, Active, RowStatuses, TypeOK, QueueTyped
<1>2. \A r \in Runs \ closing : SlotOf(r)' = SlotOf(r)
  BY DEF QMove, SlotOf, Active, RowStatuses, TypeOK, QueueTyped
<1>3. outcome \in [closing -> Slot!Outcomes]
  BY <1>1 DEF Slot!Outcomes
<1>4. [r \in Runs |-> SlotOf(r)]'
        = [r \in Runs |-> IF r \in closing THEN outcome[r]
                          ELSE [x \in Runs |-> SlotOf(x)][r]]
  BY <1>1, <1>2
<1>5. Slot!Close(closing)
  BY <1>1, <1>3, <1>4 DEF Slot!Close
<1> QED BY <1>5

\* The dispatch queue implements ScoutSlot: a run opens the slot of its scout
\* only when it is free, holds it once and gives it back for good.
THEOREM Refinement == Spec => ImplementsSlots
<1>1. Init => Slot!Init
  BY DEF Init, Slot!Init, SlotOf
<1>2. IInv /\ [Next]_vars => [Slot!Next]_([r \in Runs |-> SlotOf(r)])
  BY QueueStep, InsertOpens, MoveCloses DEF IInv, Slot!Next
<1> QED BY <1>1, <1>2, IInvHolds, PTL DEF Spec, ImplementsSlots, Slot!Spec

-----------------------------------------------------------------------------
(* Leases                                                                  *)

\* What every step but a claim and the settling of a call leaves of a lease:
\* nobody gets one, and no call is settled.
Quiet ==
  /\ UNCHANGED <<attempts, leaseOwner, caller>>
  /\ \A r \in Runs : qStatus'[r] = "leased" => qStatus[r] = "leased"
  /\ \A r \in Runs : leaseExpired[r] => leaseExpired'[r]
  /\ \A r \in Runs, a \in Attempts :
       \/ call'[r][a] = call[r][a]
       \/ call[r][a] = "open"
          /\ call'[r][a] \in {"ok", "accepted", "failed", "unreachable"}

\* Inserting a row gives nobody a lease.
LEMMA InsertQuiet ==
  ASSUME TypeOK, NEW r \in Runs, NEW now, InsertRow(r, now)
  PROVE  /\ UNCHANGED <<attempts, leaseOwner, leaseExpired>>
         /\ \A x \in Runs : qStatus'[x] = "leased" => qStatus[x] = "leased"
BY DEF InsertRow, TypeOK, QueueTyped

\* A worker's answer only ends an open fetch.
LEMMA AnswerQuiet ==
  ASSUME TypeOK, NEW r \in Runs, NEW a \in Attempts,
         NEW answer \in {"ok", "accepted", "failed", "unreachable"},
         call' = Answered(r, a, answer)
  PROVE  \A x \in Runs, b \in Attempts :
           \/ call'[x][b] = call[x][b]
           \/ call[x][b] = "open"
              /\ call'[x][b] \in {"ok", "accepted", "failed", "unreachable"}
BY DEF Answered, TypeOK, ProcsTyped

\* Neither does a deferred retry.
LEMMA RetryQuiet ==
  ASSUME TypeOK, NEW r \in Runs, GrantRetry(r)
  PROVE  /\ UNCHANGED <<attempts, leaseOwner, leaseExpired>>
         /\ \A x \in Runs : qStatus'[x] = "leased" => qStatus[x] = "leased"
<1>1. CASE UNCHANGED queueVars
  BY <1>1 DEF queueVars
<1>2. CASE \E x \in Fresh(ScoutOf[r]) : InsertRow(x, FALSE)
  BY <1>2, InsertQuiet DEF Fresh, RunsOf
<1> QED BY <1>1, <1>2 DEF GrantRetry, EnqueueRetry

\* The steps of the extract workers are quiet.
LEMMA DocumentsQuiet ==
  ASSUME TypeOK, NEW r \in Runs, DocumentsNext(r)
  PROVE  Quiet
<1>1. CASE DeferDocuments(r)
  BY <1>1, RetryQuiet DEF DeferDocuments, Quiet, procVars
<1>2. CASE ~DeferDocuments(r)
  BY <1>2
  DEF DocumentsNext, FinalizeDocuments, FailsafeDocuments, FailDocuments,
      MarkDocumentsFailed, CountDocuments, ExtractorStops, Quiet, queueVars,
      procVars
<1> QED BY <1>1, <1>2

\* The steps of the workers are quiet, the retry they may enqueue included.
LEMMA WorkerQuiet ==
  ASSUME TypeOK, NEW r \in Runs, NEW a \in Attempts, WorkerNext(r, a)
  PROVE  Quiet
<1> USE DEF scoutVars, runVars, queueVars, procVars, docVars
<1>1. CASE DeferFailure(r, a)
  BY <1>1, RetryQuiet, AnswerQuiet DEF DeferFailure, Reply, Quiet
<1>2. CASE ~DeferFailure(r, a)
  <2>1. UNCHANGED <<queueVars, caller>>
    BY <1>2
    DEF WorkerNext, StartPage, AcceptBeat, StartCivic, ResolveBeat,
        BeatBackgroundFails, MarkSuccess, ResetFailures, QueueDocument,
        CompleteEmpty, CompleteDispatch, SkipRun, Fail, RecordFailure,
        WorkerDies
  <2>2. \/ UNCHANGED call
        \/ \E answer \in {"ok", "accepted", "failed"} :
             call' = Answered(r, a, answer)
    BY <1>2
    DEF WorkerNext, StartPage, AcceptBeat, StartCivic, ResolveBeat,
        BeatBackgroundFails, MarkSuccess, ResetFailures, QueueDocument,
        CompleteEmpty, CompleteDispatch, SkipRun, Fail, RecordFailure,
        WorkerDies, Reply
  <2> QED BY <2>1, <2>2, AnswerQuiet DEF Quiet
<1> QED BY <1>1, <1>2

\* Every step claims, settles a call, or is quiet.
LEMMA StepKinds ==
  ASSUME TypeOK, [Next]_vars
  PROVE  \/ \E w \in Workers : Claim(w)
         \/ \E r \in Runs, a \in Attempts : SettleCall(r, a)
         \/ Quiet
<1> USE DEF scoutVars, runVars, queueVars, procVars, docVars
<1>1. ASSUME NEW s \in Scouts, EnqueueScheduled(s)
      PROVE  Quiet
  BY <1>1, InsertQuiet DEF EnqueueScheduled, Quiet, Fresh, RunsOf
<1>2. ASSUME NEW s \in Scouts,
             TriggerScoutRun(s) \/ PauseScout(s) \/ ResumeScout(s)
      PROVE  Quiet
  BY <1>2 DEF TriggerScoutRun, PauseScout, ResumeScout, Quiet
<1>3. ASSUME NEW r \in Runs, ExecuteScout(r)
      PROVE  Quiet
  BY <1>3, InsertQuiet DEF ExecuteScout, Quiet
<1>4. ASSUME NEW r \in Runs,
             LosePost(r) \/ DocumentsNext(r) \/ BecomeDue(r) \/ AgeRun(r)
      PROVE  Quiet
  BY <1>4, DocumentsQuiet DEF LosePost, BecomeDue, AgeRun, Quiet
<1>5. ASSUME NEW r \in Runs, ExpireLease(r)
      PROVE  Quiet
  BY <1>5 DEF ExpireLease, Quiet, TypeOK, QueueTyped
<1>6. ASSUME NEW r \in Runs, NEW a \in Attempts, CallFails(r, a)
      PROVE  Quiet
  BY <1>6 DEF CallFails, Quiet, TypeOK, ProcsTyped
<1>7. ASSUME NEW r \in Runs, NEW a \in Attempts, WorkerNext(r, a)
      PROVE  Quiet
  BY <1>7, WorkerQuiet
<1>8. ASSUME ReconcileWaiting
      PROVE  Quiet
  BY <1>8 DEF ReconcileWaiting, ClosedStatus, Quiet, TypeOK, QueueTyped
<1>9. ASSUME ReconcileStale
      PROVE  Quiet
  BY <1>9 DEF ReconcileStale, Quiet
<1>10. CASE UNCHANGED vars
  BY <1>10 DEF vars, Quiet
<1> QED
  BY <1>1, <1>2, <1>3, <1>4, <1>5, <1>6, <1>7, <1>8, <1>9, <1>10
  DEF Next, ScoutNext, RunNext

\* A drain that settles a call moves its own row at most, and only when that
\* row is its lease.
LEMMA SettlesOwn ==
  ASSUME TypeOK, NEW r \in Runs, NEW a \in Attempts, SettleCall(r, a)
  PROVE  /\ UNCHANGED attempts
         /\ \A x \in Runs : qStatus'[x] = "leased" =>
              /\ qStatus[x] = "leased"
              /\ leaseOwner'[x] = leaseOwner[x]
              /\ leaseExpired'[x] = leaseExpired[x]
         /\ OwnsLease(r, a) \/ UNCHANGED <<qStatus, runStatus>>
         /\ \A x \in Runs : x # r => /\ qStatus'[x] = qStatus[x]
                                     /\ runStatus'[x] = runStatus[x]
         /\ call[r][a] \notin {"none", "settled"}
         /\ \A x \in Runs, b \in Attempts :
              <<x, b>> # <<r, a>> => /\ caller'[x][b] = caller[x][b]
                                     /\ call'[x][b] = call[x][b]
         /\ \/ caller'[r][a] = None /\ call'[r][a] = "settled"
            \/ caller'[r][a] = caller[r][a] /\ call'[r][a] = "counting"
<1> USE DEF queueVars, runVars, TypeOK, QueueTyped, RunsTyped
<1>1. CASE FinishDispatch(r, a)
  <2>1. \/ UNCHANGED <<queueVars, runStatus>>
        \/ OwnsLease(r, a) /\ \E success \in BOOLEAN : FinishRow(r, success)
    BY <1>1 DEF FinishDispatch
  <2>2. CASE UNCHANGED <<queueVars, runStatus>>
    BY <1>1, <2>2 DEF FinishDispatch, Settle, ProcsTyped
  <2>3. CASE OwnsLease(r, a) /\ \E success \in BOOLEAN : FinishRow(r, success)
    <3>1. /\ \E status \in {"done", "failed"} : CloseRow(r, status)
          /\ \A x \in Runs : x # r => runStatus'[x] = runStatus[x]
      BY <2>3 DEF FinishRow, SetRun
    <3>2. PICK status \in {"done", "failed"} : CloseRow(r, status)
      BY <3>1
    <3>3. /\ UNCHANGED attempts
          /\ qStatus'[r] # "leased"
          /\ \A x \in Runs : x # r => /\ qStatus'[x] = qStatus[x]
                                      /\ leaseOwner'[x] = leaseOwner[x]
                                      /\ leaseExpired'[x] = leaseExpired[x]
      BY <3>2 DEF CloseRow
    <3>4. /\ call[r][a] \notin {"none", "settled"}
          /\ \A x \in Runs, b \in Attempts :
               <<x, b>> # <<r, a>> => /\ caller'[x][b] = caller[x][b]
                                      /\ call'[x][b] = call[x][b]
          /\ \/ caller'[r][a] = None /\ call'[r][a] = "settled"
             \/ caller'[r][a] = caller[r][a] /\ call'[r][a] = "counting"
      BY <1>1 DEF FinishDispatch, Settle, ProcsTyped
    <3> QED BY <2>3, <3>1, <3>3, <3>4
  <2> QED BY <2>1, <2>2, <2>3
<1>2. CASE ParkDispatch(r, a)
  BY <1>2 DEF ParkDispatch, CloseRow, Settle, ProcsTyped
<1>3. CASE CountUnreachable(r, a) \/ DropCall(r, a)
  BY <1>3 DEF CountUnreachable, DropCall, Settle, ProcsTyped
<1> QED BY <1>1, <1>2, <1>3 DEF SettleCall

-----------------------------------------------------------------------------
(* Capacity                                                                *)

\* The leases that count against SCOUT_DISPATCH_CONCURRENCY.
Leases == {r \in Runs : qStatus[r] = "leased" /\ ~leaseExpired[r]}

\* A set of runs is no larger than one it is part of.
LEMMA FewerRuns ==
  ASSUME NEW S \in SUBSET Runs, NEW T \in SUBSET S
  PROVE  /\ Cardinality(S) \in Nat /\ Cardinality(T) \in Nat
         /\ Cardinality(T) <= Cardinality(S)
<1>1. IsFiniteSet(S)
  BY RunsFinite, FS_Subset
<1> QED BY <1>1, FS_Subset, FS_CardinalityType

\* A claim leaves unexpired what it leased and what others held: all of it
\* within the capacity it computed under the lock.
LEMMA ClaimFits ==
  ASSUME TypeOK, NEW w \in Workers, NEW limit \in Nat,
         NEW C \in Candidates(limit), Lease(w, C)
  PROVE  Cardinality(Leases') <= Capacity
<1>1. C \in SUBSET Runs /\ Held \in SUBSET Runs
  BY DEF Candidates, Eligible, Requeued, Lapsed, Held
<1>2. Cardinality(C) + Cardinality(Held) <= Capacity
  BY DEF Candidates
<1>3. Leases' \subseteq C \cup Held
  <2> SUFFICES ASSUME NEW r \in Runs \ C,
                      qStatus'[r] = "leased", ~leaseExpired'[r]
               PROVE  r \in Held
    BY DEF Leases
  <2>1. r \notin Mirrored \cup Lapsed /\ qStatus[r] = "leased"
    BY DEF Lease, ClosedStatus, Requeued
  <2>2. ~leaseExpired[r]
    BY <2>1 DEF Lease
  <2> QED BY <2>1, <2>2 DEF Held, Mirrored
<1>4. IsFiniteSet(C) /\ IsFiniteSet(Held)
  BY <1>1, RunsFinite, FS_Subset
<1>5. /\ Cardinality(C \cup Held) <= Cardinality(C) + Cardinality(Held)
      /\ Cardinality(C) \in Nat /\ Cardinality(Held) \in Nat
      /\ Cardinality(C \cap Held) \in Nat
  <2>1. Cardinality(C \cup Held)
          = Cardinality(C) + Cardinality(Held) - Cardinality(C \cap Held)
    BY <1>4, FS_Union
  <2>2. C \cap Held \in SUBSET C
    OBVIOUS
  <2> QED BY <1>1, <2>1, <2>2, FewerRuns
<1>6. Cardinality(Leases') <= Cardinality(C \cup Held)
      /\ Cardinality(Leases') \in Nat /\ Cardinality(C \cup Held) \in Nat
  BY <1>1, <1>3, FewerRuns
<1> QED BY <1>2, <1>5, <1>6, ConstantsAssumption

\* However many drains claim at the same time, unexpired leases never exceed
\* SCOUT_DISPATCH_CONCURRENCY.
THEOREM WithinCapacity == Spec => []CapacityRespected
<1>1. Init => CapacityRespected
  <2> SUFFICES ASSUME Init
               PROVE  CapacityRespected
    OBVIOUS
  <2>1. Leases = {}
    BY DEF Init, Leases
  <2>2. Cardinality(Leases) = 0
    BY <2>1, FS_EmptySet
  <2> QED BY <2>2, ConstantsAssumption DEF CapacityRespected, Leases
<1>2. IInv /\ CapacityRespected /\ [Next]_vars => CapacityRespected'
  <2> SUFFICES ASSUME IInv, CapacityRespected, [Next]_vars
               PROVE  CapacityRespected'
    OBVIOUS
  <2>1. TypeOK /\ Leases \in SUBSET Runs
    BY DEF IInv, Leases
  <2>2. ASSUME NEW w \in Workers, Claim(w)
        PROVE  Cardinality(Leases') <= Capacity
    <3>1. PICK limit \in 1..Capacity : \E C \in Candidates(limit) : Lease(w, C)
      BY <2>2 DEF Claim
    <3>2. limit \in Nat
      BY ConstantsAssumption
    <3> QED BY <2>1, <3>1, <3>2, ClaimFits
  <2>3. ASSUME Leases' \subseteq Leases
        PROVE  Cardinality(Leases') <= Capacity
    <3>1. Cardinality(Leases') <= Cardinality(Leases)
          /\ Cardinality(Leases') \in Nat /\ Cardinality(Leases) \in Nat
      BY <2>1, <2>3, FewerRuns
    <3> QED BY <3>1, ConstantsAssumption DEF CapacityRespected, Leases
  <2>4. ASSUME NEW r \in Runs, NEW a \in Attempts, SettleCall(r, a)
        PROVE  Leases' \subseteq Leases
    BY <2>1, <2>4, SettlesOwn DEF Leases
  <2>5. ASSUME Quiet
        PROVE  Leases' \subseteq Leases
    BY <2>5 DEF Quiet, Leases
  <2>6. Cardinality(Leases') <= Capacity
    BY <2>1, <2>2, <2>3, <2>4, <2>5, StepKinds
  <2> QED BY <2>6 DEF CapacityRespected, Leases
<1> QED BY <1>1, <1>2, IInvHolds, PTL DEF Spec

-----------------------------------------------------------------------------
(* Superseded claims                                                       *)

\* Every unsettled call has its drain, and a drain that owns the lease of a
\* run by its name holds the latest claim of that run.
LatestOwns ==
  \A r \in Runs, a \in Attempts :
    /\ call[r][a] \notin {"none", "settled"} => caller[r][a] # None
    /\ /\ qStatus[r] = "leased"
       /\ leaseOwner[r] = caller[r][a]
       /\ caller[r][a] # None
       => a = attempts[r]

\* A drain claims only when it holds no call: its name on a lease therefore
\* stands for one claim.
LEMMA LatestOwnsStep ==
  ASSUME TypeOK, LatestOwns, [Next]_vars
  PROVE  LatestOwns'
<1> USE DEF TypeOK, QueueTyped, ProcsTyped
<1>1. ASSUME NEW w \in Workers, Claim(w)
      PROVE  LatestOwns'
  <2>1. WaveSettled(w) /\ w # None
    BY <1>1, ConstantsAssumption DEF Claim
  <2>2. PICK limit \in 1..Capacity : \E C \in Candidates(limit) :
          /\ Lease(w, C)
          /\ caller' = [r \in Runs |-> [a \in Attempts |->
               IF r \in C /\ a = attempts[r] + 1 THEN w ELSE caller[r][a]]]
          /\ call' = [r \in Runs |-> [a \in Attempts |->
               IF r \in C /\ a = attempts[r] + 1 THEN "open" ELSE call[r][a]]]
    BY <1>1 DEF Claim
  <2>3. PICK C \in Candidates(limit) :
          /\ Lease(w, C)
          /\ caller' = [r \in Runs |-> [a \in Attempts |->
               IF r \in C /\ a = attempts[r] + 1 THEN w ELSE caller[r][a]]]
          /\ call' = [r \in Runs |-> [a \in Attempts |->
               IF r \in C /\ a = attempts[r] + 1 THEN "open" ELSE call[r][a]]]
    BY <2>2
  <2>4. ASSUME NEW r \in Runs, NEW a \in Attempts
        PROVE  /\ call'[r][a] \notin {"none", "settled"} => caller'[r][a] # None
               /\ /\ qStatus'[r] = "leased"
                  /\ leaseOwner'[r] = caller'[r][a]
                  /\ caller'[r][a] # None
                  => a = attempts'[r]
    <3>1. CASE r \in C /\ a = attempts[r] + 1
      BY <2>1, <2>3, <3>1 DEF Lease
    <3>2. CASE r \in C /\ a # attempts[r] + 1
      <4>1. caller'[r][a] = caller[r][a] /\ call'[r][a] = call[r][a]
        BY <2>3, <3>2
      <4>2. leaseOwner'[r] = w /\ caller[r][a] # w
        BY <2>1, <2>3, <3>2 DEF Lease, WaveSettled
      <4> QED BY <4>1, <4>2 DEF LatestOwns
    <3>3. CASE r \notin C
      <4>1. caller'[r][a] = caller[r][a] /\ call'[r][a] = call[r][a]
        BY <2>3, <3>3
      <4>2. qStatus'[r] = "leased" =>
              /\ qStatus[r] = "leased"
              /\ leaseOwner'[r] \in {None, leaseOwner[r]}
              /\ attempts'[r] = attempts[r]
        BY <2>3, <3>3 DEF Lease, ClosedStatus
      <4> QED BY <4>1, <4>2 DEF LatestOwns
    <3> QED BY <3>1, <3>2, <3>3
  <2> QED BY <2>4 DEF LatestOwns
<1>2. ASSUME NEW r \in Runs, NEW a \in Attempts, SettleCall(r, a)
      PROVE  LatestOwns'
  <2>1. ASSUME NEW x \in Runs, NEW b \in Attempts
        PROVE  \/ caller'[x][b] = caller[x][b] /\ call'[x][b] = call[x][b]
               \/ caller'[x][b] = None /\ call'[x][b] = "settled"
               \/ /\ caller'[x][b] = caller[x][b]
                  /\ call[x][b] \notin {"none", "settled"}
    <3>1. CASE x = r /\ b = a
      <4>1. /\ call[r][a] \notin {"none", "settled"}
            /\ \/ caller'[r][a] = None /\ call'[r][a] = "settled"
               \/ caller'[r][a] = caller[r][a] /\ call'[r][a] = "counting"
        BY <1>2, SettlesOwn
      <4> QED BY <3>1, <4>1
    <3>2. CASE <<x, b>> # <<r, a>>
      BY <1>2, <3>2, SettlesOwn
    <3> QED BY <3>1, <3>2
  <2>2. \A x \in Runs : qStatus'[x] = "leased" =>
          /\ qStatus[x] = "leased"
          /\ leaseOwner'[x] = leaseOwner[x]
          /\ attempts'[x] = attempts[x]
    BY <1>2, SettlesOwn
  <2>3. ASSUME NEW x \in Runs, NEW b \in Attempts
        PROVE  /\ call'[x][b] \notin {"none", "settled"} => caller'[x][b] # None
               /\ /\ qStatus'[x] = "leased"
                  /\ leaseOwner'[x] = caller'[x][b]
                  /\ caller'[x][b] # None
                  => b = attempts'[x]
    <3>1. \/ caller'[x][b] = caller[x][b] /\ call'[x][b] = call[x][b]
          \/ caller'[x][b] = None /\ call'[x][b] = "settled"
          \/ /\ caller'[x][b] = caller[x][b]
             /\ call[x][b] \notin {"none", "settled"}
      BY <2>1
    <3>2. /\ call[x][b] \notin {"none", "settled"} => caller[x][b] # None
          /\ /\ qStatus[x] = "leased"
             /\ leaseOwner[x] = caller[x][b]
             /\ caller[x][b] # None
             => b = attempts[x]
      BY DEF LatestOwns
    <3> QED BY <2>2, <3>1, <3>2
  <2> QED BY <2>3 DEF LatestOwns
<1>3. ASSUME Quiet
      PROVE  LatestOwns'
  BY <1>3 DEF Quiet, LatestOwns
<1> QED BY <1>1, <1>2, <1>3, StepKinds

\* A drain whose claim was superseded changes neither the row nor the run when
\* its answer arrives at last: finish and park turn it away, although they
\* compare the name of the drain and not the claim.
THEOREM StaleCalls == Spec => StaleCallHarmless
<1>1. Init => LatestOwns
  BY DEF Init, LatestOwns
<1>2. IInv /\ LatestOwns /\ [Next]_vars => LatestOwns'
  BY LatestOwnsStep DEF IInv
<1> DEFINE Harmless ==
      \A r \in Runs, a \in Attempts :
        /\ a < attempts[r]
        /\ call'[r][a] # call[r][a]
        /\ call'[r][a] \in {"counting", "settled"}
        => qStatus'[r] = qStatus[r] /\ runStatus'[r] = runStatus[r]
<1>3. IInv /\ LatestOwns /\ [Next]_vars => [Harmless]_vars
  <2> SUFFICES ASSUME IInv, LatestOwns, [Next]_vars,
                      NEW r \in Runs, NEW a \in Attempts,
                      a < attempts[r], call'[r][a] # call[r][a],
                      call'[r][a] \in {"counting", "settled"}
               PROVE  qStatus'[r] = qStatus[r] /\ runStatus'[r] = runStatus[r]
    OBVIOUS
  <2> USE DEF IInv, TypeOK, QueueTyped, ProcsTyped
  <2>1. ASSUME NEW w \in Workers, Claim(w)
        PROVE  FALSE
    <3>1. PICK limit \in 1..Capacity, C \in SUBSET Runs :
            call' = [x \in Runs |-> [b \in Attempts |->
              IF x \in C /\ b = attempts[x] + 1 THEN "open" ELSE call[x][b]]]
      <4>1. \A limit \in Nat : Candidates(limit) \subseteq SUBSET Runs
        BY DEF Candidates, Eligible, Requeued, Lapsed
      <4>2. 1..Capacity \subseteq Nat
        BY ConstantsAssumption
      <4> QED BY <2>1, <4>1, <4>2 DEF Claim
    <3> QED BY <3>1
  <2>2. ASSUME Quiet
        PROVE  FALSE
    BY <2>2 DEF Quiet
  <2>3. ASSUME NEW x \in Runs, NEW b \in Attempts, SettleCall(x, b)
        PROVE  qStatus'[r] = qStatus[r] /\ runStatus'[r] = runStatus[r]
    <3>1. x = r /\ b = a
      BY <2>3, SettlesOwn
    <3>2. caller[r][a] # None
      BY <2>3, <3>1, SettlesOwn DEF LatestOwns
    <3>3. ~OwnsLease(r, a)
      BY <3>2, ConstantsAssumption DEF OwnsLease, LatestOwns, Attempts
    <3> QED BY <2>3, <3>1, <3>3, SettlesOwn
  <2> QED BY <2>1, <2>2, <2>3, StepKinds
<1> QED BY <1>1, <1>2, <1>3, IInvHolds, PTL DEF Spec, StaleCallHarmless

-----------------------------------------------------------------------------
(* Deferred retries                                                        *)

\* A run whose source is known exists and left pg_net; a retry is recorded as
\* one, and the run it retries was a scheduled one of the same scout.
RetrySourced ==
  \A x \in Runs :
    /\ runSource[x] # "none" => runStatus[x] # "absent" /\ x \notin posted
    /\ runStatus[x] = "absent" => retryOf[x] = None
    /\ retryOf[x] # None =>
         /\ runSource[x] = "deferred_retry"
         /\ runSource[retryOf[x]] = "scheduled"
         /\ ScoutOf[x] = ScoutOf[retryOf[x]]

RetryInv == RetrySourced /\ OneRetryPerRun

\* The sources of runs and what they retry are written when a run is enqueued
\* and never again.
SourcesKept == UNCHANGED <<runSource, retryOf>> /\ posted' \subseteq posted

\* Every step but those that enqueue or post a run keeps the sources.
LEMMA SourcesKeptBy ==
  ASSUME TypeOK, [Next]_vars
  PROVE  \/ \E s \in Scouts : EnqueueScheduled(s) \/ TriggerScoutRun(s)
         \/ \E r \in Runs : ExecuteScout(r)
         \/ \E r \in Runs : GrantRetry(r) /\ UNCHANGED posted
         \/ SourcesKept
<1> USE DEF scoutVars, runVars, queueVars, procVars, docVars, SourcesKept
<1>1. ASSUME NEW s \in Scouts, PauseScout(s) \/ ResumeScout(s)
      PROVE  SourcesKept
  BY <1>1 DEF PauseScout, ResumeScout
<1>2. ASSUME NEW r \in Runs,
             \/ LosePost(r) \/ ExpireLease(r) \/ BecomeDue(r) \/ AgeRun(r)
             \/ DocumentsNext(r) /\ ~DeferDocuments(r)
      PROVE  SourcesKept
  BY <1>2
  DEF LosePost, ExpireLease, BecomeDue, AgeRun, DocumentsNext,
      FinalizeDocuments, FailsafeDocuments, FailDocuments,
      MarkDocumentsFailed, CountDocuments, ExtractorStops
<1>3. ASSUME NEW r \in Runs, NEW a \in Attempts,
             CallFails(r, a) \/ SettleCall(r, a)
      PROVE  SourcesKept
  BY <1>3
  DEF CallFails, SettleCall, FinishDispatch, ParkDispatch, CountUnreachable,
      DropCall
<1>4. ASSUME NEW r \in Runs, NEW a \in Attempts, WorkerNext(r, a),
             ~DeferFailure(r, a)
      PROVE  SourcesKept
  BY <1>4
  DEF WorkerNext, StartPage, AcceptBeat, StartCivic, ResolveBeat,
      BeatBackgroundFails, MarkSuccess, ResetFailures, QueueDocument,
      CompleteEmpty, CompleteDispatch, SkipRun, Fail, RecordFailure, WorkerDies
<1>5. ASSUME NEW w \in Workers, Claim(w)
      PROVE  SourcesKept
  BY <1>5 DEF Claim
<1>6. ASSUME ReconcileWaiting \/ ReconcileStale
      PROVE  SourcesKept
  BY <1>6 DEF ReconcileWaiting, ReconcileStale
<1>7. CASE UNCHANGED vars
  BY <1>7 DEF vars
<1>8. ASSUME NEW r \in Runs,
             DeferDocuments(r) \/ \E a \in Attempts : DeferFailure(r, a)
      PROVE  GrantRetry(r) /\ UNCHANGED posted
  BY <1>8 DEF DeferDocuments, DeferFailure
<1> QED
  BY <1>1, <1>2, <1>3, <1>4, <1>5, <1>6, <1>7, <1>8
  DEF Next, ScoutNext, RunNext

\* A run whose source is written for the first time is nobody's retry and has
\* none, so naming it "scheduled" or "manual" disturbs no retry.
LEMMA SourceNamed ==
  ASSUME TypeOK, RetryInv, Keeps, NEW r \in Runs, NEW source \in Sources,
         source # "none", runSource[r] = "none",
         runSource' = [runSource EXCEPT ![r] = source], UNCHANGED retryOf,
         runStatus'[r] # "absent", posted' = posted \ {r}
  PROVE  RetryInv'
<1> USE DEF TypeOK, RunsTyped
<1>1. retryOf[r] = None /\ \A x \in Runs : retryOf[x] # r
  BY ConstantsAssumption DEF RetryInv, RetrySourced
<1>2. RetrySourced'
  BY <1>1 DEF RetryInv, RetrySourced, Keeps
<1>3. OneRetryPerRun'
  BY DEF RetryInv, OneRetryPerRun
<1> QED BY <1>2, <1>3 DEF RetryInv

\* A step that keeps the sources keeps what is said of retries.
LEMMA SourcesKeepRetries ==
  ASSUME RetryInv, Keeps, SourcesKept
  PROVE  RetryInv'
BY DEF RetryInv, RetrySourced, OneRetryPerRun, Keeps, SourcesKept

\* The retry of a scheduled run that has none is the only one it gets.
LEMMA RetryGranted ==
  ASSUME TypeOK, RetryInv, Keeps, NEW r \in Runs, NEW x \in Fresh(ScoutOf[r]),
         runSource[r] = "scheduled", Retries(r) = {},
         runSource' = [runSource EXCEPT ![x] = RetrySource],
         retryOf' = [retryOf EXCEPT ![x] = r],
         runStatus'[x] # "absent", UNCHANGED posted, x \notin posted
  PROVE  RetryInv'
<1> USE DEF TypeOK, RunsTyped
<1>1. x \in Runs /\ ScoutOf[x] = ScoutOf[r] /\ runStatus[x] = "absent"
  BY DEF Fresh, RunsOf
<1>2. runSource[x] = "none" /\ retryOf[x] = None /\ x # r
  BY <1>1 DEF RetryInv, RetrySourced
<1>3. \A y \in Runs : retryOf[y] # x /\ retryOf[y] # r
  BY <1>1, <1>2, ConstantsAssumption DEF RetryInv, RetrySourced, Retries
<1>4. retryOf[r] = None
  BY DEF RetryInv, RetrySourced
<1>5. ASSUME NEW y \in Runs, y # x
      PROVE  /\ runSource'[y] = runSource[y] /\ retryOf'[y] = retryOf[y]
             /\ retryOf[y] # None => runSource'[retryOf[y]]
                                       = runSource[retryOf[y]]
  BY <1>1, <1>3, <1>5
<1>6. /\ runSource'[x] = "deferred_retry" /\ retryOf'[x] = r
      /\ runSource'[r] = "scheduled" /\ retryOf'[r] = None
  BY <1>1, <1>2, <1>4 DEF RetrySource
<1>7. RetrySourced'
  BY <1>1, <1>2, <1>5, <1>6 DEF RetryInv, RetrySourced, Keeps
<1>8. OneRetryPerRun'
  <2> SUFFICES ASSUME NEW y \in Runs, retryOf'[y] # None
               PROVE  /\ ScoutOf[y] = ScoutOf[retryOf'[y]]
                      /\ retryOf'[retryOf'[y]] = None
                      /\ \A z \in Runs : retryOf'[z] = retryOf'[y] => z = y
    BY DEF OneRetryPerRun
  <2>1. CASE y = x
    BY <2>1, <1>1, <1>3, <1>5, <1>6
  <2>2. CASE y # x
    <3>1. retryOf'[y] = retryOf[y] /\ retryOf[y] \in Runs /\ retryOf[y] # x
      BY <2>2, <1>3, <1>5
    <3> QED
      BY <2>2, <3>1, <1>3, <1>5, <1>6 DEF RetryInv, OneRetryPerRun
  <2> QED BY <2>1, <2>2
<1> QED BY <1>7, <1>8 DEF RetryInv

\* Every step keeps RetryInv: only a failed scheduled run that has no retry
\* gets one, and a retry is not a scheduled run.
LEMMA RetryStep ==
  ASSUME IInv, RetryInv, [Next]_vars
  PROVE  RetryInv'
<1> USE DEF IInv
<1>1. Keeps
  BY QueueStep
<1>2. ASSUME NEW s \in Scouts, EnqueueScheduled(s)
      PROVE  RetryInv'
  <2>1. PICK r \in Fresh(s) :
          /\ SetRun(r, "running")
          /\ runSource' = [runSource EXCEPT ![r] = "scheduled"]
    BY <1>2 DEF EnqueueScheduled
  <2>2. r \in Runs /\ runStatus[r] = "absent"
    BY DEF Fresh, RunsOf
  <2>3. runSource[r] = "none" /\ r \notin posted
    BY <2>2 DEF RetryInv, RetrySourced, RowsFollowRuns
  <2>4. runStatus'[r] # "absent"
    BY <2>1, <2>2, SetRunKeeps
  <2>5. UNCHANGED <<retryOf, posted>>
    BY <1>2 DEF EnqueueScheduled, procVars
  <2> QED
    BY <1>1, <2>1, <2>2, <2>3, <2>4, <2>5, SourceNamed DEF Sources
<1>3. ASSUME NEW s \in Scouts, TriggerScoutRun(s)
      PROVE  RetryInv'
  <2>1. PICK r \in Fresh(s) :
          /\ SetRun(r, "running")
          /\ posted' = posted \cup {r}
    BY <1>3 DEF TriggerScoutRun
  <2>2. r \in Runs /\ runStatus[r] = "absent"
    BY DEF Fresh, RunsOf
  <2>3. runSource[r] = "none"
    BY <2>2 DEF RetryInv, RetrySourced
  <2>4. UNCHANGED <<runSource, retryOf>>
    BY <1>3 DEF TriggerScoutRun
  <2> QED
    BY <1>1, <2>1, <2>3, <2>4
    DEF RetryInv, RetrySourced, OneRetryPerRun, Keeps
<1>4. ASSUME NEW r \in Runs, ExecuteScout(r)
      PROVE  RetryInv'
  <2>1. /\ r \in posted /\ posted' = posted \ {r}
        /\ UNCHANGED retryOf
        /\ \/ UNCHANGED runSource
           \/ runSource' = [runSource EXCEPT ![r] = "manual"]
    BY <1>4 DEF ExecuteScout
  <2>2. runSource[r] = "none" /\ runStatus'[r] # "absent"
    BY <2>1, <1>1 DEF RetryInv, RetrySourced, Keeps, RowsFollowRuns
  <2>3. CASE UNCHANGED runSource
    BY <1>1, <2>1, <2>3, SourcesKeepRetries DEF SourcesKept
  <2>4. CASE runSource' = [runSource EXCEPT ![r] = "manual"]
    BY <1>1, <2>1, <2>2, <2>4, SourceNamed DEF Sources
  <2> QED BY <2>1, <2>3, <2>4
<1>5. ASSUME NEW r \in Runs, GrantRetry(r), UNCHANGED posted
      PROVE  RetryInv'
  <2>1. UNCHANGED posted /\ runSource[r] = "scheduled"
    BY <1>5 DEF GrantRetry, RetryRefused
  <2>2. CASE Retries(r) # {} \/ Busy(ScoutOf[r])
    BY <1>1, <1>5, <2>1, <2>2, SourcesKeepRetries
    DEF GrantRetry, EnqueueRetry, SourcesKept
  <2>3. CASE ~(Retries(r) # {} \/ Busy(ScoutOf[r]))
    <3>1. PICK x \in Fresh(ScoutOf[r]) :
            /\ SetRun(x, "running")
            /\ runSource' = [runSource EXCEPT ![x] = RetrySource]
            /\ retryOf' = [retryOf EXCEPT ![x] = r]
      BY <1>5, <2>3 DEF GrantRetry, EnqueueRetry
    <3>2. x \in Runs /\ runStatus[x] = "absent"
      BY DEF Fresh, RunsOf
    <3>3. runStatus'[x] # "absent" /\ x \notin posted
      BY <3>1, <3>2, SetRunKeeps DEF RowsFollowRuns
    <3> QED
      BY <1>1, <2>1, <2>3, <3>1, <3>3, RetryGranted
  <2> QED BY <2>2, <2>3
<1>6. ASSUME SourcesKept
      PROVE  RetryInv'
  BY <1>1, <1>6, SourcesKeepRetries
<1> QED BY <1>2, <1>3, <1>4, <1>5, <1>6, SourcesKeptBy

\* A run gets at most one deferred retry, of its own scout, and no retry is
\* ever retried, whatever fails and in which order.
THEOREM OneRetry == Spec => []OneRetryPerRun
<1>1. Init => RetryInv
  BY DEF Init, RetryInv, RetrySourced, OneRetryPerRun
<1>2. IInv /\ RetryInv /\ [Next]_vars => RetryInv'
  BY RetryStep
<1>3. RetryInv => OneRetryPerRun
  BY DEF RetryInv
<1> QED BY <1>1, <1>2, <1>3, IInvHolds, PTL DEF Spec

-----------------------------------------------------------------------------
(* One worker per run, and what its answer stands for                      *)

\* A claim that nobody works on: its drain has settled it, and its worker has
\* ended or was never started.
Spent(r, a) == caller[r][a] = None /\ ~Alive(r, a)

\* A claim that is still to come has neither a call nor a worker.
AheadIdle ==
  \A r \in Runs, a \in Attempts :
    a > attempts[r] => call[r][a] = "none" /\ exec[r][a] = "none"

\* Only the latest claim of a run is worked on, and that one is spent before the
\* row can be claimed again.
OneWorker ==
  \A r \in Runs, a \in Attempts :
    a # attempts[r] \/ qStatus[r] \in {"none", "queued"} \/ leaseExpired[r]
      => Spent(r, a)

\* Which steps of a worker and of the documents belong to which type of run.
\* The drain of a Beat run hears "accepted" before the run ends.
ByType ==
  /\ \A r \in Runs, a \in Attempts :
       /\ exec[r][a] = "accepted" => RunType(r) = "beat"
       /\ exec[r][a] \in {"queuing", "queued", "dispatched", "empty"}
            => RunType(r) = "civic"
       /\ exec[r][a] = "succeeded" => RunType(r) # "civic"
       /\ RunType(r) = "beat" =>
            /\ exec[r][a] # "none" => call[r][a] # "open"
            /\ call[r][a] # "ok"
  /\ \A r \in Runs : r \in docsOpen \/ extractor[r] # "idle" => RunType(r) = "civic"

\* What the run of a leased Page row shows at the points of its worker that
\* decide the answer.
OutcomeKnown ==
  \A r \in Runs, a \in Attempts :
    RunType(r) = "web" /\ qStatus[r] = "leased" =>
      /\ call[r][a] = "open" /\ exec[r][a] = "none" => runStatus[r] = "running"
      /\ call[r][a] = "open" /\ exec[r][a] = "succeeded" => runStatus[r] = "success"
      /\ call[r][a] = "ok" => runStatus[r] = "success" /\ ~Alive(r, a)

\* A Civic run that was claimed once: no document is open before its worker
\* queues one, the run can not end well before the worker is through, and then
\* not before the last document.
OnceDispatched ==
  \A r \in Runs :
    RunType(r) = "civic" /\ attempts[r] <= 1 =>
      /\ exec[r][1] \in {"none", "running", "empty"} => r \notin docsOpen
      /\ exec[r][1] \in {"running", "queuing", "queued", "dispatched"}
           => ~sealed[r] /\ runStatus[r] # "success"
      /\ runStatus[r] = "success" => r \notin docsOpen

\* A worker moves its own program point only.
LEMMA GoToFrame ==
  ASSUME ProcsTyped, NEW r \in Runs, NEW a \in Attempts, NEW pc, GoTo(r, a, pc)
  PROVE  /\ exec'[r][a] = pc
         /\ \A x \in Runs, b \in Attempts :
              <<x, b>> # <<r, a>> => exec'[x][b] = exec[x][b]
BY DEF GoTo, ProcsTyped

\* And answers its own call only.
LEMMA AnsweredFrame ==
  ASSUME ProcsTyped, NEW r \in Runs, NEW a \in Attempts, NEW answer,
         call' = Answered(r, a, answer)
  PROVE  /\ call'[r][a] = IF call[r][a] = "open" THEN answer ELSE call[r][a]
         /\ \A x \in Runs, b \in Attempts :
              <<x, b>> # <<r, a>> => call'[x][b] = call[x][b]
BY DEF Answered, ProcsTyped

\* The step of a worker as a move and an answer, if any.
LEMMA WorkerMoves ==
  ASSUME NEW r \in Runs, NEW a \in Attempts, WorkerNext(r, a)
  PROVE  /\ \E pc \in Execs \ {"none"} : GoTo(r, a, pc)
         /\ \/ UNCHANGED call
            \/ \E answer \in {"ok", "accepted", "failed"} : call' = Answered(r, a, answer)
         /\ Alive(r, a) \/ (call[r][a] = "open" /\ exec[r][a] = "none")
<1>1. Alive(r, a) \/ (call[r][a] = "open" /\ exec[r][a] = "none")
  BY DEF WorkerNext, StartPage, AcceptBeat, StartCivic, ResolveBeat,
      BeatBackgroundFails, MarkSuccess, ResetFailures, QueueDocument,
      CompleteEmpty, CompleteDispatch, SkipRun, Fail, DeferFailure,
      RecordFailure, WorkerDies, Starts, Alive
<1>2. \/ UNCHANGED call
      \/ \E answer \in {"ok", "accepted", "failed"} : call' = Answered(r, a, answer)
  BY DEF WorkerNext, StartPage, AcceptBeat, StartCivic, ResolveBeat,
      BeatBackgroundFails, MarkSuccess, ResetFailures, QueueDocument,
      CompleteEmpty, CompleteDispatch, SkipRun, Fail, DeferFailure,
      RecordFailure, WorkerDies, Reply
<1>3. \E pc \in Execs \ {"none"} : GoTo(r, a, pc)
  BY DEF WorkerNext, StartPage, AcceptBeat, StartCivic, ResolveBeat,
      BeatBackgroundFails, MarkSuccess, ResetFailures, QueueDocument,
      CompleteEmpty, CompleteDispatch, SkipRun, Fail, DeferFailure,
      RecordFailure, WorkerDies, Reply, Execs
<1> QED BY <1>1, <1>2, <1>3

\* What a step of the worker behind one claim leaves alone: all other claims,
\* and all rows and runs but its own and that of a retry it enqueues.
LEMMA WorkerFrame ==
  ASSUME TypeOK, NEW r \in Runs, NEW a \in Attempts, WorkerNext(r, a)
  PROVE  /\ UNCHANGED <<attempts, leaseExpired, caller, extractor>>
         /\ \A x \in Runs, b \in Attempts :
              <<x, b>> # <<r, a>> => /\ exec'[x][b] = exec[x][b]
                                     /\ call'[x][b] = call[x][b]
         /\ \A x \in Runs : x # r =>
              /\ sealed'[x] = sealed[x]
              /\ x \in docsOpen' => x \in docsOpen
              /\ \/ runStatus'[x] = runStatus[x]
                 \/ runStatus[x] = "absent" /\ runStatus'[x] = "running"
         /\ \A x \in Runs : \/ qStatus'[x] = qStatus[x]
                            \/ runStatus[x] = "absent" /\ qStatus'[x] = "queued"
         /\ Alive(r, a) \/ (call[r][a] = "open" /\ exec[r][a] = "none")
         /\ exec'[r][a] # "none"
<1> USE DEF scoutVars, runVars, queueVars, procVars, docVars
<1>1. ProcsTyped
  BY DEF TypeOK
<1>2. /\ \A x \in Runs, b \in Attempts :
           <<x, b>> # <<r, a>> => /\ exec'[x][b] = exec[x][b]
                                  /\ call'[x][b] = call[x][b]
      /\ exec'[r][a] # "none"
      /\ Alive(r, a) \/ (call[r][a] = "open" /\ exec[r][a] = "none")
  <2>1. /\ \E pc \in Execs \ {"none"} : GoTo(r, a, pc)
        /\ \/ UNCHANGED call
           \/ \E answer \in {"ok", "accepted", "failed"} : call' = Answered(r, a, answer)
        /\ Alive(r, a) \/ (call[r][a] = "open" /\ exec[r][a] = "none")
    BY WorkerMoves
  <2>2. PICK pc \in Execs \ {"none"} : GoTo(r, a, pc)
    BY <2>1
  <2>3. /\ exec'[r][a] # "none"
        /\ \A x \in Runs, b \in Attempts :
             <<x, b>> # <<r, a>> => exec'[x][b] = exec[x][b]
    BY <1>1, <2>2, GoToFrame
  <2>4. \A x \in Runs, b \in Attempts :
          <<x, b>> # <<r, a>> => call'[x][b] = call[x][b]
    BY <1>1, <2>1, AnsweredFrame
  <2> QED BY <2>1, <2>3, <2>4
<1>3. CASE DeferFailure(r, a)
  <2>1. /\ UNCHANGED <<attempts, leaseExpired>>
        /\ \A x \in Runs : \/ runStatus'[x] = runStatus[x]
                           \/ runStatus[x] = "absent" /\ runStatus'[x] = "running"
        /\ \A x \in Runs : \/ qStatus'[x] = qStatus[x]
                           \/ runStatus[x] = "absent" /\ qStatus'[x] = "queued"
    <3>1. CASE UNCHANGED <<runStatus, queueVars>>
      BY <3>1
    <3>2. CASE \E x \in Fresh(ScoutOf[r]) : SetRun(x, "running") /\ InsertRow(x, FALSE)
      BY <3>2 DEF Fresh, RunsOf, SetRun, InsertRow, TypeOK, RunsTyped, QueueTyped
    <3> QED BY <1>3, <3>1, <3>2 DEF DeferFailure, GrantRetry, EnqueueRetry
  <2>2. UNCHANGED <<caller, extractor, sealed, docsOpen>>
    BY <1>3 DEF DeferFailure
  <2> QED BY <1>2, <2>1, <2>2
<1>4. CASE ~DeferFailure(r, a)
  <2>1. UNCHANGED <<queueVars, caller, extractor>>
    BY <1>4
    DEF WorkerNext, StartPage, AcceptBeat, StartCivic, ResolveBeat,
        BeatBackgroundFails, MarkSuccess, ResetFailures, QueueDocument,
        CompleteEmpty, CompleteDispatch, SkipRun, Fail, RecordFailure, WorkerDies
  <2>2. UNCHANGED runStatus \/ \E status \in RunStatuses : SetRun(r, status)
    BY <1>4
    DEF WorkerNext, StartPage, AcceptBeat, StartCivic, ResolveBeat,
        BeatBackgroundFails, MarkSuccess, ResetFailures, QueueDocument,
        CompleteEmpty, CompleteDispatch, SkipRun, Fail, RecordFailure, WorkerDies,
        SettleRun, RunStatuses, Terminal
  <2>3. /\ UNCHANGED sealed \/ \E b \in BOOLEAN : sealed' = [sealed EXCEPT ![r] = b]
        /\ UNCHANGED docsOpen \/ docsOpen' = docsOpen \cup {r}
    BY <1>4
    DEF WorkerNext, StartPage, AcceptBeat, StartCivic, ResolveBeat,
        BeatBackgroundFails, MarkSuccess, ResetFailures, QueueDocument,
        CompleteEmpty, CompleteDispatch, SkipRun, Fail, RecordFailure, WorkerDies
  <2>4. \A x \in Runs : x # r =>
          /\ sealed'[x] = sealed[x]
          /\ x \in docsOpen' => x \in docsOpen
          /\ runStatus'[x] = runStatus[x]
    BY <2>2, <2>3 DEF SetRun, TypeOK, RunsTyped
  <2> QED BY <1>2, <2>1, <2>4
<1> QED BY <1>3, <1>4

\* The steps that neither claim, nor settle a call, nor are a worker's: they end
\* no worker's claim, lease nothing, write no Page run that is leased, and make
\* a run a success only when it is sealed and has no open document.
Aside ==
  /\ UNCHANGED <<attempts, caller, exec, sealed>>
  /\ \A x \in Runs, b \in Attempts :
       \/ call'[x][b] = call[x][b]
       \/ call[x][b] = "open" /\ call'[x][b] \in {"failed", "unreachable"}
  /\ docsOpen' \subseteq docsOpen
  /\ \A x \in Runs :
       /\ qStatus'[x] \in {"none", "queued"} => qStatus[x] \in {"none", "queued"}
       /\ qStatus'[x] = "leased" =>
            /\ qStatus[x] = "leased"
            /\ RunType(x) = "web" => runStatus'[x] = runStatus[x]
       /\ qStatus'[x] = "done" /\ Active(x) /\ RunType(x) # "civic" =>
            runStatus'[x] \in {"success", "skipped"}
       /\ leaseExpired'[x] /\ ~leaseExpired[x] =>
            Outlive \/ \A b \in Attempts : Spent(x, b)
       /\ extractor'[x] # "idle" => extractor[x] # "idle" \/ x \in docsOpen
       /\ runStatus'[x] = "success" /\ runStatus[x] # "success" =>
            /\ sealed[x]
            /\ x \notin docsOpen'

\* Enqueuing a run that does not exist yet, or has no row, is such a step.
LEMMA InsertAside ==
  ASSUME TypeOK, NEW x \in Runs, NEW now \in BOOLEAN, qStatus[x] = "none", InsertRow(x, now),
         \/ UNCHANGED runStatus
         \/ SetRun(x, "running"),
         UNCHANGED <<caller, exec, sealed, call, docsOpen>>,
         \A y \in Runs : extractor'[y] # "idle" => extractor[y] # "idle"
  PROVE  Aside
<1>1. /\ UNCHANGED <<attempts, leaseExpired>>
      /\ qStatus'[x] = "queued"
      /\ \A y \in Runs : y # x => qStatus'[y] = qStatus[y]
  BY DEF TypeOK, QueueTyped, InsertRow
<1>2. /\ \A y \in Runs : y # x => runStatus'[y] = runStatus[y]
      /\ runStatus'[x] \in {runStatus[x], "running"}
  BY DEF TypeOK, RunsTyped, SetRun
<1>3. ASSUME NEW y \in Runs
      PROVE  /\ qStatus'[y] \in {"none", "queued"} => qStatus[y] \in {"none", "queued"}
             /\ qStatus'[y] = "leased" =>
                  qStatus[y] = "leased" /\ runStatus'[y] = runStatus[y]
             /\ ~(qStatus'[y] = "done" /\ Active(y))
             /\ runStatus'[y] = "success" => runStatus[y] = "success"
  BY <1>1, <1>2 DEF Active
<1> QED BY <1>1, <1>3 DEF Aside

\* The steps of the documents.
LEMMA DocumentsAside ==
  ASSUME TypeOK, RowsFollowRuns, ByType, NEW r \in Runs, DocumentsNext(r)
  PROVE  Aside
<1> USE DEF scoutVars, runVars, queueVars, procVars, docVars
<1>1. RunType(r) = "civic"
  BY DEF DocumentsNext, FinalizeDocuments, FailsafeDocuments, FailDocuments,
         MarkDocumentsFailed, DeferDocuments, CountDocuments, ExtractorStops, ByType
<1>2. CASE DeferDocuments(r)
  <2>1. CASE UNCHANGED <<runStatus, queueVars>>
    <3>1. \A y \in Runs : extractor'[y] # "idle" => extractor[y] # "idle"
      BY <1>2 DEF DeferDocuments, ExtractorDone, TypeOK, DocsTyped
    <3>2. UNCHANGED <<caller, exec, sealed, call, docsOpen>>
      BY <1>2 DEF DeferDocuments
    <3> QED BY <2>1, <3>1, <3>2 DEF Aside, Active
  <2>2. CASE \E x \in Fresh(ScoutOf[r]) : SetRun(x, "running") /\ InsertRow(x, FALSE)
    <3>1. PICK x \in Fresh(ScoutOf[r]) : SetRun(x, "running") /\ InsertRow(x, FALSE)
      BY <2>2
    <3>2. x \in Runs /\ qStatus[x] = "none"
      BY DEF Fresh, RunsOf, RowsFollowRuns
    <3>3. \A y \in Runs : extractor'[y] # "idle" => extractor[y] # "idle"
      BY <1>2 DEF DeferDocuments, ExtractorDone, TypeOK, DocsTyped
    <3>4. UNCHANGED <<caller, exec, sealed, call, docsOpen>>
      BY <1>2 DEF DeferDocuments
    <3> QED BY <3>1, <3>2, <3>3, <3>4, InsertAside
  <2> QED BY <1>2, <2>1, <2>2 DEF DeferDocuments, GrantRetry, EnqueueRetry
<1>3. CASE ~DeferDocuments(r)
  <2>1. UNCHANGED <<queueVars, procVars, sealed>>
    BY <1>3 DEF DocumentsNext, FinalizeDocuments, FailsafeDocuments, FailDocuments,
         MarkDocumentsFailed, CountDocuments, ExtractorStops
  <2>2. docsOpen' \subseteq docsOpen
    BY <1>3 DEF DocumentsNext, FinalizeDocuments, FailsafeDocuments, FailDocuments,
         MarkDocumentsFailed, CountDocuments, ExtractorStops
  <2>3. \A x \in Runs : extractor'[x] # "idle" => extractor[x] # "idle" \/ x \in docsOpen
    BY <1>3 DEF DocumentsNext, FinalizeDocuments, FailsafeDocuments, FailDocuments,
         MarkDocumentsFailed, CountDocuments, ExtractorStops, ExtractorDone,
         TypeOK, DocsTyped
  <2>4. \A x \in Runs :
          /\ RunType(x) # "civic" => runStatus'[x] = runStatus[x]
          /\ runStatus'[x] = "success" /\ runStatus[x] # "success" =>
               /\ sealed[x]
               /\ x \notin docsOpen'
    <3>1. CASE UNCHANGED runStatus
      BY <3>1
    <3>2. CASE FinalizeDocuments(r) /\ sealed[r]
      <4>1. PICK status \in {"success", "error"} : SetRun(r, status)
        BY <3>2 DEF FinalizeDocuments, Finalize, SettleRun
      <4>2. r \notin docsOpen'
        BY <3>2 DEF FinalizeDocuments
      <4> QED BY <1>1, <3>2, <4>1, <4>2 DEF SetRun, TypeOK, RunsTyped
    <3>3. CASE FailsafeDocuments(r) \/ MarkDocumentsFailed(r)
      BY <1>1, <3>3 DEF FailsafeDocuments, MarkDocumentsFailed, SetRun, TypeOK, RunsTyped
    <3> QED
      BY <1>3, <3>1, <3>2, <3>3 DEF DocumentsNext, FinalizeDocuments, Finalize,
         FailDocuments, CountDocuments, ExtractorStops
  <2> QED BY <2>1, <2>2, <2>3, <2>4 DEF Aside, Active
<1> QED BY <1>2, <1>3
\* Every step claims, settles a call, is a worker's, or is one of those aside.
LEMMA FourKinds ==
  ASSUME TypeOK, RowsFollowRuns, ByType, [Next]_vars
  PROVE  \/ \E w \in Workers : Claim(w)
         \/ \E r \in Runs, a \in Attempts : SettleCall(r, a)
         \/ \E r \in Runs, a \in Attempts : WorkerNext(r, a)
         \/ Aside
<1> USE DEF scoutVars, runVars, queueVars, procVars, docVars
<1>1. ASSUME NEW s \in Scouts, EnqueueScheduled(s)
      PROVE  Aside
  <2>1. PICK x \in Fresh(s) : SetRun(x, "running") /\ InsertRow(x, TRUE)
    BY <1>1 DEF EnqueueScheduled
  <2>2. x \in Runs /\ qStatus[x] = "none"
    BY DEF Fresh, RunsOf, RowsFollowRuns
  <2>3. UNCHANGED <<caller, exec, sealed, call, docsOpen, extractor>>
    BY <1>1 DEF EnqueueScheduled
  <2> QED BY <2>1, <2>2, <2>3, InsertAside
<1>2. ASSUME NEW s \in Scouts, TriggerScoutRun(s)
      PROVE  Aside
  <2>1. PICK x \in Fresh(s) : SetRun(x, "running")
    BY <1>2 DEF TriggerScoutRun
  <2>2. x \in Runs /\ qStatus[x] = "none"
    BY DEF Fresh, RunsOf, RowsFollowRuns
  <2>3. /\ \A y \in Runs : y # x => runStatus'[y] = runStatus[y]
        /\ runStatus'[x] = "running"
    BY <2>1, <2>2 DEF SetRun, TypeOK, RunsTyped
  <2>4. UNCHANGED <<queueVars, caller, exec, sealed, call, docVars>>
    BY <1>2 DEF TriggerScoutRun
  <2> QED BY <2>2, <2>3, <2>4 DEF Aside, Active
<1>3. ASSUME NEW r \in Runs, ExecuteScout(r)
      PROVE  Aside
  <2>1. qStatus[r] = "none"
    BY <1>3 DEF ExecuteScout, RowsFollowRuns
  <2>2. UNCHANGED <<caller, exec, sealed, call, docVars>>
    BY <1>3 DEF ExecuteScout
  <2>3. CASE InsertRow(r, TRUE) /\ UNCHANGED runStatus
    BY <2>1, <2>2, <2>3, InsertAside
  <2>4. CASE UNCHANGED queueVars /\ \E status \in RunStatuses :
               SetRun(r, status) /\ (status = "success" => runStatus[r] = "success")
    <3>1. /\ \A y \in Runs : y # r => runStatus'[y] = runStatus[y]
          /\ runStatus'[r] = "success" => runStatus[r] = "success"
      BY <2>4 DEF SetRun, TypeOK, RunsTyped
    <3> QED BY <2>1, <2>2, <2>4, <3>1 DEF Aside, Active
  <2>5. \/ InsertRow(r, TRUE) /\ UNCHANGED runStatus
        \/ UNCHANGED queueVars /\ \E status \in {"error", "skipped", runStatus[r]} :
               SetRun(r, status)
    BY <1>3 DEF ExecuteScout
  <2>6. {"error", "skipped", runStatus[r]} \subseteq RunStatuses
    BY DEF TypeOK, RunsTyped, RunStatuses
  <2> QED BY <2>3, <2>4, <2>5, <2>6
<1>4. ASSUME NEW r \in Runs, ExpireLease(r)
      PROVE  Aside
  <2>1. \A x \in Runs : leaseExpired'[x] /\ ~leaseExpired[x] => x = r
    BY <1>4 DEF ExpireLease, TypeOK, QueueTyped
  <2>2. Outlive \/ \A b \in Attempts : Spent(r, b)
    BY <1>4 DEF ExpireLease, Spent
  <2>3. UNCHANGED <<runStatus, qStatus, attempts, procVars, sealed, docVars>>
    BY <1>4 DEF ExpireLease
  <2> QED BY <2>1, <2>2, <2>3 DEF Aside, Active
<1>5. ASSUME NEW r \in Runs, NEW a \in Attempts, CallFails(r, a)
      PROVE  Aside
  <2>1. \A x \in Runs, b \in Attempts :
          \/ call'[x][b] = call[x][b]
          \/ call[x][b] = "open" /\ call'[x][b] \in {"failed", "unreachable"}
    BY <1>5 DEF CallFails, TypeOK, ProcsTyped
  <2>2. UNCHANGED <<runVars, queueVars, caller, exec, docVars>>
    BY <1>5 DEF CallFails
  <2> QED BY <2>1, <2>2 DEF Aside, Active
<1>6. ASSUME ReconcileWaiting
      PROVE  Aside
  <2>1. UNCHANGED <<attempts, leaseExpired, procVars, sealed, docVars>>
    BY <1>6 DEF ReconcileWaiting
  <2>2. ASSUME NEW x \in Runs
        PROVE  /\ qStatus'[x] \in {"none", "queued", "leased"} =>
                    /\ qStatus'[x] = qStatus[x]
                    /\ qStatus[x] = "leased" => runStatus'[x] = runStatus[x]
               /\ qStatus'[x] = "done" /\ Active(x) =>
                    runStatus'[x] \in {"success", "skipped"}
               /\ runStatus'[x] = "success" => runStatus[x] = "success"
    BY <1>6 DEF ReconcileWaiting, ClosedStatus, Stalled, Terminal, Active
  <2> QED BY <2>1, <2>2 DEF Aside
<1>7. ASSUME ReconcileStale
      PROVE  Aside
  <2>1. UNCHANGED <<queueVars, procVars, sealed, docVars>>
    BY <1>7 DEF ReconcileStale
  <2>2. \A x \in Runs : /\ Active(x) => runStatus'[x] = runStatus[x]
                        /\ runStatus'[x] = "success" => runStatus[x] = "success"
    BY <1>7 DEF ReconcileStale, Stale
  <2> QED BY <2>1, <2>2 DEF Aside, Active
<1>8. ASSUME UNCHANGED <<runStatus, sealed, qStatus, attempts, leaseExpired,
                         caller, call, exec, docVars>>
      PROVE  Aside
  BY <1>8 DEF Aside, Active
<1>9. ASSUME NEW s \in Scouts, PauseScout(s) \/ ResumeScout(s)
      PROVE  Aside
  BY <1>9, <1>8 DEF PauseScout, ResumeScout
<1>10. ASSUME NEW r \in Runs, LosePost(r) \/ BecomeDue(r) \/ AgeRun(r)
       PROVE  Aside
  BY <1>10, <1>8 DEF LosePost, BecomeDue, AgeRun
<1>11. CASE UNCHANGED vars
  BY <1>11, <1>8 DEF vars
<1> QED
  BY <1>1, <1>2, <1>3, <1>4, <1>5, <1>6, <1>7, <1>9, <1>10, <1>11, DocumentsAside
  DEF Next, ScoutNext, RunNext

\* What a claim does to the rows it leases, and what it leaves of the others.
ClaimOf(C) ==
  /\ UNCHANGED <<exec, sealed, docsOpen, extractor>>
  /\ \A x \in C :
       /\ qStatus[x] = "queued" \/ leaseExpired[x]
       /\ attempts'[x] = attempts[x] + 1
       /\ qStatus'[x] = "leased"
       /\ ~leaseExpired'[x]
       /\ runStatus'[x] = "running"
  /\ \A x \in Runs \ C :
       /\ attempts'[x] = attempts[x]
       /\ qStatus'[x] = "leased" =>
            qStatus[x] = "leased" /\ runStatus'[x] = runStatus[x]
       /\ qStatus'[x] \in {"none", "queued"} =>
            qStatus[x] \in {"none", "queued"} \/ leaseExpired[x]
       /\ qStatus'[x] = "done" /\ Active(x) => runStatus'[x] \in {"success", "skipped"}
  /\ \A x \in Runs : /\ leaseExpired'[x] => leaseExpired[x]
                     /\ runStatus'[x] = "success" => runStatus[x] = "success"
  /\ \A x \in Runs, b \in Attempts :
       IF x \in C /\ b = attempts[x] + 1
       THEN call'[x][b] = "open"
       ELSE call'[x][b] = call[x][b] /\ caller'[x][b] = caller[x][b]

\* A claim leases rows that are queued or whose lease expired, of runs that run.
LEMMA ClaimFrame ==
  ASSUME TypeOK, RowsFollowRuns, NEW w \in Workers, Claim(w)
  PROVE  \E C \in SUBSET Runs : ClaimOf(C)
<1>1. PICK limit \in 1..Capacity : \E C \in Candidates(limit) :
        /\ Lease(w, C)
        /\ caller' = [r \in Runs |-> [a \in Attempts |->
             IF r \in C /\ a = attempts[r] + 1 THEN w ELSE caller[r][a]]]
        /\ call' = [r \in Runs |-> [a \in Attempts |->
             IF r \in C /\ a = attempts[r] + 1 THEN "open" ELSE call[r][a]]]
  BY DEF Claim
<1>2. PICK C \in Candidates(limit) :
        /\ Lease(w, C)
        /\ caller' = [r \in Runs |-> [a \in Attempts |->
             IF r \in C /\ a = attempts[r] + 1 THEN w ELSE caller[r][a]]]
        /\ call' = [r \in Runs |-> [a \in Attempts |->
             IF r \in C /\ a = attempts[r] + 1 THEN "open" ELSE call[r][a]]]
  BY <1>1
<1>3. /\ runStatus' = [r \in Runs |->
           IF r \in Exhausted THEN "error" ELSE runStatus[r]]
      /\ UNCHANGED <<exec, sealed, docsOpen, extractor>>
  BY DEF Claim, docVars
<1>4. /\ C \subseteq Runs
      /\ \A x \in C : /\ qStatus[x] = "queued" \/ (qStatus[x] = "leased" /\ leaseExpired[x])
                      /\ ~Terminal(x) /\ x \notin Exhausted
  BY <1>2 DEF Candidates, Eligible, Requeued, Lapsed, Exhausted
<1>5. ASSUME NEW x \in C
      PROVE  /\ qStatus[x] = "queued" \/ leaseExpired[x]
             /\ attempts'[x] = attempts[x] + 1
             /\ qStatus'[x] = "leased"
             /\ ~leaseExpired'[x]
             /\ runStatus'[x] = "running"
  <2>1. runStatus[x] = "running"
    BY <1>4 DEF RowsFollowRuns, Terminal, TypeOK, RunsTyped, RunStatuses
  <2> QED BY <1>2, <1>3, <1>4, <2>1 DEF Lease
<1>6. ASSUME NEW x \in Runs \ C
      PROVE  /\ attempts'[x] = attempts[x]
             /\ qStatus'[x] = "leased" =>
                  qStatus[x] = "leased" /\ runStatus'[x] = runStatus[x]
             /\ qStatus'[x] \in {"none", "queued"} =>
                  qStatus[x] \in {"none", "queued"} \/ leaseExpired[x]
             /\ qStatus'[x] = "done" /\ Active(x) =>
                  runStatus'[x] \in {"success", "skipped"}
  <2>1. /\ x \in Mirrored => Terminal(x) /\ x \notin Exhausted
        /\ x \in Exhausted \cup Requeued => leaseExpired[x]
    BY DEF Mirrored, Exhausted, Requeued, Lapsed
  <2> QED BY <1>2, <1>3, <2>1 DEF Lease, ClosedStatus, Terminal, Active
<1>7. ASSUME NEW x \in Runs
      PROVE  /\ leaseExpired'[x] => leaseExpired[x]
             /\ runStatus'[x] = "success" => runStatus[x] = "success"
  BY <1>2, <1>3 DEF Lease
<1>8. ASSUME NEW x \in Runs, NEW b \in Attempts
      PROVE  IF x \in C /\ b = attempts[x] + 1
             THEN call'[x][b] = "open"
             ELSE call'[x][b] = call[x][b] /\ caller'[x][b] = caller[x][b]
  BY <1>2
<1> QED BY <1>3, <1>4, <1>5, <1>6, <1>7, <1>8 DEF ClaimOf

\* What settling a call does to the run: it never makes one a success, and
\* closes a row as done only on the worker's word or the run's own status.
LEMMA SettleFrame ==
  ASSUME TypeOK, NEW r \in Runs, NEW a \in Attempts, SettleCall(r, a)
  PROVE  /\ UNCHANGED <<exec, sealed, docsOpen, extractor>>
         /\ \A x \in Runs :
              /\ leaseExpired'[x] => leaseExpired[x]
              /\ qStatus'[x] \in {"none", "queued", "leased"} =>
                   qStatus'[x] = qStatus[x] /\ runStatus'[x] = runStatus[x]
              /\ runStatus'[x] = "success" => runStatus[x] = "success"
              /\ qStatus'[x] = "done" /\ Active(x) =>
                   \/ runStatus'[x] \in {"success", "skipped"}
                   \/ /\ x = r /\ OwnsLease(r, a) /\ call[r][a] = "ok"
                      /\ runStatus'[x] = runStatus[x]
<1> USE DEF runVars, queueVars, docVars, TypeOK, QueueTyped, RunsTyped
<1>1. CASE FinishDispatch(r, a)
  <2>1. UNCHANGED <<exec, sealed, docsOpen, extractor>>
    BY <1>1 DEF FinishDispatch
  <2>2. CASE UNCHANGED <<queueVars, runStatus>>
    BY <2>1, <2>2 DEF Active
  <2>3. CASE OwnsLease(r, a) /\ FinishRow(r, call[r][a] = "ok")
    <3>1. CASE call[r][a] = "ok" \/ runStatus[r] \in {"success", "skipped"}
      <4>1. CloseRow(r, "done") /\ UNCHANGED runStatus
        BY <2>3, <3>1 DEF FinishRow
      <4> QED BY <2>1, <2>3, <3>1, <4>1 DEF CloseRow, Active
    <3>2. CASE ~(call[r][a] = "ok" \/ runStatus[r] \in {"success", "skipped"})
      <4>1. /\ CloseRow(r, "failed")
            /\ SetRun(r, IF runStatus[r] = "running" THEN "error" ELSE runStatus[r])
        BY <2>3, <3>2 DEF FinishRow
      <4> QED BY <2>1, <4>1 DEF CloseRow, SetRun, Active
    <3> QED BY <3>1, <3>2
  <2> QED BY <1>1, <2>2, <2>3 DEF FinishDispatch
<1>2. CASE ParkDispatch(r, a)
  <2>1. UNCHANGED <<runStatus, exec, sealed, docsOpen, extractor>>
    BY <1>2 DEF ParkDispatch
  <2>2. UNCHANGED queueVars \/ CloseRow(r, "waiting")
    BY <1>2 DEF ParkDispatch
  <2> QED BY <2>1, <2>2 DEF CloseRow, Active
<1>3. CASE CountUnreachable(r, a) \/ DropCall(r, a)
  BY <1>3 DEF CountUnreachable, DropCall, Active
<1> QED BY <1>1, <1>2, <1>3 DEF SettleCall

\* No claim that is still to come gets ahead of the counter of its row.
LEMMA AheadIdleStep ==
  ASSUME TypeOK, RowsFollowRuns, ByType, AheadIdle, [Next]_vars
  PROVE  AheadIdle'
<1> SUFFICES ASSUME NEW x \in Runs, NEW b \in Attempts, b > attempts'[x]
             PROVE  call'[x][b] = "none" /\ exec'[x][b] = "none"
  BY DEF AheadIdle
<1>1. attempts[x] \in Int /\ b \in Int
  BY ConstantsAssumption DEF TypeOK, QueueTyped, Attempts
<1>2. ASSUME NEW w \in Workers, Claim(w)
      PROVE  call'[x][b] = "none" /\ exec'[x][b] = "none"
  <2>1. PICK C \in SUBSET Runs : ClaimOf(C)
    BY <1>2, ClaimFrame
  <2>2. b > attempts[x] /\ ~(x \in C /\ b = attempts[x] + 1)
    BY <1>1, <2>1 DEF ClaimOf
  <2> QED BY <2>1, <2>2 DEF ClaimOf, AheadIdle
<1>3. ASSUME NEW r \in Runs, NEW a \in Attempts, SettleCall(r, a)
      PROVE  call'[x][b] = "none" /\ exec'[x][b] = "none"
  <2>1. /\ UNCHANGED attempts
        /\ call[r][a] # "none"
        /\ <<x, b>> # <<r, a>> => call'[x][b] = call[x][b]
    BY <1>3, SettlesOwn
  <2>2. UNCHANGED exec
    BY <1>3, SettleFrame
  <2> QED BY <2>1, <2>2 DEF AheadIdle
<1>4. ASSUME NEW r \in Runs, NEW a \in Attempts, WorkerNext(r, a)
      PROVE  call'[x][b] = "none" /\ exec'[x][b] = "none"
  <2>1. /\ UNCHANGED attempts
        /\ <<x, b>> # <<r, a>> => exec'[x][b] = exec[x][b] /\ call'[x][b] = call[x][b]
        /\ exec[r][a] # "none" \/ call[r][a] # "none"
    BY <1>4, WorkerFrame DEF Alive
  <2> QED BY <2>1 DEF AheadIdle
<1>5. ASSUME Aside
      PROVE  call'[x][b] = "none" /\ exec'[x][b] = "none"
  BY <1>5 DEF Aside, AheadIdle
<1> QED BY <1>2, <1>3, <1>4, <1>5, FourKinds

\* Only the latest claim of a run is worked on, as long as a lease outlives its
\* call and its worker: every other way to lose the lease waits for both.
LEMMA OneWorkerStep ==
  ASSUME ~Outlive, TypeOK, RowsFollowRuns, ByType, LatestOwns, OneWorker,
         [Next]_vars
  PROVE  OneWorker'
<1> SUFFICES ASSUME NEW x \in Runs, NEW b \in Attempts,
                    \/ b # attempts'[x]
                    \/ qStatus'[x] \in {"none", "queued"}
                    \/ leaseExpired'[x] = TRUE
             PROVE  Spent(x, b)'
  BY DEF OneWorker
<1>1. ASSUME \/ b # attempts[x]
             \/ qStatus[x] \in {"none", "queued"}
             \/ leaseExpired[x] = TRUE
      PROVE  Spent(x, b)
  BY <1>1 DEF OneWorker
<1>2. ASSUME caller'[x][b] \in {None, caller[x][b]}, exec'[x][b] = exec[x][b], Spent(x, b)
      PROVE  Spent(x, b)'
  BY <1>2 DEF Spent, Alive
<1>3. ASSUME NEW w \in Workers, Claim(w)
      PROVE  Spent(x, b)'
  <2>1. PICK C \in SUBSET Runs : ClaimOf(C)
    BY <1>3, ClaimFrame
  <2>2. CASE x \in C
    <3>1. /\ qStatus[x] = "queued" \/ leaseExpired[x]
          /\ b # attempts[x] + 1
      BY <2>1, <2>2 DEF ClaimOf
    <3>2. Spent(x, b)
      BY <3>1, <1>1
    <3> QED BY <1>2, <2>1, <3>1, <3>2 DEF ClaimOf
  <2>3. CASE x \notin C
    <3>1. /\ attempts'[x] = attempts[x]
          /\ qStatus'[x] \in {"none", "queued"} =>
               qStatus[x] \in {"none", "queued"} \/ leaseExpired[x]
          /\ leaseExpired'[x] => leaseExpired[x]
      BY <2>1, <2>3 DEF ClaimOf
    <3>2. Spent(x, b)
      BY <3>1, <1>1
    <3> QED BY <1>2, <2>1, <2>3, <3>2 DEF ClaimOf
  <2> QED BY <2>2, <2>3
<1>4. ASSUME NEW r \in Runs, NEW a \in Attempts, SettleCall(r, a)
      PROVE  Spent(x, b)'
  <2>1. /\ UNCHANGED <<attempts, exec>>
        /\ qStatus'[x] \in {"none", "queued"} => qStatus[x] \in {"none", "queued"}
        /\ leaseExpired'[x] => leaseExpired[x]
    BY <1>4, SettlesOwn, SettleFrame
  <2>2. caller'[x][b] \in {None, caller[x][b]}
    BY <1>4, SettlesOwn
  <2>3. Spent(x, b)
    BY <1>1, <2>1
  <2> QED BY <1>2, <2>1, <2>2, <2>3
<1>5. ASSUME NEW r \in Runs, NEW a \in Attempts, WorkerNext(r, a)
      PROVE  Spent(x, b)'
  <2>1. /\ UNCHANGED <<attempts, leaseExpired, caller>>
        /\ <<x, b>> # <<r, a>> => exec'[x][b] = exec[x][b]
        /\ \/ qStatus'[x] = qStatus[x]
           \/ runStatus[x] = "absent"
        /\ Alive(r, a) \/ call[r][a] = "open"
    BY <1>5, WorkerFrame
  <2>2. ~Spent(r, a)
    BY <2>1 DEF Spent, LatestOwns
  <2>3. qStatus'[x] \in {"none", "queued"} => qStatus[x] \in {"none", "queued"}
    BY <2>1 DEF RowsFollowRuns
  <2>4. Spent(x, b)
    BY <1>1, <2>1, <2>3
  <2> QED BY <1>2, <2>1, <2>2, <2>4
<1>6. ASSUME Aside
      PROVE  Spent(x, b)'
  <2>1. /\ UNCHANGED <<attempts, caller, exec>>
        /\ qStatus'[x] \in {"none", "queued"} => qStatus[x] \in {"none", "queued"}
        /\ leaseExpired'[x] /\ ~leaseExpired[x] => \A c \in Attempts : Spent(x, c)
    BY <1>6 DEF Aside
  <2>2. Spent(x, b)
    <3>1. CASE leaseExpired[x] \/ ~leaseExpired'[x]
      BY <1>1, <2>1, <3>1
    <3>2. CASE leaseExpired'[x] /\ ~leaseExpired[x]
      BY <2>1, <3>2
    <3> QED BY <3>1, <3>2
  <2> QED BY <1>2, <2>1, <2>2
<1> QED BY <1>3, <1>4, <1>5, <1>6, FourKinds

\* When the worker of a Page run answers "ok", the run was a success already or
\* terminal before it started.
LEMMA PageWorker ==
  ASSUME TypeOK, ByType, NEW r \in Runs, NEW a \in Attempts,
         RunType(r) = "web", WorkerNext(r, a)
  PROVE  /\ exec'[r][a] = "succeeded" => runStatus'[r] = "success"
         /\ call'[r][a] = "ok" /\ call[r][a] # "ok" =>
              /\ exec'[r][a] = "done"
              /\ call[r][a] = "open"
              /\ runStatus'[r] = runStatus[r]
              /\ \/ exec[r][a] = "none" /\ runStatus[r] # "running"
                 \/ exec[r][a] = "succeeded"
<1> USE DEF runVars, procVars
<1>1. ProcsTyped
  BY DEF TypeOK
<1>2. CASE MarkSuccess(r, a)
  BY <1>1, <1>2, GoToFrame DEF MarkSuccess, SetRun, TypeOK, RunsTyped
<1>3. CASE Reply(r, a, "ok") /\ UNCHANGED runStatus
           /\ \/ exec[r][a] = "none" /\ runStatus[r] # "running"
              \/ exec[r][a] = "succeeded"
  <2>1. exec'[r][a] = "done"
    BY <1>1, <1>3, GoToFrame DEF Reply
  <2>2. call'[r][a] = IF call[r][a] = "open" THEN "ok" ELSE call[r][a]
    BY <1>1, <1>3, AnsweredFrame DEF Reply
  <2> QED BY <1>3, <2>1, <2>2
<1>4. CASE (UNCHANGED call \/ \E answer \in {"failed", "accepted"} : call' = Answered(r, a, answer))
           /\ \E pc \in Execs \ {"succeeded"} : GoTo(r, a, pc)
  <2>1. exec'[r][a] # "succeeded"
    BY <1>1, <1>4, GoToFrame
  <2>2. call'[r][a] = "ok" => call[r][a] = "ok"
    BY <1>1, <1>4, AnsweredFrame
  <2> QED BY <2>1, <2>2
<1>5. CASE StartPage(r, a)
  <2>1. CASE runStatus[r] = "running"
    BY <1>4, <1>5, <2>1 DEF StartPage, Execs
  <2>2. CASE runStatus[r] # "running"
    BY <1>3, <1>5, <2>2 DEF StartPage, Starts
  <2> QED BY <2>1, <2>2
<1>6. CASE ResetFailures(r, a)
  <2>1. CASE exec[r][a] = "succeeded" /\ Reply(r, a, "ok")
    BY <1>3, <1>6, <2>1 DEF ResetFailures
  <2>2. CASE UNCHANGED call /\ \E pc \in Execs \ {"succeeded"} : GoTo(r, a, pc)
    BY <1>4, <2>2
  <2> QED BY <1>6, <2>1, <2>2 DEF ResetFailures, Execs
<1>7. CASE \/ ResolveBeat(r, a) \/ BeatBackgroundFails(r, a) \/ QueueDocument(r, a)
           \/ AcceptBeat(r, a) \/ StartCivic(r, a) \/ WorkerDies(r, a)
  <2>1. UNCHANGED call \/ call' = Answered(r, a, "accepted")
    BY <1>7 DEF ResolveBeat, BeatBackgroundFails, QueueDocument, AcceptBeat,
         StartCivic, WorkerDies
  <2>2. \E pc \in Execs \ {"succeeded"} : GoTo(r, a, pc)
    BY <1>7 DEF ResolveBeat, BeatBackgroundFails, QueueDocument, AcceptBeat,
         StartCivic, WorkerDies, Execs
  <2> QED BY <1>4, <2>1, <2>2
<1>8. CASE Fail(r, a) \/ DeferFailure(r, a) \/ RecordFailure(r, a) \/ SkipRun(r, a)
  <2>1. UNCHANGED call \/ call' = Answered(r, a, "failed")
    BY <1>8 DEF Fail, DeferFailure, RecordFailure, SkipRun, Reply
  <2>2. \E pc \in Execs \ {"succeeded"} : GoTo(r, a, pc)
    BY <1>8 DEF Fail, DeferFailure, RecordFailure, SkipRun, Reply, Execs
  <2> QED BY <1>4, <2>1, <2>2
<1>9. ~CompleteEmpty(r, a) /\ ~CompleteDispatch(r, a)
  BY DEF CompleteEmpty, CompleteDispatch, ByType
<1> QED BY <1>2, <1>5, <1>6, <1>7, <1>8, <1>9 DEF WorkerNext

\* The run of a leased Page row shows what its worker answers.
LEMMA OutcomeKnownStep ==
  ASSUME TypeOK, RowsFollowRuns, ByType, AheadIdle, LatestOwns, OneWorker,
         OutcomeKnown, [Next]_vars
  PROVE  OutcomeKnown'
<1> SUFFICES ASSUME NEW x \in Runs, NEW b \in Attempts, RunType(x) = "web",
                    qStatus'[x] = "leased"
             PROVE  /\ call'[x][b] = "open" /\ exec'[x][b] = "none" =>
                         runStatus'[x] = "running"
                    /\ call'[x][b] = "open" /\ exec'[x][b] = "succeeded" =>
                         runStatus'[x] = "success"
                    /\ call'[x][b] = "ok" =>
                         runStatus'[x] = "success" /\ ~Alive(x, b)'
  BY DEF OutcomeKnown, RunType
<1> DEFINE Goal ==
      /\ call'[x][b] = "open" /\ exec'[x][b] = "none" => runStatus'[x] = "running"
      /\ call'[x][b] = "open" /\ exec'[x][b] = "succeeded" => runStatus'[x] = "success"
      /\ call'[x][b] = "ok" => runStatus'[x] = "success" /\ ~Alive(x, b)'
<1>1. ASSUME qStatus[x] = "leased", runStatus'[x] = runStatus[x],
             exec'[x][b] = exec[x][b],
             call'[x][b] \in {call[x][b], "failed", "unreachable", "counting", "settled"}
      PROVE  Goal
  BY <1>1 DEF OutcomeKnown, Alive
<1>2. ASSUME call'[x][b] \notin {"open", "ok"}
      PROVE  Goal
  BY <1>2
<1>3. ASSUME Spent(x, b)
      PROVE  call[x][b] \notin {"open", "ok"}
  BY <1>3 DEF Spent, LatestOwns
<1>4. ASSUME NEW w \in Workers, Claim(w)
      PROVE  Goal
  <2>1. PICK C \in SUBSET Runs : ClaimOf(C)
    BY <1>4, ClaimFrame
  <2>2. CASE x \in C /\ b = attempts[x] + 1
    <3>1. attempts[x] \in Int
      BY DEF TypeOK, QueueTyped
    <3>2. exec[x][b] = "none"
      BY <2>2, <3>1 DEF AheadIdle
    <3> QED BY <2>1, <2>2, <3>2 DEF ClaimOf
  <2>3. CASE x \in C /\ b # attempts[x] + 1
    <3>1. Spent(x, b)
      BY <2>1, <2>3 DEF ClaimOf, OneWorker
    <3> QED BY <1>2, <1>3, <2>1, <2>3, <3>1 DEF ClaimOf
  <2>4. CASE x \notin C
    BY <1>1, <2>1, <2>4 DEF ClaimOf
  <2> QED BY <2>2, <2>3, <2>4
<1>5. ASSUME NEW r \in Runs, NEW a \in Attempts, SettleCall(r, a)
      PROVE  Goal
  <2>1. /\ UNCHANGED exec
        /\ qStatus[x] = "leased" /\ runStatus'[x] = runStatus[x]
    BY <1>5, SettleFrame
  <2>2. call'[x][b] \in {call[x][b], "settled", "counting"}
    BY <1>5, SettlesOwn
  <2> QED BY <1>1, <2>1, <2>2
<1>6. ASSUME NEW r \in Runs, NEW a \in Attempts, WorkerNext(r, a)
      PROVE  Goal
  <2>1. /\ UNCHANGED <<attempts, leaseExpired, caller>>
        /\ <<x, b>> # <<r, a>> => exec'[x][b] = exec[x][b] /\ call'[x][b] = call[x][b]
        /\ x # r => \/ runStatus'[x] = runStatus[x]
                    \/ runStatus[x] = "absent"
        /\ qStatus'[x] \in {qStatus[x], "queued"}
        /\ Alive(r, a) \/ (call[r][a] = "open" /\ exec[r][a] = "none")
        /\ exec'[r][a] # "none"
    BY <1>6, WorkerFrame
  <2>2. qStatus[x] = "leased"
    BY <2>1
  <2>3. ~Spent(r, a)
    BY <2>1 DEF Spent, LatestOwns
  <2>4. CASE x # r
    <3>1. runStatus'[x] = runStatus[x]
      BY <2>1, <2>2, <2>4 DEF RowsFollowRuns
    <3> QED BY <1>1, <2>1, <2>2, <2>4, <3>1
  <2>5. CASE x = r /\ b # a
    <3>1. Spent(x, b)
      BY <2>3, <2>5 DEF OneWorker
    <3> QED BY <1>2, <1>3, <2>1, <2>5, <3>1
  <2>6. CASE x = r /\ b = a
    <3>1. /\ exec'[x][b] = "succeeded" => runStatus'[x] = "success"
          /\ call'[x][b] = "ok" /\ call[x][b] # "ok" =>
               /\ exec'[x][b] = "done"
               /\ call[x][b] = "open"
               /\ runStatus'[x] = runStatus[x]
               /\ \/ exec[x][b] = "none" /\ runStatus[x] # "running"
                  \/ exec[x][b] = "succeeded"
      BY <1>6, <2>6, PageWorker
    <3>2. call[x][b] # "ok"
      BY <2>1, <2>2, <2>6 DEF OutcomeKnown
    <3> QED BY <2>1, <2>2, <2>6, <3>1, <3>2 DEF OutcomeKnown, Alive
  <2> QED BY <2>4, <2>5, <2>6
<1>7. ASSUME Aside
      PROVE  Goal
  <2>1. /\ UNCHANGED exec
        /\ qStatus[x] = "leased" /\ runStatus'[x] = runStatus[x]
        /\ call'[x][b] \in {call[x][b], "failed", "unreachable"}
    BY <1>7 DEF Aside
  <2> QED BY <1>1, <2>1
<1> QED BY <1>4, <1>5, <1>6, <1>7, FourKinds
\* Where a worker can be, and what it answers, is a matter of its run's type.
LEMMA WorkerByType ==
  ASSUME TypeOK, ByType, NEW r \in Runs, NEW a \in Attempts, WorkerNext(r, a)
  PROVE  /\ exec'[r][a] = "accepted" => RunType(r) = "beat"
         /\ exec'[r][a] \in {"queuing", "queued", "dispatched", "empty"}
              => RunType(r) = "civic"
         /\ exec'[r][a] = "succeeded" => RunType(r) # "civic"
         /\ RunType(r) = "beat" => call'[r][a] \notin {"open", "ok"}
         /\ docsOpen' = docsOpen \/ RunType(r) = "civic"
<1> USE DEF docVars
<1>1. ProcsTyped
  BY DEF TypeOK
<1>2. RunType(r) \in {"web", "beat", "civic"}
  BY ConstantsAssumption DEF RunType, Types
<1>3. CASE Starts(r, a, "web")
  <2>1. RunType(r) = "web"
    BY <1>3 DEF Starts
  <2> HIDE DEF docVars
  <2>2. \E pc \in {"running", "done"} : GoTo(r, a, pc)
    BY <1>3 DEF WorkerNext, StartPage, AcceptBeat, StartCivic, ResolveBeat,
      BeatBackgroundFails, MarkSuccess, ResetFailures, QueueDocument,
      CompleteEmpty, CompleteDispatch, SkipRun, Fail, DeferFailure,
      RecordFailure, WorkerDies, Starts, Reply, Alive
  <2>3. UNCHANGED docsOpen
    BY <1>3 DEF WorkerNext, StartPage, AcceptBeat, StartCivic, ResolveBeat,
      BeatBackgroundFails, MarkSuccess, ResetFailures, QueueDocument,
      CompleteEmpty, CompleteDispatch, SkipRun, Fail, DeferFailure,
      RecordFailure, WorkerDies, Starts, Alive, docVars
  <2> QED BY <1>1, <2>1, <2>2, <2>3, GoToFrame
<1>4. CASE StartPage(r, a)
  BY <1>3, <1>4 DEF StartPage
<1>5. CASE AcceptBeat(r, a)
  <2>1. RunType(r) = "beat" /\ exec'[r][a] = "accepted" /\ UNCHANGED docsOpen
    BY <1>1, <1>5, GoToFrame DEF AcceptBeat, Starts
  <2>2. call'[r][a] = "accepted"
    BY <1>1, <1>5, AnsweredFrame DEF AcceptBeat, Starts
  <2> QED BY <2>1, <2>2
<1>6. CASE StartCivic(r, a)
  BY <1>1, <1>6, GoToFrame DEF StartCivic, Starts
<1>7. CASE QueueDocument(r, a)
  BY <1>1, <1>7, GoToFrame DEF QueueDocument
<1>8. CASE MarkSuccess(r, a)
  <2>1. exec'[r][a] = "succeeded" /\ RunType(r) # "civic" /\ exec[r][a] = "running"
        /\ UNCHANGED <<call, docsOpen>>
    BY <1>1, <1>8, GoToFrame DEF MarkSuccess
  <2> QED BY <2>1 DEF ByType
<1>9. CASE ResetFailures(r, a)
  <2>1. UNCHANGED docsOpen /\ exec[r][a] # "none"
    BY <1>9 DEF ResetFailures
  <2>2. CASE exec[r][a] = "succeeded" /\ Reply(r, a, "ok")
    <3>1. exec'[r][a] = "done"
      BY <1>1, <2>2, GoToFrame DEF Reply
    <3>2. call'[r][a] = IF call[r][a] = "open" THEN "ok" ELSE call[r][a]
      BY <1>1, <2>2, AnsweredFrame DEF Reply
    <3> QED BY <2>1, <3>1, <3>2 DEF ByType
  <2>3. CASE RunType(r) = "civic" /\ \E pc \in {"empty", "dispatched"} : GoTo(r, a, pc)
    BY <1>1, <2>1, <2>3, GoToFrame
  <2> QED BY <1>9, <2>2, <2>3 DEF ResetFailures
<1>10. CASE ResolveBeat(r, a)
  <2>1. exec'[r][a] = "running" /\ exec[r][a] = "accepted" /\ UNCHANGED <<call, docsOpen>>
    BY <1>1, <1>10, GoToFrame DEF ResolveBeat
  <2> QED BY <2>1 DEF ByType
<1>11. CASE \/ BeatBackgroundFails(r, a) \/ CompleteEmpty(r, a) \/ CompleteDispatch(r, a)
            \/ SkipRun(r, a) \/ Fail(r, a) \/ DeferFailure(r, a)
            \/ RecordFailure(r, a) \/ WorkerDies(r, a)
  <2>1. UNCHANGED docsOpen
    BY <1>11 DEF BeatBackgroundFails, CompleteEmpty, CompleteDispatch, SkipRun, Fail,
         DeferFailure, RecordFailure, WorkerDies
  <2>2. \E pc \in {"done", "deferrable", "countable"} : GoTo(r, a, pc)
    BY <1>11 DEF BeatBackgroundFails, CompleteEmpty, CompleteDispatch, SkipRun, Fail,
         DeferFailure, RecordFailure, WorkerDies, Reply
  <2>3. exec[r][a] # "none"
    BY <1>11 DEF BeatBackgroundFails, CompleteEmpty, CompleteDispatch, SkipRun, Fail,
         DeferFailure, RecordFailure, WorkerDies, Alive
  <2>4. \/ UNCHANGED call
        \/ \E answer \in {"ok", "failed"} : call' = Answered(r, a, answer)
    BY <1>11 DEF BeatBackgroundFails, CompleteEmpty, CompleteDispatch, SkipRun, Fail,
         DeferFailure, RecordFailure, WorkerDies, Reply
  <2>5. call'[r][a] = call[r][a] \/ call[r][a] = "open"
    BY <1>1, <2>4, AnsweredFrame
  <2>6. exec'[r][a] \in {"done", "deferrable", "countable"}
    BY <1>1, <2>2, GoToFrame
  <2> QED BY <2>1, <2>3, <2>5, <2>6 DEF ByType
<1> QED
  BY <1>4, <1>5, <1>6, <1>7, <1>8, <1>9, <1>10, <1>11 DEF WorkerNext

\* The types of runs keep their program points apart.
LEMMA ByTypeStep ==
  ASSUME TypeOK, RowsFollowRuns, ByType, AheadIdle, [Next]_vars
  PROVE  ByType'
<1> DEFINE At(x, b) ==
      /\ exec'[x][b] = "accepted" => RunType(x) = "beat"
      /\ exec'[x][b] \in {"queuing", "queued", "dispatched", "empty"}
           => RunType(x) = "civic"
      /\ exec'[x][b] = "succeeded" => RunType(x) # "civic"
      /\ RunType(x) = "beat" =>
           /\ exec'[x][b] # "none" => call'[x][b] # "open"
           /\ call'[x][b] # "ok"
    Docs(x) == x \in docsOpen' \/ extractor'[x] # "idle" => RunType(x) = "civic"
<1> SUFFICES ASSUME NEW x \in Runs, NEW b \in Attempts
             PROVE  At(x, b) /\ Docs(x)
  <2>1. Attempts # {}
    BY ConstantsAssumption DEF Attempts
  <2> QED BY <2>1 DEF ByType, RunType
<1>1. ASSUME exec'[x][b] = exec[x][b], call'[x][b] = call[x][b] \/ call'[x][b] \notin {"open", "ok"}
      PROVE  At(x, b)
  BY <1>1 DEF ByType
<1>2. ASSUME x \in docsOpen' => x \in docsOpen,
             extractor'[x] # "idle" => extractor[x] # "idle" \/ x \in docsOpen
      PROVE  Docs(x)
  BY <1>2 DEF ByType
<1>3. ASSUME NEW w \in Workers, Claim(w)
      PROVE  At(x, b) /\ Docs(x)
  <2>1. PICK C \in SUBSET Runs : ClaimOf(C)
    BY <1>3, ClaimFrame
  <2>2. Docs(x) /\ UNCHANGED exec
    BY <1>2, <2>1 DEF ClaimOf
  <2>3. CASE x \in C /\ b = attempts[x] + 1
    <3>1. attempts[x] \in Int
      BY DEF TypeOK, QueueTyped
    <3>2. exec[x][b] = "none"
      BY <2>3, <3>1 DEF AheadIdle
    <3> QED BY <2>1, <2>2, <2>3, <3>2 DEF ClaimOf
  <2>4. CASE ~(x \in C /\ b = attempts[x] + 1)
    BY <1>1, <2>1, <2>2, <2>4 DEF ClaimOf
  <2> QED BY <2>2, <2>3, <2>4
<1>4. ASSUME NEW r \in Runs, NEW a \in Attempts, SettleCall(r, a)
      PROVE  At(x, b) /\ Docs(x)
  <2>1. UNCHANGED <<exec, docsOpen, extractor>>
    BY <1>4, SettleFrame
  <2>2. call'[x][b] = call[x][b] \/ call'[x][b] \notin {"open", "ok"}
    BY <1>4, SettlesOwn
  <2> QED BY <1>1, <1>2, <2>1, <2>2
<1>5. ASSUME NEW r \in Runs, NEW a \in Attempts, WorkerNext(r, a)
      PROVE  At(x, b) /\ Docs(x)
  <2>1. /\ UNCHANGED extractor
        /\ <<x, b>> # <<r, a>> => exec'[x][b] = exec[x][b] /\ call'[x][b] = call[x][b]
        /\ x # r => (x \in docsOpen' => x \in docsOpen)
    BY <1>5, WorkerFrame
  <2>2. At(r, a) /\ (docsOpen' = docsOpen \/ RunType(r) = "civic")
    BY <1>5, WorkerByType
  <2>3. At(x, b)
    BY <1>1, <2>1, <2>2
  <2>4. Docs(x)
    BY <1>2, <2>1, <2>2
  <2> QED BY <2>3, <2>4
<1>6. ASSUME Aside
      PROVE  At(x, b) /\ Docs(x)
  <2>1. /\ UNCHANGED exec
        /\ call'[x][b] = call[x][b] \/ call'[x][b] \in {"failed", "unreachable"}
        /\ docsOpen' \subseteq docsOpen
        /\ extractor'[x] # "idle" => extractor[x] # "idle" \/ x \in docsOpen
    BY <1>6 DEF Aside
  <2> QED BY <1>1, <1>2, <2>1
<1> QED BY <1>3, <1>4, <1>5, <1>6, FourKinds

\* What OnceDispatched says of one claim.
OnceAt(r, a) ==
  /\ exec[r][a] \in {"none", "running", "empty"} => r \notin docsOpen
  /\ exec[r][a] \in {"running", "queuing", "queued", "dispatched"}
       => ~sealed[r] /\ runStatus[r] # "success"
  /\ runStatus[r] = "success" => r \notin docsOpen

\* The worker of a Civic run keeps it.
LEMMA CivicWorker ==
  ASSUME TypeOK, ByType, NEW r \in Runs, NEW a \in Attempts, RunType(r) = "civic",
         WorkerNext(r, a), OnceAt(r, a)
  PROVE  OnceAt(r, a)'
<1> USE DEF runVars, docVars
<1>1. ProcsTyped /\ RunsTyped
  BY DEF TypeOK
<1>2. CASE StartCivic(r, a)
  <2>1. exec[r][a] = "none" /\ exec'[r][a] = "running" /\ UNCHANGED docsOpen
    BY <1>1, <1>2, GoToFrame DEF StartCivic, Starts
  <2>2. runStatus'[r] = "running" /\ ~sealed'[r]
    BY <1>1, <1>2 DEF StartCivic, SetRun, RunsTyped
  <2> QED BY <2>1, <2>2 DEF OnceAt
<1>3. CASE QueueDocument(r, a)
  <2>1. /\ exec[r][a] \in {"running", "queuing"}
        /\ exec'[r][a] \in {"queuing", "queued"}
        /\ UNCHANGED <<runStatus, sealed>>
    BY <1>1, <1>3, GoToFrame DEF QueueDocument
  <2> QED BY <2>1 DEF OnceAt
<1>4. CASE ResetFailures(r, a)
  <2>1. exec[r][a] # "succeeded"
    BY DEF ByType
  <2>2. /\ \/ exec[r][a] = "running" /\ exec'[r][a] = "empty"
           \/ exec[r][a] \in {"queuing", "queued"} /\ exec'[r][a] = "dispatched"
        /\ UNCHANGED <<runStatus, sealed, docsOpen>>
    BY <1>1, <1>4, <2>1, GoToFrame DEF ResetFailures
  <2> QED BY <2>2 DEF OnceAt
<1>5. CASE CompleteEmpty(r, a)
  <2>1. exec[r][a] = "empty" /\ exec'[r][a] = "done" /\ UNCHANGED docsOpen
    BY <1>1, <1>5, GoToFrame DEF CompleteEmpty, Reply
  <2> QED BY <2>1 DEF OnceAt
<1>6. CASE CompleteDispatch(r, a)
  <2>1. exec[r][a] = "dispatched" /\ exec'[r][a] = "done" /\ UNCHANGED docsOpen
    BY <1>1, <1>6, GoToFrame DEF CompleteDispatch, Reply
  <2>2. r \in docsOpen => runStatus'[r] = runStatus[r]
    BY <1>6 DEF CompleteDispatch
  <2> QED BY <2>1, <2>2 DEF OnceAt
<1>7. CASE \/ SkipRun(r, a) \/ Fail(r, a) \/ DeferFailure(r, a)
           \/ RecordFailure(r, a) \/ WorkerDies(r, a)
  <2>1. UNCHANGED docsOpen
    BY <1>7 DEF SkipRun, Fail, DeferFailure, RecordFailure, WorkerDies
  <2>2. \E pc \in {"done", "deferrable", "countable"} : GoTo(r, a, pc)
    BY <1>7 DEF SkipRun, Fail, DeferFailure, RecordFailure, WorkerDies, Reply
  <2>3. exec'[r][a] \in {"done", "deferrable", "countable"}
    BY <1>1, <2>2, GoToFrame
  <2>4. runStatus'[r] = "success" => runStatus[r] = "success"
    BY <1>1, <1>7 DEF SkipRun, Fail, DeferFailure, GrantRetry, EnqueueRetry, SetRun,
         RecordFailure, WorkerDies, RunsTyped, Fresh, RunsOf
  <2> QED BY <2>1, <2>3, <2>4 DEF OnceAt
<1>8. /\ ~StartPage(r, a) /\ ~AcceptBeat(r, a) /\ ~MarkSuccess(r, a)
      /\ ~ResolveBeat(r, a) /\ ~BeatBackgroundFails(r, a)
  BY DEF StartPage, AcceptBeat, MarkSuccess, ResolveBeat, BeatBackgroundFails, Starts,
     ByType
<1> QED
  BY <1>2, <1>3, <1>4, <1>5, <1>6, <1>7, <1>8 DEF WorkerNext

\* A Civic run that was claimed once is a success only without open documents.
LEMMA OnceDispatchedStep ==
  ASSUME TypeOK, RowsFollowRuns, ByType, AheadIdle, OnceDispatched, [Next]_vars
  PROVE  OnceDispatched'
<1>1. 1 \in Attempts
  BY ConstantsAssumption DEF Attempts
<1> SUFFICES ASSUME NEW x \in Runs, RunType(x) = "civic", attempts'[x] <= 1
             PROVE  OnceAt(x, 1)'
  BY DEF OnceDispatched, OnceAt, RunType
<1>2. attempts[x] \in Nat
  BY DEF TypeOK, QueueTyped
<1>3. ASSUME attempts[x] <= 1
      PROVE  OnceAt(x, 1)
  BY <1>3 DEF OnceDispatched, OnceAt
<1>4. ASSUME attempts[x] <= 1, exec'[x][1] = exec[x][1], sealed'[x] = sealed[x],
             x \in docsOpen' => x \in docsOpen,
             runStatus'[x] = "success" /\ runStatus[x] # "success" =>
               sealed[x] /\ x \notin docsOpen'
      PROVE  OnceAt(x, 1)'
  BY <1>3, <1>4 DEF OnceAt
<1>5. ASSUME NEW w \in Workers, Claim(w)
      PROVE  OnceAt(x, 1)'
  <2>1. PICK C \in SUBSET Runs : ClaimOf(C)
    BY <1>5, ClaimFrame
  <2>2. attempts'[x] \in {attempts[x], attempts[x] + 1}
    BY <2>1 DEF ClaimOf
  <2>3. attempts[x] <= 1
    BY <1>2, <2>2
  <2> QED BY <1>4, <2>1, <2>3 DEF ClaimOf
<1>6. ASSUME NEW r \in Runs, NEW a \in Attempts, SettleCall(r, a)
      PROVE  OnceAt(x, 1)'
  <2>1. UNCHANGED attempts
    BY <1>6, SettlesOwn
  <2>2. /\ UNCHANGED <<exec, sealed, docsOpen>>
        /\ runStatus'[x] = "success" => runStatus[x] = "success"
    BY <1>6, SettleFrame
  <2> QED BY <1>4, <2>1, <2>2
<1>7. ASSUME NEW r \in Runs, NEW a \in Attempts, WorkerNext(r, a)
      PROVE  OnceAt(x, 1)'
  <2>1. /\ UNCHANGED attempts
        /\ <<x, 1>> # <<r, a>> => exec'[x][1] = exec[x][1]
        /\ x # r =>
             /\ sealed'[x] = sealed[x]
             /\ x \in docsOpen' => x \in docsOpen
             /\ runStatus'[x] \in {runStatus[x], "running"}
        /\ exec[r][a] # "none" \/ call[r][a] # "none"
    BY <1>1, <1>7, WorkerFrame DEF Alive
  <2>2. CASE x # r
    BY <1>4, <2>1, <2>2
  <2>3. CASE x = r
    <3>1. ~(a > attempts[r])
      BY <2>1 DEF AheadIdle
    <3>2. a = 1
      BY <1>2, <2>1, <2>3, <3>1, ConstantsAssumption DEF Attempts
    <3> QED BY <1>3, <1>7, <2>1, <2>3, <3>2, CivicWorker
  <2> QED BY <2>2, <2>3
<1>8. ASSUME Aside
      PROVE  OnceAt(x, 1)'
  BY <1>4, <1>8 DEF Aside
<1> QED BY <1>5, <1>6, <1>7, <1>8, FourKinds

\* A row is closed as done by a worker's "ok" only when the run shows it.
LEMMA DoneDelivered ==
  ASSUME TypeOK, RowsFollowRuns, ByType, LatestOwns, OutcomeKnown, [Next]_vars
  PROVE  TurnsDoneDelivered
<1> SUFFICES ASSUME NEW x \in Runs, Active(x), qStatus'[x] = "done", RunType(x) # "civic"
             PROVE  runStatus'[x] \in {"success", "skipped"}
  BY DEF TurnsDoneDelivered
<1>1. ASSUME NEW w \in Workers, Claim(w)
      PROVE  runStatus'[x] \in {"success", "skipped"}
  <2>1. PICK C \in SUBSET Runs : ClaimOf(C)
    BY <1>1, ClaimFrame
  <2> QED BY <2>1 DEF ClaimOf
<1>2. ASSUME NEW r \in Runs, NEW a \in Attempts, SettleCall(r, a)
      PROVE  runStatus'[x] \in {"success", "skipped"}
  <2>1. \/ runStatus'[x] \in {"success", "skipped"}
        \/ /\ x = r /\ OwnsLease(r, a) /\ call[r][a] = "ok"
           /\ runStatus'[x] = runStatus[x]
    BY <1>2, SettleFrame
  <2>2. CASE x = r /\ OwnsLease(r, a) /\ call[r][a] = "ok"
             /\ runStatus'[x] = runStatus[x]
    <3>1. RunType(x) = "web"
      BY <2>2, ConstantsAssumption DEF ByType, RunType, Types
    <3> QED BY <2>2, <3>1 DEF OutcomeKnown, OwnsLease
  <2> QED BY <2>1, <2>2
<1>3. ASSUME NEW r \in Runs, NEW a \in Attempts, WorkerNext(r, a)
      PROVE  runStatus'[x] \in {"success", "skipped"}
  BY <1>3, WorkerFrame DEF Active
<1>4. ASSUME Aside
      PROVE  runStatus'[x] \in {"success", "skipped"}
  BY <1>4 DEF Aside
<1> QED BY <1>1, <1>2, <1>3, <1>4, FourKinds

-----------------------------------------------------------------------------
(* What a done row and a successful Civic run stand for                    *)

\* A Civic run that was delivered once never shows a success, which seals its
\* alert, while one of its documents is open: whatever the drains, the worker,
\* the extract workers and the reconcilers do, and in which order.
THEOREM Settled == Spec => []SettledBeforeSuccess
<1> DEFINE DocsInv == ByType /\ AheadIdle /\ OnceDispatched
<1>1. Init => DocsInv
  <2>1. Init => ByType /\ AheadIdle
    BY DEF Init, ByType, AheadIdle
  <2>2. Init => OnceDispatched
    BY ConstantsAssumption DEF Init, OnceDispatched, Attempts
  <2> QED BY <2>1, <2>2
<1>2. IInv /\ DocsInv /\ [Next]_vars => DocsInv'
  BY ByTypeStep, AheadIdleStep, OnceDispatchedStep DEF IInv
<1>3. DocsInv => SettledBeforeSuccess
  BY DEF OnceDispatched, SettledBeforeSuccess
<1> QED BY <1>1, <1>2, <1>3, IInvHolds, PTL DEF Spec

\* Where no call and no worker outlives its lease, a Page or Beat row that is
\* closed as done belongs to a run that ended well or was skipped.
THEOREM Delivered ==
  ASSUME ~Outlive
  PROVE  Spec => DoneMeansDelivered
<1> DEFINE WorkInv ==
      ByType /\ AheadIdle /\ LatestOwns /\ OneWorker /\ OutcomeKnown
<1>1. Init => WorkInv
  <2>1. Init => ByType /\ AheadIdle
    BY DEF Init, ByType, AheadIdle
  <2>2. Init => LatestOwns /\ OneWorker /\ OutcomeKnown
    BY DEF Init, LatestOwns, OneWorker, OutcomeKnown, Spent, Alive
  <2> QED BY <2>1, <2>2
<1>2. IInv /\ WorkInv /\ [Next]_vars => WorkInv'
  BY ByTypeStep, AheadIdleStep, LatestOwnsStep, OneWorkerStep, OutcomeKnownStep
  DEF IInv
<1>3. IInv /\ WorkInv /\ [Next]_vars => [TurnsDoneDelivered]_vars
  BY DoneDelivered DEF IInv
<1> QED
  BY <1>1, <1>2, <1>3, IInvHolds, PTL DEF Spec, DoneMeansDelivered

=============================================================================
