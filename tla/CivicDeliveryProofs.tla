------------------------ MODULE CivicDeliveryProofs ------------------------
(***************************************************************************)
(* Theorems about CivicAlerts that hold when the dispatch queue delivers    *)
(* the run at most once.  A second delivery finds the documents queued by   *)
(* the first, queues nothing and declares success while one is still open;  *)
(* what is stored afterwards is never mailed (README, further observations).*)
(***************************************************************************)
EXTENDS CivicAlertsProofs

-----------------------------------------------------------------------------
(* The inductive invariants                                                *)

\* While civic-execute has yet to queue a document there is none; while it has
\* not ended the run is open; what a failed document sets going finds a failed
\* document.
Once ==
  /\ dispatch = "idle" => dispatches = 0
  /\ dispatch # "idle" => dispatches = MaxDispatches
  /\ dispatch \in {"idle", "claimed", "queuing"} =>
       \A d \in Docs : docStatus[d] = "none"
  /\ dispatch \in {"queuing", "queued"} => ~complete
  /\ dispatch # "ended" => runStatus # "success"
  /\ SuccessMeansDone
  /\ alert # "none" => runStatus = "success"
  /\ \A w \in Workers : pc[w] \in {"docFailed", "erroring"} => Failed(docStatus)

\* Where an invocation has mailed the alert, or found that it was mailed.
PostMail == {"flagging", "accepting"} \cup Reporting

\* Where an invocation has composed the mail and not submitted it.
Composed == {"attempted", "checking", "sending"}

\* Every trace of a mail has a mail behind it, every mail holds all promises of
\* the run that are left, and items are consumed with the delivery alone.
LedgerMailed ==
  /\ sentFlag \/ noted \/ accepted => inbox # {}
  /\ alert = "sent" /\ ~muted => inbox # {}
  /\ inbox # {} => alert # "none" /\ stored \subseteq inbox \cup deleted
  /\ alert = "sent" => delivered = stored
  /\ alert # "sent" => delivered = {}

\* An invocation that claimed an alert claimed a sealed one; what it has
\* composed leaves no promise out; what it reports is in the user's inbox.
WorkersMailed ==
  \A w \in Workers :
    /\ pc[w] \in PreAccept \cup Reporting => alert # "none"
    /\ pc[w] \in PostMail => inbox # {}
    /\ pc[w] \in Composed =>
         payload[w] # {} /\ stored \subseteq payload[w] \cup deleted

Mailed == LedgerMailed /\ WorkersMailed

-----------------------------------------------------------------------------
(* One delivery                                                            *)

\* What an invocation does next, when it is not about to report a failure.
Failing == {"docFailed", "erroring"}

\* A step that leaves dispatch, documents and run alone keeps Once.
LEMMA OnceFrame ==
  ASSUME Once, UNCHANGED <<dispatch, dispatches, docStatus, complete, runStatus>>,
         alert' # "none" => alert # "none",
         \A w \in Workers : pc'[w] \in Failing => pc[w] \in Failing
  PROVE  Once'
BY DEF Once, Failing, SuccessMeansDone, Failed

\* An invocation that moves to any other step reports no new failure.
LEMMA NotFailing ==
  ASSUME WorkersTyped, NEW w \in Workers, NEW step, step \notin Failing,
         pc' = [pc EXCEPT ![w] = step]
  PROVE  \A v \in Workers : pc'[v] \in Failing => pc[v] \in Failing
BY DEF WorkersTyped

\* Only a change to success seals.
LEMMA SetRunSeals ==
  ASSUME NEW status, SetRun(status)
  PROVE  /\ runStatus' = status
         /\ alert' # alert =>
              /\ status = "success" /\ runStatus # "success" /\ alert = "none"
              /\ \E d \in Docs : docStatus[d] # "none"
BY DEF SetRun, SealedBy

\* The dispatch invocation and the sweep of stale runs keep Once.
LEMMA OnceDispatch ==
  ASSUME MaxDispatches <= 1, TypeOK, Once, DispatchStep \/ ReconcileStale
  PROVE  Once'
<1>0. /\ MaxDispatches \in {0, 1} /\ dispatches \in 0..MaxDispatches
      /\ dispatch \in Dispatches
  BY CivicAssumption DEF TypeOK, RunTyped
<1>a. DocsTyped
  BY DEF TypeOK
<1> USE DEF Once, SuccessMeansDone
<1>1. CASE Deliver
  <2>1. dispatch = "idle" /\ dispatch' = "claimed" /\ dispatches' = MaxDispatches
    BY <1>0, <1>1 DEF Deliver
  <2> QED BY <1>1, <2>1
      DEF Deliver, runVars, docVars, ledgerVars, workerVars, Failed
<1>2. CASE Begin
  <2>1. runStatus' = "running" /\ alert' = alert /\ alert = "none"
    BY <1>2, SetRunSeals DEF Begin
  <2> QED BY <1>2, <2>1 DEF Begin, docVars, workerVars, Failed
<1>3. ASSUME NEW d \in Docs, QueueDocument(d) PROVE Once'
  <2>1. \A e \in Docs : docStatus'[e] = IF e = d THEN "pending" ELSE docStatus[e]
    BY <1>a, <1>3 DEF QueueDocument, DocsTyped
  <2>2. Failed(docStatus) => Failed(docStatus')
    BY <1>3, <2>1 DEF QueueDocument, Failed
  <2>3. runStatus # "success" /\ ~complete
    BY <1>3 DEF QueueDocument
  <2> QED BY <1>3, <2>2, <2>3 DEF QueueDocument, runVars, ledgerVars, workerVars
<1>4. CASE EndEmpty
  <2>1. UNCHANGED alert
    BY <1>4, SetRunSeals DEF EndEmpty
  <2> QED BY <1>4, <2>1 DEF EndEmpty, docVars, workerVars, Failed
<1>5. CASE CompleteDispatch
  <2>1. runStatus # "success" /\ alert = "none"
    BY <1>5 DEF CompleteDispatch
  <2>2. runStatus' = "success" => ~Open(docStatus) /\ ~Failed(docStatus)
    BY <1>5, <2>1, SetRunSeals DEF CompleteDispatch
  <2>3. ~Open(docStatus) /\ ~Failed(docStatus) =>
          \A d \in Docs : docStatus[d] \in {"none", "done"}
    BY <1>a DEF Open, Failed, DocsTyped
  <2>4. alert' # "none" => runStatus' = "success"
    BY <1>5, <2>1, SetRunSeals DEF CompleteDispatch
  <2>5. \A w \in Workers : pc'[w] \in Failing => Failed(docStatus)'
    BY <1>5 DEF CompleteDispatch, docVars, workerVars, Failed, Failing
  <2> QED BY <1>5, <2>2, <2>3, <2>4, <2>5
      DEF CompleteDispatch, docVars, Failing
<1>6. CASE DispatchFails
  <2>1. runStatus' = "error" /\ alert' = alert /\ alert = "none"
    BY <1>6, SetRunSeals DEF DispatchFails
  <2> QED BY <1>6, <2>1 DEF DispatchFails, docVars, workerVars, Failed
<1>7. CASE DispatchDies
  BY <1>7 DEF DispatchDies, runVars, docVars, ledgerVars, workerVars, Failed
<1>8. CASE ReconcileStale
  <2>1. runStatus' = "error" /\ alert' = alert /\ alert = "none"
    BY <1>8, SetRunSeals DEF ReconcileStale
  <2> QED BY <1>8, <2>1
      DEF ReconcileStale, procVars, docVars, workerVars, Failed
<1>9. CASE ReportFailed
  <2>1. runStatus' = "error" /\ alert' = alert /\ alert = "none"
    BY <1>9, SetRunSeals DEF ReportFailed
  <2> QED BY <1>9, <2>1 DEF ReportFailed, docVars, workerVars, Failed
<1> QED BY <1>1, <1>2, <1>3, <1>4, <1>5, <1>6, <1>7, <1>8, <1>9 DEF DispatchStep

\* The failsafe and a claim behind it keep Once.
LEMMA OnceSweep ==
  ASSUME TypeOK, Once, NEW C \in SUBSET Claimable, NEW w, SweepAndClaim(C, w),
         UNCHANGED <<procVars, complete>>,
         \A v \in Workers : pc'[v] \in Failing => pc[v] \in Failing
  PROVE  Once'
<1> USE DEF Once, SuccessMeansDone
<1>1. ASSUME NEW d \in Docs, docStatus[d] \in {"none", "done", "failed"}
      PROVE  docStatus'[d] = docStatus[d]
  <2>1. Swept(d) = docStatus[d]
    BY <1>1 DEF Swept, Lapsed
  <2>2. d \notin C
    BY <1>1, <2>1 DEF Claimable
  <2> QED BY <2>1, <2>2 DEF SweepAndClaim
<1>2. Failed(docStatus) => Failed(docStatus)'
  BY <1>1 DEF Failed
<1>3. \/ UNCHANGED <<runStatus, alert>>
      \/ runStatus' = "error" /\ alert' = "none"
  BY SetRunSeals DEF SweepAndClaim, SweepRun
<1>4. SuccessMeansDone'
  BY <1>1, <1>3
<1> QED BY <1>1, <1>2, <1>3, <1>4 DEF procVars, Failing

\* While a document is processed its run is neither a success nor sealed, and
\* civic-execute has queued it.
LEMMA ProcessedRun ==
  ASSUME Once, NEW d \in Docs, docStatus[d] = "processing"
  PROVE  /\ dispatch \notin {"idle", "claimed", "queuing"}
         /\ runStatus # "success" /\ alert = "none"
BY DEF Once, SuccessMeansDone

\* The steps of the document queue keep Once.
LEMMA OnceDocument ==
  ASSUME TypeOK, Holding, Once, NEW w \in Workers, DocumentStep(w)
  PROVE  Once'
<1>0. WorkersTyped /\ DocsTyped
  BY DEF TypeOK
<1>1. CASE ClaimDocument(w)
  <2>1. \A v \in Workers : pc'[v] \in Failing => pc[v] \in Failing
    BY <1>0, <1>1, NotFailing DEF ClaimDocument, Leave, Failing
  <2> QED BY <1>1, <2>1, OnceSweep DEF ClaimDocument
<1>2. ASSUME NEW i \in Items, PersistItem(w, i) PROVE Once'
  BY <1>2, OnceFrame
  DEF PersistItem, runVars, procVars, docVars, ledgerVars, workerVars
<1>3. CASE FinalizeDocument(w)
  <2>1. CASE OwnsDocument(w)
    <3> DEFINE status == [docStatus EXCEPT ![doc[w]] = "done"]
    <3>1. doc[w] \in Docs /\ docStatus[doc[w]] = "processing"
      BY <1>3, <2>1 DEF FinalizeDocument, Holding, OwnsDocument
    <3>2. /\ docStatus' = status /\ SetRun(SettledStatus(status))
          /\ pc' = [pc EXCEPT ![w] = "draining"]
      BY <1>3, <2>1 DEF FinalizeDocument, CloseDocument, GoTo
    <3>3. /\ dispatch \notin {"idle", "claimed", "queuing"}
          /\ runStatus # "success" /\ alert = "none"
      BY <3>1, ProcessedRun
    <3>4. \A d \in Docs : status[d] = IF d = doc[w] THEN "done" ELSE docStatus[d]
      BY <1>0 DEF DocsTyped
    <3>5. Failed(docStatus) => Failed(docStatus')
      BY <3>1, <3>2, <3>4 DEF Failed
    <3>6. SettledStatus(status) = "success" =>
            complete /\ \A d \in Docs : status[d] \in {"none", "done"}
      BY <1>0, <3>3, <3>4 DEF SettledStatus, Open, Failed, DocsTyped
    <3>7. runStatus' = SettledStatus(status)
          /\ (alert' # "none" => SettledStatus(status) = "success")
      BY <3>2, <3>3, SetRunSeals
    <3>8. SuccessMeansDone'
      BY <3>2, <3>6, <3>7 DEF SuccessMeansDone
    <3>9. \A v \in Workers : pc'[v] \in Failing => pc[v] \in Failing
      BY <1>0, <3>2, NotFailing DEF Failing
    <3>10. UNCHANGED <<dispatch, dispatches, complete>>
      BY <1>3 DEF FinalizeDocument, procVars
    <3>11. dispatch # "ended" => runStatus' # "success"
      BY <3>3, <3>6, <3>7, <1>0 DEF Once, TypeOK, RunTyped, Dispatches
    <3> HIDE DEF status
    <3> QED BY <3>3, <3>5, <3>7, <3>8, <3>9, <3>10, <3>11 DEF Once, Failing
  <2>2. CASE ~OwnsDocument(w)
    <3>1. \A v \in Workers : pc'[v] \in Failing => pc[v] \in Failing
      BY <1>0, <1>3, <2>2, NotFailing DEF FinalizeDocument, Leave, Failing
    <3> QED BY <1>3, <2>2, <3>1, OnceFrame
        DEF FinalizeDocument, procVars, docVars
  <2> QED BY <2>1, <2>2
<1>4. CASE FailDocument(w)
  <2>1. CASE OwnsDocument(w)
    <3>1. doc[w] \in Docs /\ docStatus[doc[w]] = "processing"
      BY <1>4, <2>1 DEF FailDocument, Holding, OwnsDocument
    <3>2. /\ dispatch \notin {"idle", "claimed", "queuing"}
          /\ runStatus # "success" /\ alert = "none"
      BY <3>1, ProcessedRun
    <3>3. \E status \in {"failed", "pending"} :
            /\ docStatus' = [docStatus EXCEPT ![doc[w]] = status]
            /\ pc' = [pc EXCEPT ![w] =
                        IF status = "failed" THEN "docFailed" ELSE "gone"]
      BY <1>4, <2>1 DEF FailDocument, CloseDocument, GoTo, Leave
    <3>4. Failed(docStatus) => Failed(docStatus')
      BY <1>0, <3>1, <3>3 DEF Failed, DocsTyped
    <3>5. pc'[w] \in Failing => Failed(docStatus')
      BY <1>0, <3>1, <3>3 DEF Failed, DocsTyped, WorkersTyped, Failing
    <3>6. \A v \in Workers : pc'[v] \in Failing => Failed(docStatus')
      BY <1>0, <3>3, <3>4, <3>5 DEF Once, WorkersTyped, Failing
    <3>7. UNCHANGED <<runStatus, complete, dispatch, dispatches, alert>>
      BY <1>4 DEF FailDocument, runVars, procVars, ledgerVars
    <3> QED BY <3>2, <3>6, <3>7 DEF Once, SuccessMeansDone, Failing
  <2>2. CASE ~OwnsDocument(w)
    <3>1. \A v \in Workers : pc'[v] \in Failing => pc[v] \in Failing
      BY <1>0, <1>4, <2>2, NotFailing DEF FailDocument, Leave, Failing
    <3> QED BY <1>4, <2>2, <3>1, OnceFrame
        DEF FailDocument, runVars, procVars, docVars, ledgerVars
  <2> QED BY <2>1, <2>2
<1>5. CASE CheckSiblings(w)
  <2>1. \A v \in Workers : pc'[v] \in Failing => pc[v] \in Failing
    BY <1>0, <1>5 DEF CheckSiblings, Leave, GoTo, Failing, WorkersTyped
  <2> QED BY <1>5, <2>1, OnceFrame
      DEF CheckSiblings, runVars, procVars, docVars, ledgerVars
<1>6. CASE MarkRunError(w)
  <2>1. Failed(docStatus)
    BY <1>6 DEF MarkRunError, Once
  <2>2. runStatus # "success" /\ alert = "none"
    BY <2>1 DEF Once, SuccessMeansDone, Failed
  <2>3. runStatus' = "error" /\ alert' = "none"
    BY <1>6, <2>2, SetRunSeals DEF MarkRunError
  <2>4. \A v \in Workers : pc'[v] \in Failing => pc[v] \in Failing
    BY <1>0, <1>6, NotFailing DEF MarkRunError, Leave, Failing
  <2> QED BY <1>6, <2>3, <2>4
      DEF MarkRunError, procVars, docVars, Once, SuccessMeansDone, Failing, Failed
<1> QED BY <1>1, <1>2, <1>3, <1>4, <1>5, <1>6 DEF DocumentStep

\* So does every other step of a worker.
LEMMA OnceAlert ==
  ASSUME TypeOK, Once, NEW w \in Workers,
         AlertStep(w) \/ Start(w) \/ WorkerDies(w)
  PROVE  Once'
<1>1. UNCHANGED <<dispatch, dispatches, docStatus, complete, runStatus>>
  BY DEF AlertStep, ClaimAlert, PassDrain, ComposeAlert, MarkAttempted,
         CheckSent, SkipMail, SendMail, FlagSent, MarkAccepted, NoteResult,
         FinalizeSent, AlertThrows, ReleaseAlert, NoteFailed, Start, WorkerDies,
         runVars, procVars, docVars
<1>2. alert' # "none" => alert # "none"
  BY DEF AlertStep, ClaimAlert, PassDrain, ComposeAlert, MarkAttempted,
         CheckSent, SkipMail, SendMail, FlagSent, MarkAccepted, NoteResult,
         FinalizeSent, AlertThrows, ReleaseAlert, NoteFailed, Start, WorkerDies,
         ledgerVars, Due
<1>3. \E step : step \notin Failing /\ pc' = [pc EXCEPT ![w] = step]
  <2>1. CASE ClaimAlert(w)
    <3>1. CASE accepted
      BY <2>1, <3>1 DEF ClaimAlert, Failing
    <3>2. CASE ~accepted
      BY <2>1, <3>2 DEF ClaimAlert, Failing
    <3> QED BY <3>1, <3>2
  <2>2. CASE ComposeAlert(w)
    BY <2>2 DEF ComposeAlert, Failing
  <2>3. CASE PassDrain(w) \/ NoteFailed(w) \/ WorkerDies(w)
    BY <2>3 DEF PassDrain, NoteFailed, WorkerDies, AfterDrain, Leave, Failing
  <2>4. CASE MarkAttempted(w) \/ CheckSent(w) \/ SkipMail(w) \/ SendMail(w)
             \/ FlagSent(w) \/ Start(w)
    BY <2>4 DEF MarkAttempted, CheckSent, SkipMail, SendMail, FlagSent, Start,
                GoTo, Failing
  <2>5. CASE MarkAccepted(w) \/ NoteResult(w) \/ FinalizeSent(w)
    BY <2>5 DEF MarkAccepted, NoteResult, FinalizeSent, AfterDrain, GoTo,
                Failing
  <2>6. CASE AlertThrows(w) \/ ReleaseAlert(w)
    BY <2>6 DEF AlertThrows, ReleaseAlert, GoTo, Failing
  <2> QED BY <2>1, <2>2, <2>3, <2>4, <2>5, <2>6 DEF AlertStep
<1>4. \A v \in Workers : pc'[v] \in Failing => pc[v] \in Failing
  BY <1>3, NotFailing DEF TypeOK
<1> QED BY <1>1, <1>2, <1>4, OnceFrame

\* Every step keeps Once.
LEMMA OnceStep ==
  ASSUME MaxDispatches <= 1, TypeOK, Holding, Once, [Next]_vars
  PROVE  Once'
<1>1. CASE Failsafe
  BY <1>1, OnceSweep DEF Failsafe, workerVars
<1>2. CASE \/ \E i \in Items : DeleteUnit(i)
           \/ \E d \in Docs : ExpireDocument(d)
           \/ ExpireAlert
           \/ UNCHANGED vars
  BY <1>2, OnceFrame
  DEF DeleteUnit, ExpireDocument, ExpireAlert, vars, runVars, procVars, docVars,
      ledgerVars, workerVars
<1> QED BY <1>1, <1>2, OnceDispatch, OnceDocument, OnceAlert DEF Next

-----------------------------------------------------------------------------
(* What was mailed                                                         *)

\* A step that only moves one invocation has to look at that one alone.
LEMMA MailedGoTo ==
  ASSUME WorkersTyped, WorkersMailed, NEW w \in Workers, NEW step,
         pc' = [pc EXCEPT ![w] = step], UNCHANGED <<stored, deleted>>,
         \A v \in Workers \ {w} : payload'[v] = payload[v],
         alert # "none" => alert' # "none",
         inbox # {} => inbox' # {},
         step \in PreAccept \cup Reporting => alert' # "none",
         step \in PostMail => inbox' # {},
         step \in Composed =>
           payload'[w] # {} /\ stored \subseteq payload'[w] \cup deleted
  PROVE  WorkersMailed'
<1>1. \A v \in Workers : pc'[v] = IF v = w THEN step ELSE pc[v]
  BY DEF WorkersTyped
<1> QED BY <1>1 DEF WorkersMailed

\* A step that leaves mail, promises and flags alone, at most sealing the
\* delivery or taking a note back, keeps the ledger.
LEMMA LedgerFrame ==
  ASSUME LedgerMailed, UNCHANGED <<sentFlag, accepted, muted, inbox, itemVars>>,
         noted' => noted,
         alert' = alert \/ (alert = "none" /\ alert' = "pending")
  PROVE  LedgerMailed'
BY DEF LedgerMailed, itemVars

\* The same for the invocations.
LEMMA WorkersFrame ==
  ASSUME WorkersMailed, UNCHANGED <<pc, payload, inbox, stored>>,
         deleted \subseteq deleted', alert # "none" => alert' # "none"
  PROVE  WorkersMailed'
BY DEF WorkersMailed

\* The trigger seals a delivery or leaves its state alone, whatever it is told.
LEMMA SetRunFrame ==
  ASSUME NEW status, SetRun(status)
  PROVE  alert' = alert \/ (alert = "none" /\ alert' = "pending")
BY DEF SetRun, SealedBy

\* Neither dispatch nor failsafe touches a mail.
LEMMA MailedRun ==
  ASSUME Mailed, DispatchStep \/ ReconcileStale \/ Failsafe
  PROVE  Mailed'
<1>1. UNCHANGED <<sentFlag, accepted, muted, inbox, itemVars, workerVars>>
  BY DEF DispatchStep, Deliver, Begin, QueueDocument, EndEmpty,
         CompleteDispatch, DispatchFails, DispatchDies, ReportFailed, ReconcileStale,
         Failsafe, runVars, ledgerVars, leaseVars
<1>2. noted' => noted
  BY DEF DispatchStep, Deliver, Begin, QueueDocument, EndEmpty,
         CompleteDispatch, DispatchFails, DispatchDies, ReportFailed, ReconcileStale,
         Failsafe, SweepAndClaim, SweepRun, runVars
<1>3. alert' = alert \/ (alert = "none" /\ alert' = "pending")
  BY SetRunFrame
  DEF DispatchStep, Deliver, Begin, QueueDocument, EndEmpty, CompleteDispatch,
      DispatchFails, DispatchDies, ReportFailed, ReconcileStale, Failsafe, SweepAndClaim,
      SweepRun, ledgerVars
<1> QED BY <1>1, <1>2, <1>3, LedgerFrame, WorkersFrame
    DEF Mailed, workerVars, itemVars

\* Promises are stored before the run can be sealed; nothing else the document
\* queue does bears on a mail.
LEMMA MailedDocument ==
  ASSUME TypeOK, Holding, Once, Mailed, NEW w \in Workers, DocumentStep(w)
  PROVE  Mailed'
<1>0. WorkersTyped
  BY DEF TypeOK
<1>1. ASSUME NEW i \in Items, PersistItem(w, i) PROVE Mailed'
  <2>1. alert = "none"
    BY <1>1, ProcessedRun DEF PersistItem, OwnsDocument, Holding
  <2>2. \A v \in Workers : pc[v] \notin PreAccept \cup Reporting
    BY <2>1 DEF Mailed, WorkersMailed
  <2>3. inbox = {} /\ delivered = {}
    BY <2>1 DEF Mailed, LedgerMailed
  <2>4. LedgerMailed'
    BY <1>1, <2>1, <2>3
    DEF PersistItem, Mailed, LedgerMailed, runVars, ledgerVars
  <2>5. Composed \cup PostMail \subseteq PreAccept \cup Reporting
    BY DEF Composed, PostMail, PreAccept, Submitting
  <2>6. WorkersMailed'
    BY <1>1, <2>2, <2>5 DEF PersistItem, WorkersMailed, workerVars
  <2> QED BY <2>4, <2>6 DEF Mailed
<1>2. CASE ~\E i \in Items : PersistItem(w, i)
  <2>1. UNCHANGED <<sentFlag, accepted, muted, inbox, itemVars>>
    BY <1>2
    DEF DocumentStep, ClaimDocument, FinalizeDocument, FailDocument,
        CheckSiblings, MarkRunError, runVars, ledgerVars, leaseVars
  <2>2. noted' => noted
    BY <1>2
    DEF DocumentStep, ClaimDocument, FinalizeDocument, FailDocument,
        CheckSiblings, MarkRunError, SweepAndClaim, SweepRun, runVars
  <2>3. alert' = alert \/ (alert = "none" /\ alert' = "pending")
    BY <1>2, SetRunFrame
    DEF DocumentStep, ClaimDocument, FinalizeDocument, FailDocument,
        CheckSiblings, MarkRunError, SweepAndClaim, SweepRun, ledgerVars
  <2>4. \E step : /\ step \notin PreAccept \cup Reporting \cup PostMail \cup Composed
                  /\ pc' = [pc EXCEPT ![w] = step]
    <3> USE DEF PreAccept, PostMail, Composed, Submitting, Skipping, Reporting
    <3>1. CASE ClaimDocument(w)
      BY <3>1 DEF ClaimDocument, Leave
    <3>2. CASE FinalizeDocument(w)
      BY <3>2 DEF FinalizeDocument, Leave, GoTo
    <3>3. CASE FailDocument(w)
      BY <3>3 DEF FailDocument, Leave, GoTo
    <3>4. CASE CheckSiblings(w) \/ MarkRunError(w)
      BY <3>4 DEF CheckSiblings, MarkRunError, Leave, GoTo
    <3> QED BY <1>2, <3>1, <3>2, <3>3, <3>4 DEF DocumentStep
  <2>5. \A v \in Workers \ {w} : payload'[v] = payload[v]
    BY <1>0, <1>2
    DEF DocumentStep, ClaimDocument, FinalizeDocument, FailDocument,
        CheckSiblings, MarkRunError, Leave, GoTo, WorkersTyped
  <2> QED BY <1>0, <2>1, <2>2, <2>3, <2>4, <2>5, LedgerFrame, MailedGoTo
      DEF Mailed, itemVars
<1> QED BY <1>1, <1>2

\* A step of the ledger that keeps the mail, its traces and the delivery's end.
LEMMA LedgerAlert ==
  ASSUME LedgerMailed, UNCHANGED <<inbox, muted, itemVars>>,
         sentFlag' \/ noted' \/ accepted' => inbox # {},
         alert' = alert \/ (/\ alert \notin {"none", "sent"}
                            /\ alert' \notin {"none", "sent"})
  PROVE  LedgerMailed'
BY DEF LedgerMailed, itemVars

\* The steps of an invocation around the alert keep what was mailed.
LEMMA MailedAlert ==
  ASSUME TypeOK, Mailed, NEW w \in Workers, AlertStep(w)
  PROVE  Mailed'
<1>0. WorkersTyped /\ LedgerMailed /\ WorkersMailed
  BY DEF TypeOK, Mailed
<1> USE DEF PreAccept, PostMail, Composed, Submitting, Skipping, Reporting
<1>1. CASE ClaimAlert(w)
  <2>1. UNCHANGED <<inbox, muted, itemVars, sentFlag, noted, accepted, payload>>
    BY <1>1 DEF ClaimAlert, runVars
  <2>2. alert \notin {"none", "sent"} /\ alert' \notin {"none", "sent"}
    BY <1>1 DEF ClaimAlert, Due
  <2>3. LedgerMailed'
    BY <1>0, <2>1, <2>2, LedgerAlert DEF LedgerMailed
  <2>4. CASE accepted
    <3>1. inbox' # {} /\ pc' = [pc EXCEPT ![w] = "noting"]
      BY <1>0, <1>1, <2>1, <2>4 DEF ClaimAlert, LedgerMailed
    <3> QED BY <1>0, <2>1, <2>2, <2>3, <3>1, MailedGoTo DEF Mailed, itemVars
  <2>5. CASE ~accepted
    <3>1. pc' = [pc EXCEPT ![w] = "composing"]
      BY <1>1, <2>5 DEF ClaimAlert
    <3> QED BY <1>0, <2>1, <2>2, <2>3, <3>1, MailedGoTo DEF Mailed, itemVars
  <2> QED BY <2>4, <2>5
<1>2. CASE PassDrain(w) \/ NoteFailed(w)
  <2>0. /\ UNCHANGED <<sentFlag, accepted, alert, muted, inbox, itemVars>>
        /\ noted' => noted
    <3>1. CASE PassDrain(w)
      BY <3>1 DEF PassDrain, runVars, ledgerVars
    <3>2. CASE NoteFailed(w)
      <4>1. noted' = FALSE \/ noted' = noted
        BY <3>2 DEF NoteFailed
      <4>2. UNCHANGED <<sentFlag, accepted, alert, muted, inbox, itemVars>>
        BY <3>2 DEF NoteFailed, ledgerVars
      <4> QED BY <4>1, <4>2
    <3> QED BY <1>2, <3>1, <3>2
  <2>1. LedgerMailed'
    BY <1>0, <2>0, LedgerFrame DEF Mailed
  <2>2. \E step \in {"drained", "gone"} : pc' = [pc EXCEPT ![w] = step]
    BY <1>2 DEF PassDrain, NoteFailed, AfterDrain
  <2>3. /\ \A v \in Workers \ {w} : payload'[v] = payload[v]
        /\ UNCHANGED <<alert, inbox, stored, deleted>>
    BY <1>0, <1>2
    DEF PassDrain, NoteFailed, AfterDrain, WorkersTyped, ledgerVars, itemVars
  <2> QED BY <1>0, <2>1, <2>2, <2>3, MailedGoTo DEF Mailed
<1>3. CASE ComposeAlert(w)
  <2> DEFINE rows == (stored \ delivered) \ deleted
  <2>1. /\ LedgerMailed' /\ UNCHANGED <<alert, inbox, itemVars>>
    BY <1>0, <1>3, LedgerAlert DEF ComposeAlert, LedgerMailed, runVars, ledgerVars
  <2>2. alert # "none"
    BY <1>0, <1>3 DEF ComposeAlert, WorkersMailed
  <2>3. \A v \in Workers : payload'[v] = IF v = w THEN rows ELSE payload[v]
    BY <1>0, <1>3 DEF ComposeAlert, WorkersTyped
  <2>4. CASE rows = {}
    <3>1. pc' = [pc EXCEPT ![w] = "muting"]
      BY <1>3, <2>4 DEF ComposeAlert
    <3> QED BY <1>0, <2>1, <2>2, <2>3, <3>1, MailedGoTo DEF Mailed, itemVars
  <2>5. CASE rows # {}
    <3>1. pc' = [pc EXCEPT ![w] = "attempted"]
      BY <1>3, <2>5 DEF ComposeAlert
    <3>2. stored \subseteq rows \cup deleted
      BY <1>0, <2>5 DEF LedgerMailed
    <3> QED BY <1>0, <2>1, <2>2, <2>3, <2>5, <3>1, <3>2, MailedGoTo
        DEF Mailed, itemVars
  <2> QED BY <2>4, <2>5
<1>4. CASE MarkAttempted(w) \/ CheckSent(w) \/ SkipMail(w) \/ AlertThrows(w)
  <2>1. /\ UNCHANGED <<sentFlag, alert, inbox, itemVars, payload>>
        /\ LedgerMailed'
    BY <1>0, <1>4, LedgerAlert
    DEF MarkAttempted, CheckSent, SkipMail, AlertThrows, GoTo, LedgerMailed,
        runVars, ledgerVars
  <2>2. CASE MarkAttempted(w)
    BY <1>0, <2>1, <2>2, MailedGoTo
    DEF MarkAttempted, GoTo, WorkersMailed, Mailed, itemVars
  <2>3. CASE CheckSent(w)
    <3>1. CASE sentFlag \/ noted
      BY <1>0, <2>1, <2>3, <3>1, MailedGoTo
      DEF CheckSent, GoTo, LedgerMailed, WorkersMailed, Mailed, itemVars
    <3>2. CASE ~(sentFlag \/ noted)
      BY <1>0, <2>1, <2>3, <3>2, MailedGoTo
      DEF CheckSent, GoTo, WorkersMailed, Mailed, itemVars
    <3> QED BY <3>1, <3>2
  <2>4. CASE SkipMail(w)
    BY <1>0, <2>1, <2>4, MailedGoTo
    DEF SkipMail, GoTo, WorkersMailed, Mailed, itemVars
  <2>5. CASE AlertThrows(w)
    <3>1. CASE pc[w] \in Submitting \cup Skipping /\ GoTo(w, "releasing")
      BY <1>0, <2>1, <3>1, MailedGoTo DEF GoTo, WorkersMailed, Mailed, itemVars
    <3>2. CASE GoTo(w, "mailFailed")
      BY <1>0, <2>1, <3>2, MailedGoTo DEF GoTo, Mailed, itemVars
    <3> QED BY <2>5, <3>1, <3>2 DEF AlertThrows
  <2> QED BY <1>4, <2>2, <2>3, <2>4, <2>5
<1>5. CASE SendMail(w)
  <2>1. /\ alert # "none" /\ payload[w] # {}
        /\ stored \subseteq payload[w] \cup deleted
    BY <1>0, <1>5 DEF SendMail, WorkersMailed
  <2>2. UNCHANGED <<sentFlag, noted, accepted, alert, muted, itemVars, payload>>
    BY <1>5 DEF SendMail, GoTo, runVars, ledgerVars
  <2>3. \/ inbox' = inbox
        \/ inbox = {} /\ inbox' = payload[w]
    BY <1>5 DEF SendMail
  <2>4. LedgerMailed'
    BY <1>0, <2>1, <2>2, <2>3 DEF LedgerMailed, itemVars
  <2>5. \/ inbox' # {} /\ pc' = [pc EXCEPT ![w] = "flagging"]
        \/ pc' = [pc EXCEPT ![w] = "releasing"]
    BY <1>5, <2>1 DEF SendMail, GoTo
  <2> QED BY <1>0, <2>1, <2>2, <2>3, <2>4, <2>5, MailedGoTo DEF Mailed, itemVars
<1>6. CASE FlagSent(w)
  <2>1. /\ UNCHANGED <<noted, accepted, alert, muted, inbox, itemVars, payload>>
        /\ alert # "none" /\ inbox # {} /\ pc' = [pc EXCEPT ![w] = "accepting"]
    BY <1>0, <1>6 DEF FlagSent, GoTo, ledgerVars, WorkersMailed
  <2>2. LedgerMailed'
    BY <1>0, <2>1, LedgerAlert
  <2> QED BY <1>0, <2>1, <2>2, MailedGoTo DEF Mailed, itemVars
<1>7. CASE MarkAccepted(w)
  <2>1. /\ UNCHANGED <<sentFlag, noted, muted, inbox, itemVars, payload>>
        /\ alert # "none" /\ inbox # {}
    BY <1>0, <1>7 DEF MarkAccepted, GoTo, runVars, WorkersMailed
  <2>2. \/ alert = "sending" /\ alert' = "provider_accepted"
        \/ UNCHANGED <<alert, accepted>>
    BY <1>7 DEF MarkAccepted
  <2>3. LedgerMailed'
    BY <1>0, <2>1, <2>2, LedgerAlert
  <2>4. \E step \in {"noting", "mailFailed"} : pc' = [pc EXCEPT ![w] = step]
    BY <1>7 DEF MarkAccepted, GoTo
  <2> QED BY <1>0, <2>1, <2>2, <2>3, <2>4, MailedGoTo DEF Mailed, itemVars
<1>8. CASE NoteResult(w)
  <2>1. /\ UNCHANGED <<sentFlag, accepted, alert, muted, inbox, itemVars, payload>>
        /\ alert # "none" /\ (noted' => inbox # {})
    BY <1>0, <1>8 DEF NoteResult, GoTo, ledgerVars, WorkersMailed
  <2>2. LedgerMailed'
    BY <1>0, <2>1, LedgerAlert DEF LedgerMailed
  <2>3. \/ inbox # {} /\ pc' = [pc EXCEPT ![w] = "finalizing"]
        \/ pc' = [pc EXCEPT ![w] = "silencing"]
    BY <1>0, <1>8 DEF NoteResult, GoTo, WorkersMailed
  <2> QED BY <1>0, <2>1, <2>2, <2>3, MailedGoTo DEF Mailed, itemVars
<1>9. CASE FinalizeSent(w)
  <2>1. /\ UNCHANGED <<sentFlag, noted, accepted, inbox, stored, deleted>>
        /\ alert # "none"
    BY <1>0, <1>9 DEF FinalizeSent, runVars, WorkersMailed
  <2>2. CASE alert \in {"sending", "provider_accepted"} /\ HoldsAlert(w)
    <3>1. /\ alert' = "sent" /\ delivered' = stored /\ AfterDrain(w)
          /\ ~muted' => inbox # {}
      BY <1>0, <1>9, <2>2 DEF FinalizeSent, WorkersMailed
    <3>2. LedgerMailed'
      BY <1>0, <2>1, <3>1 DEF LedgerMailed
    <3>3. \E step \in {"drained", "gone"} : pc' = [pc EXCEPT ![w] = step]
      BY <3>1 DEF AfterDrain
    <3>4. \A v \in Workers \ {w} : payload'[v] = payload[v]
      BY <1>0, <3>1 DEF AfterDrain, WorkersTyped
    <3> QED BY <1>0, <2>1, <3>1, <3>2, <3>3, <3>4, MailedGoTo DEF Mailed
  <2>3. CASE ~(alert \in {"sending", "provider_accepted"} /\ HoldsAlert(w))
    <3>1. UNCHANGED <<alert, muted, delivered, payload>>
      BY <1>9, <2>3 DEF FinalizeSent, GoTo
    <3>2. LedgerMailed'
      BY <1>0, <2>1, <3>1 DEF LedgerMailed
    <3>3. \E step \in {"releasing", "mailFailed"} : pc' = [pc EXCEPT ![w] = step]
      BY <1>9, <2>3 DEF FinalizeSent, GoTo
    <3> QED BY <1>0, <2>1, <3>1, <3>2, <3>3, MailedGoTo DEF Mailed
  <2> QED BY <2>2, <2>3
<1>10. CASE ReleaseAlert(w)
  <2>1. /\ UNCHANGED <<sentFlag, noted, accepted, inbox, itemVars, payload>>
        /\ pc' = [pc EXCEPT ![w] = "mailFailed"]
    BY <1>10 DEF ReleaseAlert, GoTo, runVars
  <2>2. \/ UNCHANGED <<alert, muted>>
        \/ alert \in {"sending", "provider_accepted"} /\ alert' = "failed"
    BY <1>10 DEF ReleaseAlert
  <2>3. LedgerMailed'
    BY <1>0, <2>1, <2>2 DEF LedgerMailed, itemVars
  <2> QED BY <1>0, <2>1, <2>2, <2>3, MailedGoTo DEF Mailed, itemVars
<1> QED
  BY <1>1, <1>2, <1>3, <1>4, <1>5, <1>6, <1>7, <1>8, <1>9, <1>10 DEF AlertStep

\* Every step keeps what was mailed.
LEMMA MailedStep ==
  ASSUME TypeOK, Holding, Once, Mailed, [Next]_vars
  PROVE  Mailed'
<1>0. WorkersTyped
  BY DEF TypeOK
<1>1. ASSUME NEW w \in Workers, Start(w) \/ WorkerDies(w) PROVE Mailed'
  <2>1. /\ UNCHANGED <<sentFlag, noted, accepted, alert, muted, inbox, itemVars>>
        /\ \A v \in Workers \ {w} : payload'[v] = payload[v]
    BY <1>0, <1>1
    DEF Start, WorkerDies, Leave, GoTo, WorkersTyped, runVars, ledgerVars
  <2>2. LedgerMailed'
    BY <2>1, LedgerFrame DEF Mailed
  <2>3. \E step \in {"ready", "gone"} : pc' = [pc EXCEPT ![w] = step]
    BY <1>1 DEF Start, WorkerDies, Leave, GoTo
  <2> QED BY <1>0, <2>1, <2>2, <2>3, MailedGoTo
      DEF Mailed, itemVars, PreAccept, PostMail, Composed, Submitting, Skipping,
          Reporting
<1>2. CASE \E i \in Items : DeleteUnit(i)
  <2>1. /\ UNCHANGED <<stored, delivered, runVars, ledgerVars, inbox, workerVars>>
        /\ deleted \subseteq deleted'
    BY <1>2 DEF DeleteUnit
  <2> QED BY <2>1, WorkersFrame
      DEF Mailed, LedgerMailed, runVars, ledgerVars, workerVars
<1>3. CASE \/ \E d \in Docs : ExpireDocument(d)
           \/ ExpireAlert
           \/ UNCHANGED vars
  <2>1. UNCHANGED <<sentFlag, noted, accepted, alert, muted, inbox, itemVars,
                    pc, payload>>
    BY <1>3
    DEF ExpireDocument, ExpireAlert, vars, runVars, ledgerVars, workerVars
  <2> QED BY <2>1, LedgerFrame, WorkersFrame DEF Mailed, itemVars
<1> QED BY <1>1, <1>2, <1>3, MailedRun, MailedDocument, MailedAlert DEF Next

\* Only complete_civic_dispatch and the finalization of the last document seal.
LEMMA SealStep ==
  ASSUME TypeOK, Holding, Once, [Next]_vars, alert = "none", alert' # "none"
  PROVE  complete'
<1>1. ASSUME DispatchStep \/ ReconcileStale PROVE complete'
  <2>1. CASE CompleteDispatch
    BY <2>1 DEF CompleteDispatch
  <2>2. CASE EndEmpty
    BY <2>2, SetRunSeals DEF EndEmpty, Once
  <2>3. CASE Begin \/ DispatchFails \/ ReportFailed \/ ReconcileStale
    BY <2>3, SetRunSeals DEF Begin, DispatchFails, ReportFailed, ReconcileStale
  <2>4. CASE Deliver \/ (\E d \in Docs : QueueDocument(d)) \/ DispatchDies
    BY <2>4 DEF Deliver, QueueDocument, DispatchDies, ledgerVars
  <2> QED BY <1>1, <2>1, <2>2, <2>3, <2>4 DEF DispatchStep
<1>2. ASSUME SweepRun PROVE FALSE
  BY <1>2, SetRunSeals DEF SweepRun
<1>3. ASSUME NEW w \in Workers, DocumentStep(w) PROVE complete'
  <2>1. CASE FinalizeDocument(w)
    <3>1. OwnsDocument(w)
      BY <2>1 DEF FinalizeDocument
    <3> DEFINE status == [docStatus EXCEPT ![doc[w]] = "done"]
    <3>2. SetRun(SettledStatus(status)) /\ UNCHANGED complete
      BY <2>1, <3>1 DEF FinalizeDocument
    <3>3. SettledStatus(status) = "success" /\ runStatus # "success"
      BY <3>2, SetRunSeals
    <3> QED BY <3>2, <3>3 DEF SettledStatus, TypeOK, RunTyped
  <2>2. CASE ClaimDocument(w)
    BY <1>2, <2>2 DEF ClaimDocument, SweepAndClaim
  <2>3. CASE MarkRunError(w)
    BY <2>3, SetRunSeals DEF MarkRunError
  <2>4. CASE \/ \E i \in Items : PersistItem(w, i)
             \/ FailDocument(w) \/ CheckSiblings(w)
    BY <2>4 DEF PersistItem, FailDocument, CheckSiblings, ledgerVars
  <2> QED BY <1>3, <2>1, <2>2, <2>3, <2>4 DEF DocumentStep
<1>4. ASSUME NEW w \in Workers, AlertStep(w) \/ Start(w) \/ WorkerDies(w)
      PROVE  FALSE
  BY <1>4
  DEF AlertStep, ClaimAlert, PassDrain, ComposeAlert, MarkAttempted, CheckSent,
      SkipMail, SendMail, FlagSent, MarkAccepted, NoteResult, FinalizeSent,
      AlertThrows, ReleaseAlert, NoteFailed, Start, WorkerDies, ledgerVars, Due
<1>5. CASE Failsafe
  BY <1>2, <1>5 DEF Failsafe, SweepAndClaim
<1>6. CASE \/ \E i \in Items : DeleteUnit(i)
           \/ \E d \in Docs : ExpireDocument(d)
           \/ ExpireAlert
           \/ UNCHANGED vars
  BY <1>6 DEF DeleteUnit, ExpireDocument, ExpireAlert, vars, ledgerVars
<1> QED BY <1>1, <1>3, <1>4, <1>5, <1>6 DEF Next

-----------------------------------------------------------------------------
(* The theorems                                                            *)

\* The inductive invariant of a run that is delivered at most once.
OnceInv == Inv /\ Once /\ Mailed

\* A new run has no documents, promises, delivery or mail.
LEMMA InitOnce == ASSUME MaxDispatches <= 1, Init PROVE OnceInv
<1>1. Once
  BY DEF Init, Once, SuccessMeansDone
<1>2. Mailed
  BY DEF Init, Mailed, LedgerMailed, WorkersMailed, PreAccept, PostMail,
         Composed, Submitting, Skipping, Reporting
<1> QED BY <1>1, <1>2, InitInv DEF OnceInv

\* The invariant of a run that is delivered at most once, whatever workers,
\* failsafe, crashes and expiring leases do to it.
THEOREM OnceInvariant ==
  ASSUME MaxDispatches <= 1
  PROVE  Spec => []OnceInv
<1>1. Init => OnceInv
  BY InitOnce
<1>2. OnceInv /\ [Next]_vars => OnceInv'
  BY TypeStep, HoldingStep, FencedStep, OnceStep, MailedStep DEF OnceInv, Inv
<1> QED BY <1>1, <1>2, PTL DEF Spec

\* A run reported as a success has no open and no failed document.
THEOREM SuccessIsDone ==
  ASSUME MaxDispatches <= 1
  PROVE  Spec => []SuccessMeansDone
<1>1. OnceInv => SuccessMeansDone
  BY DEF OnceInv, Once
<1> QED BY OnceInvariant, <1>1, PTL

\* A delivery closed as sent leaves no item behind, and unless it was skipped
\* every item was in the mail or deleted by the user.
THEOREM SentIsMailed ==
  ASSUME MaxDispatches <= 1
  PROVE  Spec => []SentMeansMailed
<1>1. OnceInv => SentMeansMailed
  BY DEF OnceInv, Mailed, LedgerMailed, SentMeansMailed
<1> QED BY OnceInvariant, <1>1, PTL

\* An alert is sealed with the dispatch complete and every document done.
THEOREM SealedIsSettled ==
  ASSUME MaxDispatches <= 1
  PROVE  Spec => SealsSettledRun
<1>1. OnceInv /\ OnceInv' /\ [Next]_vars =>
        [alert = "none" /\ alert' # "none" =>
           /\ complete'
           /\ \A d \in Docs : docStatus'[d] \in {"none", "done"}]_vars
  <2>1. ASSUME OnceInv, OnceInv', [Next]_vars, alert = "none", alert' # "none"
        PROVE  complete' /\ \A d \in Docs : docStatus'[d] \in {"none", "done"}
    <3>1. complete'
      BY <2>1, SealStep DEF OnceInv, Inv
    <3>2. runStatus' = "success" /\ SuccessMeansDone'
      BY <2>1 DEF OnceInv, Once
    <3> QED BY <3>1, <3>2 DEF SuccessMeansDone
  <2> QED BY <2>1
<1> QED BY OnceInvariant, <1>1, PTL DEF Spec, SealsSettledRun

-----------------------------------------------------------------------------
(* The box                                                                 *)

\* Where a delivery is sealed and not closed.
Underway == {"pending", "sending", "provider_accepted", "failed"}

\* A step that leaves promises and mail alone seals the box or changes nothing
\* of it, unless it closes the delivery.
LEMMA BoxFrame ==
  ASSUME UNCHANGED <<itemVars, inbox>>,
         \/ UNCHANGED <<alert, muted>>
         \/ alert \in Underway /\ alert' \in Underway
         \/ alert = "none" /\ alert' = "pending" /\ stored # {}
  PROVE  [Box!Next]_(Box!vars)
<1>1. CASE Stage' = Stage
  BY <1>1 DEF itemVars, Box!vars
<1>2. CASE alert = "none" /\ alert' = "pending" /\ stored # {}
  <2>1. Stage = "open" /\ Stage' = "sealed"
    BY <1>2 DEF Stage
  <2>2. Box!Seal
    BY <1>2, <2>1 DEF Box!Seal, itemVars
  <2> QED BY <2>2 DEF Box!Next
<1> QED BY <1>1, <1>2 DEF Stage, Underway

\* Whoever writes the run's status may seal the box, if there is something in it.
LEMMA BoxRun ==
  ASSUME UNCHANGED <<itemVars, inbox, muted>>, NEW status, SetRun(status)
  PROVE  [Box!Next]_(Box!vars)
<1>1. alert' = alert \/ (alert = "none" /\ alert' = "pending" /\ stored # {})
  BY DEF SetRun, SealedBy
<1> QED BY <1>1, BoxFrame

\* The dispatch of the run and what closes it from outside.
LEMMA BoxDispatch ==
  ASSUME DispatchStep \/ ReconcileStale
  PROVE  [Box!Next]_(Box!vars)
<1> USE DEF ledgerVars, leaseVars
<1>1. CASE \/ Deliver \/ (\E d \in Docs : QueueDocument(d)) \/ DispatchDies
  <2>1. UNCHANGED <<itemVars, inbox, alert, muted>>
    BY <1>1 DEF Deliver, QueueDocument, DispatchDies
  <2> QED BY <2>1, BoxFrame
<1>2. CASE \/ Begin \/ EndEmpty \/ CompleteDispatch \/ DispatchFails
           \/ ReportFailed \/ ReconcileStale
  <2>1. /\ UNCHANGED <<itemVars, inbox, muted>>
        /\ \E status : SetRun(status)
    BY <1>2 DEF Begin, EndEmpty, CompleteDispatch, DispatchFails, ReportFailed,
                ReconcileStale
  <2> QED BY <2>1, BoxRun
<1> QED BY <1>1, <1>2 DEF DispatchStep

\* The document queue: a promise is stored only while a document of the run is
\* open, hence before the box is sealed.
LEMMA BoxDocument ==
  ASSUME Holding, Once, NEW w \in Workers, DocumentStep(w)
  PROVE  [Box!Next]_(Box!vars)
<1> USE DEF ledgerVars, leaseVars
<1>1. ASSUME NEW i \in Items, PersistItem(w, i) PROVE Box!Put(i)
  <2>1. doc[w] \in Docs /\ docStatus[doc[w]] = "processing"
    BY <1>1 DEF PersistItem, OwnsDocument, Holding
  <2>2. alert = "none"
    BY <2>1, ProcessedRun
  <2> QED BY <1>1, <2>2 DEF PersistItem, Box!Put, Stage
<1>2. ASSUME SweepRun, UNCHANGED <<itemVars, inbox, muted>>
      PROVE  [Box!Next]_(Box!vars)
  BY <1>2, BoxFrame, BoxRun DEF SweepRun
<1>3. CASE ClaimDocument(w)
  <2>1. SweepRun /\ UNCHANGED <<itemVars, inbox, muted>>
    BY <1>3 DEF ClaimDocument, SweepAndClaim
  <2> QED BY <1>2, <2>1
<1>4. CASE FinalizeDocument(w) \/ MarkRunError(w)
  <2>1. UNCHANGED <<itemVars, inbox, muted>>
    BY <1>4 DEF FinalizeDocument, MarkRunError
  <2>2. UNCHANGED alert \/ \E status : SetRun(status)
    BY <1>4 DEF FinalizeDocument, MarkRunError
  <2> QED BY <2>1, <2>2, BoxFrame, BoxRun
<1>5. CASE FailDocument(w) \/ CheckSiblings(w)
  <2>1. UNCHANGED <<itemVars, inbox, alert, muted>>
    BY <1>5 DEF FailDocument, CheckSiblings
  <2> QED BY <2>1, BoxFrame
<1> QED BY <1>1, <1>3, <1>4, <1>5 DEF DocumentStep, Box!Next

\* A mail that goes out has all that is left of a sealed box.
LEMMA BoxMail ==
  ASSUME TypeOK, Mailed, NEW w \in Workers, SendMail(w)
  PROVE  [Box!Next]_(Box!vars)
<1>1. pc[w] = "sending" /\ UNCHANGED <<itemVars, alert, muted>>
  BY DEF SendMail, ledgerVars
<1>2. CASE UNCHANGED inbox
  BY <1>1, <1>2, BoxFrame
<1>3. CASE inbox = {} /\ inbox' = payload[w]
  <2>1. /\ payload[w] # {} /\ stored \subseteq payload[w] \cup deleted
        /\ alert # "none"
    BY <1>1 DEF Mailed, WorkersMailed, Composed, PreAccept, Submitting
  <2>2. payload[w] \subseteq stored
    BY DEF TypeOK, WorkersTyped
  <2>3. Stage \in {"sealed", "skipped"} /\ Stage' = Stage
    BY <1>1, <1>3, <2>1 DEF Stage, Mailed, LedgerMailed
  <2>4. Box!Mail
    BY <1>1, <1>3, <2>1, <2>2, <2>3 DEF Box!Mail, itemVars
  <2> QED BY <2>4 DEF Box!Next
<1> QED BY <1>2, <1>3 DEF SendMail

\* Whoever closes a delivery uses the box up, and says "sent" of one whose mail
\* is out.
LEMMA BoxClose ==
  ASSUME Mailed, NEW w \in Workers, FinalizeSent(w)
  PROVE  [Box!Next]_(Box!vars)
<1>1. UNCHANGED <<stored, deleted, inbox>>
  BY DEF FinalizeSent
<1>2. CASE alert \in {"sending", "provider_accepted"} /\ HoldsAlert(w)
  <2>1. /\ alert' = "sent" /\ delivered' = stored
        /\ muted' = (pc[w] = "silencing")
    BY <1>2 DEF FinalizeSent
  <2>2. ~muted' => inbox # {}
    BY <2>1 DEF FinalizeSent, Mailed, WorkersMailed, PostMail, Reporting
  <2>3. Stage = "sealed" /\ Stage' = IF muted' THEN "skipped" ELSE "mailed"
    BY <1>2, <2>1 DEF Stage
  <2>4. Box!Close
    BY <1>1, <2>1, <2>2, <2>3 DEF Box!Close
  <2> QED BY <2>4 DEF Box!Next
<1>3. CASE ~(alert \in {"sending", "provider_accepted"} /\ HoldsAlert(w))
  <2>1. UNCHANGED <<itemVars, inbox, alert, muted>>
    BY <1>1, <1>3 DEF FinalizeSent, itemVars
  <2> QED BY <2>1, BoxFrame
<1> QED BY <1>2, <1>3

\* The workers that drain the alerts, and the ends of their invocations.
LEMMA BoxAlert ==
  ASSUME TypeOK, Mailed, NEW w \in Workers, AlertStep(w) \/ Start(w) \/ WorkerDies(w)
  PROVE  [Box!Next]_(Box!vars)
<1>1. CASE \/ PassDrain(w) \/ ComposeAlert(w) \/ MarkAttempted(w) \/ CheckSent(w)
           \/ SkipMail(w) \/ FlagSent(w) \/ NoteResult(w) \/ AlertThrows(w)
           \/ NoteFailed(w) \/ Start(w) \/ WorkerDies(w)
  <2>1. UNCHANGED <<itemVars, inbox, alert, muted>>
    BY <1>1 DEF PassDrain, ComposeAlert, MarkAttempted, CheckSent, SkipMail,
                FlagSent, NoteResult, AlertThrows, NoteFailed, Start, WorkerDies,
                ledgerVars
  <2> QED BY <2>1, BoxFrame
<1>2. CASE ClaimAlert(w)
  <2>1. /\ UNCHANGED <<itemVars, inbox>>
        /\ alert \in Underway /\ alert' \in Underway
    BY <1>2 DEF ClaimAlert, Due, Underway
  <2> QED BY <2>1, BoxFrame
<1>3. CASE MarkAccepted(w)
  <2>1. /\ UNCHANGED <<itemVars, inbox, muted>>
        /\ UNCHANGED alert \/ (alert = "sending" /\ alert' = "provider_accepted")
    BY <1>3 DEF MarkAccepted
  <2> QED BY <2>1, BoxFrame DEF Underway
<1>4. CASE ReleaseAlert(w)
  <2>1. /\ UNCHANGED <<itemVars, inbox>>
        /\ \/ UNCHANGED <<alert, muted>>
           \/ /\ alert \in {"sending", "provider_accepted"}
              /\ alert' \in {"failed", alert}
    BY <1>4 DEF ReleaseAlert
  <2> QED BY <2>1, BoxFrame DEF Underway
<1> QED BY <1>1, <1>2, <1>3, <1>4, BoxMail, BoxClose DEF AlertStep

\* Every step is one of the box, or leaves it as it is.
LEMMA BoxStep ==
  ASSUME OnceInv, [Next]_vars
  PROVE  [Box!Next]_(Box!vars)
<1>1. TypeOK /\ Holding /\ Once /\ Mailed
  BY DEF OnceInv, Inv
<1>2. ASSUME NEW i \in Items, DeleteUnit(i) PROVE [Box!Next]_(Box!vars)
  <2>1. Stage' = Stage
    BY <1>2 DEF DeleteUnit, ledgerVars, Stage
  <2>2. Box!Discard(i)
    BY <1>2, <2>1 DEF DeleteUnit, Box!Discard
  <2> QED BY <2>2 DEF Box!Next
<1>3. CASE Failsafe
  <2>1. SweepRun /\ UNCHANGED <<itemVars, inbox, muted>>
    BY <1>3 DEF Failsafe, SweepAndClaim, leaseVars
  <2> QED BY <2>1, BoxFrame, BoxRun DEF SweepRun
<1>4. CASE (\E d \in Docs : ExpireDocument(d)) \/ ExpireAlert \/ UNCHANGED vars
  <2>1. UNCHANGED <<itemVars, inbox, alert, muted>>
    BY <1>4 DEF ExpireDocument, ExpireAlert, vars, ledgerVars
  <2> QED BY <2>1, BoxFrame
<1> QED BY <1>1, <1>2, <1>3, <1>4, BoxDispatch, BoxDocument, BoxAlert DEF Next

\* The alert ledger implements AlertBox, whatever workers race for the alert,
\* come back late or die around the submission.
THEOREM AlertBoxKept ==
  ASSUME MaxDispatches <= 1
  PROVE  Spec => KeepsTheBox
<1>1. Init => Box!Init
  BY DEF Init, Box!Init, Stage
<1>2. OnceInv /\ [Next]_vars => [Box!Next]_(Box!vars)
  BY BoxStep
<1> QED BY OnceInvariant, <1>1, <1>2, PTL DEF Spec, KeepsTheBox, Box!Spec

=============================================================================
