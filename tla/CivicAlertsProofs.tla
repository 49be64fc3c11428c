------------------------- MODULE CivicAlertsProofs -------------------------
(***************************************************************************)
(* Theorems about CivicAlerts for every value of its constants.            *)
(***************************************************************************)
EXTENDS CivicAlerts, TLAPS

-----------------------------------------------------------------------------
(* The inductive invariants                                                *)

\* An invocation that extracts holds a document of the run.
Holding == \A w \in Workers : pc[w] = "extracting" => doc[w] \in Docs

\* Where an invocation has claimed the alert and not yet recorded acceptance.
PreAccept == Submitting \cup Skipping \cup {"accepting", "releasing"}

\* Fencing tokens are never shared and never ahead of the row; once the row is
\* accepted, its latest token belongs to nobody who still has to submit.
Fenced ==
  /\ \A w \in Workers : pc[w] \in PreAccept \cup Reporting => token[w] # 0
  /\ \A w \in Workers : token[w] <= fence
  /\ \A w1, w2 \in Workers : token[w1] = token[w2] /\ token[w1] # 0 => w1 = w2
  /\ AcceptedForGood
  /\ accepted => \A w \in Workers : pc[w] \in PreAccept => token[w] # fence

-----------------------------------------------------------------------------
(* What the helpers write keeps its type                                   *)

Statuses    == {"running", "success", "error", "skipped"}
AlertStates == {"none", "pending", "sending", "provider_accepted", "sent",
                "failed"}

\* The trigger seals a delivery or leaves its state alone.
LEMMA SetRunTyped ==
  ASSUME alert \in AlertStates, NEW status \in Statuses, SetRun(status)
  PROVE  /\ runStatus' \in Statuses
         /\ alert' \in AlertStates
         /\ alert' = alert \/ (alert = "none" /\ alert' = "pending")
BY DEF SetRun, SealedBy, AlertStates

\* An invocation moves between its program points.
LEMMA GoToTyped ==
  ASSUME WorkersTyped, NEW w \in Workers, NEW step \in Steps, GoTo(w, step),
         stored \subseteq stored'
  PROVE  WorkersTyped'
BY DEF WorkersTyped, GoTo

\* An invocation that ends keeps no locals.
LEMMA LeaveTyped ==
  ASSUME WorkersTyped, NEW w \in Workers, Leave(w), UNCHANGED stored
  PROVE  WorkersTyped'
BY CivicAssumption DEF WorkersTyped, Leave, Steps

\* Nor does one that returns from a drain.
LEMMA AfterDrainTyped ==
  ASSUME WorkersTyped, NEW w \in Workers, AfterDrain(w), UNCHANGED stored
  PROVE  WorkersTyped'
BY CivicAssumption DEF WorkersTyped, AfterDrain, Steps

\* A closed document is well typed and unowned.
LEMMA CloseDocumentTyped ==
  ASSUME DocsTyped, NEW d \in Docs, NEW status \in {"pending", "done", "failed"},
         CloseDocument(d, status)
  PROVE  DocsTyped'
BY DEF DocsTyped, CloseDocument

\* The failsafe writes a known status.
LEMMA SweptTyped ==
  ASSUME DocsTyped, NEW d \in Docs
  PROVE  Swept(d) \in {"none", "pending", "processing", "done", "failed"}
BY DEF DocsTyped, Swept

\* The failsafe and a claim behind it never exceed the attempts of a document.
LEMMA SweepTyped ==
  ASSUME DocsTyped, NEW C \in SUBSET Claimable, NEW w \in Workers \cup {None},
         SweepAndClaim(C, w)
  PROVE  DocsTyped'
<1>1. docStatus' \in [Docs -> {"none", "pending", "processing", "done", "failed"}]
  BY SweptTyped DEF SweepAndClaim
<1>2. ASSUME NEW d \in C
      PROVE  docAttempts[d] < MaxDocAttempts
  BY DEF Claimable
<1>3. docAttempts' \in [Docs -> 0..MaxDocAttempts]
  BY <1>2, CivicAssumption DEF SweepAndClaim, DocsTyped
<1>4. docOwner' \in [Docs -> Workers \cup {None}]
  BY DEF SweepAndClaim, DocsTyped
<1>5. docExpired' \in [Docs -> BOOLEAN]
  BY DEF SweepAndClaim, DocsTyped
<1> QED BY <1>1, <1>3, <1>4, <1>5 DEF DocsTyped

\* Closing the run behind the failsafe is well typed.
LEMMA SweepRunTyped ==
  ASSUME RunTyped, alert \in AlertStates, SweepRun
  PROVE  /\ runStatus' \in Statuses /\ noted' \in BOOLEAN
         /\ alert' \in AlertStates
         /\ alert' = alert \/ (alert = "none" /\ alert' = "pending")
<1>1. CASE SetRun("error") /\ noted' = FALSE
  BY <1>1, SetRunTyped DEF Statuses
<1>2. CASE UNCHANGED <<runStatus, alert, noted>>
  BY <1>2 DEF RunTyped, Statuses
<1> QED BY <1>1, <1>2 DEF SweepRun

-----------------------------------------------------------------------------
(* Type correctness                                                        *)

\* The steps of civic-execute keep every column in its domain.
LEMMA DispatchTyped ==
  ASSUME TypeOK, DispatchStep \/ ReconcileStale
  PROVE  TypeOK'
<1> USE DEF TypeOK, RunTyped, DocsTyped, AlertTyped, WorkersTyped, AlertStates,
            Statuses, runVars, procVars, docVars, itemVars, ledgerVars,
            leaseVars, workerVars, Dispatches
<1>1. CASE Deliver
  BY <1>1, CivicAssumption DEF Deliver
<1>2. CASE Begin
  BY <1>2, SetRunTyped DEF Begin
<1>3. ASSUME NEW d \in Docs, QueueDocument(d) PROVE TypeOK'
  BY <1>3 DEF QueueDocument
<1>4. CASE EndEmpty
  BY <1>4, SetRunTyped DEF EndEmpty
<1>5. CASE CompleteDispatch
  <2>1. (IF Open(docStatus) THEN runStatus
         ELSE IF Failed(docStatus) THEN "error" ELSE "success") \in Statuses
    OBVIOUS
  <2>2. (noted /\ Open(docStatus)) \in BOOLEAN
    OBVIOUS
  <2> QED BY <1>5, <2>1, <2>2, SetRunTyped DEF CompleteDispatch
<1>6. CASE DispatchFails
  BY <1>6, SetRunTyped DEF DispatchFails
<1>7. CASE DispatchDies
  BY <1>7 DEF DispatchDies
<1>8. CASE ReconcileStale
  BY <1>8, SetRunTyped DEF ReconcileStale
<1>9. CASE ReportFailed
  BY <1>9, SetRunTyped, CivicAssumption DEF ReportFailed
<1> QED BY <1>1, <1>2, <1>3, <1>4, <1>5, <1>6, <1>7, <1>8, <1>9 DEF DispatchStep

\* The steps of the document queue do.
LEMMA DocumentTyped ==
  ASSUME TypeOK, Holding, NEW w \in Workers,
         DocumentStep(w) \/ Start(w) \/ Failsafe
  PROVE  TypeOK'
<1> USE DEF TypeOK
<1>0. UNCHANGED <<itemVars, leaseVars, inbox>> /\ alert' \in AlertStates
      => AlertTyped'
  BY DEF AlertTyped, AlertStates, itemVars, leaseVars
<1>a. alert \in AlertStates
  BY DEF AlertTyped, AlertStates
<1>1. CASE Start(w)
  BY <1>1, GoToTyped
  DEF Start, Steps, RunTyped, DocsTyped, AlertTyped, runVars, procVars, docVars,
      itemVars, ledgerVars
<1>2. CASE Failsafe
  <2>1. DocsTyped'
    BY <1>2, SweepTyped DEF Failsafe
  <2>2. RunTyped' /\ alert' \in AlertStates
    BY <1>2, <1>a, SweepRunTyped
    DEF Failsafe, SweepAndClaim, RunTyped, Statuses, procVars
  <2>3. WorkersTyped'
    BY <1>2 DEF Failsafe, WorkersTyped, workerVars, itemVars
  <2> QED BY <1>0, <1>2, <2>1, <2>2, <2>3 DEF Failsafe
<1>3. CASE ClaimDocument(w)
  <2>1. RunTyped' /\ alert' \in AlertStates
    BY <1>3, <1>a, SweepRunTyped
    DEF ClaimDocument, SweepAndClaim, RunTyped, Statuses, procVars
  <2>2. CASE SweepAndClaim({}, None) /\ Leave(w)
    BY <1>0, <1>3, <2>1, <2>2, SweepTyped, LeaveTyped
    DEF ClaimDocument, itemVars
  <2>3. ASSUME NEW d \in Claimable, SweepAndClaim({d}, w),
               pc' = [pc EXCEPT ![w] = "extracting"],
               doc' = [doc EXCEPT ![w] = d], UNCHANGED <<token, payload>>
        PROVE  TypeOK'
    <3>1. DocsTyped'
      BY <2>3, SweepTyped
    <3>2. WorkersTyped'
      BY <1>3, <2>3 DEF ClaimDocument, WorkersTyped, Steps, itemVars, Claimable
    <3> QED BY <1>0, <1>3, <2>1, <3>1, <3>2 DEF ClaimDocument
  <2> QED BY <1>3, <2>2, <2>3 DEF ClaimDocument
<1>4. ASSUME NEW i \in Items, PersistItem(w, i) PROVE TypeOK'
  BY <1>4
  DEF PersistItem, RunTyped, DocsTyped, AlertTyped, WorkersTyped, runVars,
      procVars, docVars, ledgerVars, workerVars
<1>5. CASE FinalizeDocument(w)
  <2>1. CASE OwnsDocument(w)
    <3> DEFINE status == [docStatus EXCEPT ![doc[w]] = "done"]
    <3>1. doc[w] \in Docs
      BY <1>5 DEF FinalizeDocument, Holding
    <3>2. /\ CloseDocument(doc[w], "done") /\ SetRun(SettledStatus(status))
          /\ noted' = (noted /\ (Open(status) \/ ~complete))
          /\ GoTo(w, "draining")
      BY <1>5, <2>1 DEF FinalizeDocument
    <3>3. DocsTyped'
      BY <3>1, <3>2, CloseDocumentTyped
    <3>4. SettledStatus(status) \in Statuses
      BY DEF SettledStatus, RunTyped, Statuses
    <3>5. runStatus' \in Statuses /\ alert' \in AlertStates
      BY <1>a, <3>2, <3>4, SetRunTyped
    <3>6. noted' \in BOOLEAN
      BY <3>2
    <3>7. RunTyped'
      BY <1>5, <3>5, <3>6
      DEF FinalizeDocument, RunTyped, Statuses, procVars
    <3>8. WorkersTyped'
      BY <1>5, <3>2, GoToTyped DEF FinalizeDocument, itemVars, Steps
    <3> QED BY <1>0, <1>5, <3>3, <3>5, <3>7, <3>8 DEF FinalizeDocument
  <2>2. CASE ~OwnsDocument(w)
    BY <1>0, <1>a, <1>5, <2>2, LeaveTyped
    DEF FinalizeDocument, RunTyped, DocsTyped, docVars, procVars, itemVars
  <2> QED BY <2>1, <2>2
<1>6. CASE FailDocument(w)
  <2>1. DocsTyped'
    <3>1. doc[w] \in Docs
      BY <1>6 DEF FailDocument, Holding
    <3> QED
      BY <1>6, <3>1, CloseDocumentTyped DEF FailDocument, DocsTyped, docVars
  <2>2. WorkersTyped'
    BY <1>6, GoToTyped, LeaveTyped DEF FailDocument, itemVars, Steps
  <2> QED
    BY <1>6, <2>1, <2>2
    DEF FailDocument, RunTyped, AlertTyped, runVars, procVars, itemVars,
        ledgerVars
<1>7. CASE CheckSiblings(w)
  BY <1>7, GoToTyped, LeaveTyped
  DEF CheckSiblings, Steps, RunTyped, DocsTyped, AlertTyped, runVars, procVars,
      docVars, itemVars, ledgerVars
<1>8. CASE MarkRunError(w)
  <2>1. runStatus' \in Statuses /\ alert' \in AlertStates
    BY <1>8, <1>a, SetRunTyped DEF MarkRunError, Statuses
  <2>2. WorkersTyped'
    BY <1>8, LeaveTyped DEF MarkRunError, itemVars
  <2> QED
    BY <1>0, <1>8, <2>1, <2>2
    DEF MarkRunError, RunTyped, DocsTyped, Statuses, procVars, docVars
<1> QED BY <1>1, <1>2, <1>3, <1>4, <1>5, <1>6, <1>7, <1>8 DEF DocumentStep

\* The steps of the alert ledger, the user and the clock do.
LEMMA AlertStepTyped ==
  ASSUME TypeOK, NEW w \in Workers, AlertStep(w) \/ WorkerDies(w)
  PROVE  TypeOK'
<1> USE DEF TypeOK, RunTyped, DocsTyped, AlertTyped, runVars, procVars, docVars,
            itemVars, ledgerVars
<1>0. pc \in [Workers -> Steps]
  BY DEF WorkersTyped
<1>1. CASE ClaimAlert(w)
  <2>1. fence' \in 0..MaxClaims /\ fence' = fence + 1
    BY <1>1, CivicAssumption DEF ClaimAlert
  <2>2. token' \in [Workers -> 0..MaxClaims]
    BY <1>1, <2>1 DEF ClaimAlert, WorkersTyped
  <2>3. pc' \in [Workers -> Steps]
    BY <1>1, <1>0 DEF ClaimAlert, Steps, Submitting, Reporting
  <2>4. WorkersTyped'
    BY <1>1, <2>2, <2>3 DEF ClaimAlert, WorkersTyped
  <2>5. alert' \in AlertStates
    BY <1>1 DEF ClaimAlert, AlertStates
  <2> QED BY <1>1, <2>1, <2>4, <2>5 DEF ClaimAlert, AlertStates
<1>2. CASE PassDrain(w)
  BY <1>2, AfterDrainTyped DEF PassDrain
<1>3. CASE ComposeAlert(w)
  BY <1>3 DEF ComposeAlert, WorkersTyped, Steps, Submitting, Skipping
<1>4. CASE MarkAttempted(w)
  BY <1>4, GoToTyped DEF MarkAttempted, Steps, Submitting
<1>5. CASE CheckSent(w)
  BY <1>5, GoToTyped DEF CheckSent, Steps, Submitting
<1>6. CASE SkipMail(w)
  BY <1>6, GoToTyped DEF SkipMail, Steps, Skipping
<1>7. CASE SendMail(w)
  <2>1. payload[w] \subseteq stored
    BY DEF WorkersTyped
  <2>2. WorkersTyped'
    BY <1>7, GoToTyped DEF SendMail, Steps, Submitting
  <2> QED BY <1>7, <2>1, <2>2 DEF SendMail
<1>8. CASE FlagSent(w)
  <2>1. sentFlag' \in BOOLEAN
    BY <1>8 DEF FlagSent
  <2>2. WorkersTyped'
    BY <1>8, GoToTyped DEF FlagSent, Steps
  <2> QED BY <1>8, <2>1, <2>2 DEF FlagSent
<1>9. CASE MarkAccepted(w)
  <2>1. WorkersTyped'
    BY <1>9, GoToTyped DEF MarkAccepted, Steps, Reporting
  <2>2. accepted' \in BOOLEAN /\ alert' \in AlertStates
    BY <1>9 DEF MarkAccepted, AlertStates
  <2> QED BY <1>9, <2>1, <2>2 DEF MarkAccepted, AlertStates
<1>10. CASE NoteResult(w)
  BY <1>10, GoToTyped DEF NoteResult, Steps, Reporting, Skipping
<1>11. CASE FinalizeSent(w)
  <2>1. WorkersTyped'
    BY <1>11, GoToTyped, AfterDrainTyped DEF FinalizeSent, Steps
  <2>2. muted' \in BOOLEAN
    BY <1>11 DEF FinalizeSent
  <2>3. alert' \in AlertStates
    BY <1>11 DEF FinalizeSent, AlertStates
  <2> QED BY <1>11, <2>1, <2>2, <2>3 DEF FinalizeSent, AlertStates
<1>12. CASE AlertThrows(w)
  BY <1>12, GoToTyped DEF AlertThrows, Steps
<1>13. CASE ReleaseAlert(w)
  <2>1. WorkersTyped'
    BY <1>13, GoToTyped DEF ReleaseAlert, Steps
  <2> QED BY <1>13, <2>1 DEF ReleaseAlert
<1>14. CASE NoteFailed(w)
  <2>1. noted' \in BOOLEAN
    BY <1>14 DEF NoteFailed
  <2> QED BY <1>14, <2>1, AfterDrainTyped DEF NoteFailed
<1>15. CASE WorkerDies(w)
  BY <1>15, LeaveTyped DEF WorkerDies
<1> QED
  BY <1>1, <1>2, <1>3, <1>4, <1>5, <1>6, <1>7, <1>8, <1>9, <1>10, <1>11, <1>12,
     <1>13, <1>14, <1>15
  DEF AlertStep

\* So does every step.
LEMMA TypeStep ==
  ASSUME TypeOK, Holding, [Next]_vars
  PROVE  TypeOK'
<1> USE DEF TypeOK
<1>1. CASE DispatchStep \/ ReconcileStale
  BY <1>1, DispatchTyped
<1>2. CASE Failsafe
  <2>1. CASE Workers = {}
    <3>1. DocsTyped'
      BY <1>2, SweepTyped DEF Failsafe
    <3>2. alert \in AlertStates
      BY DEF AlertTyped, AlertStates
    <3> QED
      BY <1>2, <3>1, <3>2, SweepRunTyped
      DEF Failsafe, SweepAndClaim, RunTyped, AlertTyped, WorkersTyped, Statuses,
          AlertStates, procVars, itemVars, leaseVars, workerVars
  <2>2. ASSUME NEW w \in Workers PROVE TypeOK'
    BY <1>2, DocumentTyped
  <2> QED BY <2>1, <2>2
<1>3. ASSUME NEW w \in Workers,
             Start(w) \/ DocumentStep(w) \/ AlertStep(w) \/ WorkerDies(w)
      PROVE  TypeOK'
  BY <1>3, DocumentTyped, AlertStepTyped
<1>4. ASSUME NEW i \in Items, DeleteUnit(i) PROVE TypeOK'
  BY <1>4
  DEF DeleteUnit, RunTyped, DocsTyped, AlertTyped, WorkersTyped, runVars,
      procVars, docVars, ledgerVars, workerVars
<1>5. ASSUME NEW d \in Docs, ExpireDocument(d) PROVE TypeOK'
  BY <1>5
  DEF ExpireDocument, RunTyped, DocsTyped, AlertTyped, WorkersTyped, runVars,
      procVars, itemVars, ledgerVars, workerVars
<1>6. CASE ExpireAlert
  BY <1>6
  DEF ExpireAlert, RunTyped, DocsTyped, AlertTyped, WorkersTyped, runVars,
      procVars, docVars, itemVars, workerVars
<1>7. CASE UNCHANGED vars
  BY <1>7
  DEF vars, RunTyped, DocsTyped, AlertTyped, WorkersTyped, runVars, procVars,
      docVars, itemVars, ledgerVars, workerVars
<1> QED BY <1>1, <1>2, <1>3, <1>4, <1>5, <1>6, <1>7 DEF Next

-----------------------------------------------------------------------------
(* The document an invocation holds                                        *)

\* Moving on to anything but extraction keeps what is held.
LEMMA HoldGoTo ==
  ASSUME WorkersTyped, Holding, NEW w \in Workers, NEW step \in Steps,
         step # "extracting", GoTo(w, step)
  PROVE  Holding'
BY DEF WorkersTyped, Holding, GoTo

\* An invocation that ends holds nothing.
LEMMA HoldLeave ==
  ASSUME WorkersTyped, Holding, NEW w \in Workers, Leave(w)
  PROVE  Holding'
BY DEF WorkersTyped, Holding, Leave

\* Nor is one that has drained the alerts extracting.
LEMMA HoldAfterDrain ==
  ASSUME WorkersTyped, Holding, NEW w \in Workers, AfterDrain(w)
  PROVE  Holding'
BY DEF WorkersTyped, Holding, AfterDrain

\* Only claim_civic_queue_item makes an invocation extract.
LEMMA HoldingStep ==
  ASSUME TypeOK, Holding, [Next]_vars
  PROVE  Holding'
<1>0. WorkersTyped
  BY DEF TypeOK
<1>1. UNCHANGED workerVars => Holding'
  BY DEF workerVars, Holding
<1>2. CASE DispatchStep \/ ReconcileStale \/ Failsafe \/ ExpireAlert
           \/ UNCHANGED vars
  BY <1>1, <1>2
  DEF DispatchStep, Deliver, Begin, QueueDocument, EndEmpty, CompleteDispatch,
      DispatchFails, DispatchDies, ReportFailed, ReconcileStale, Failsafe,
      ExpireAlert, vars
<1>3. ASSUME NEW i \in Items, DeleteUnit(i) PROVE Holding'
  BY <1>1, <1>3 DEF DeleteUnit
<1>4. ASSUME NEW d \in Docs, ExpireDocument(d) PROVE Holding'
  BY <1>1, <1>4 DEF ExpireDocument
<1>5. ASSUME NEW w \in Workers, Start(w) \/ WorkerDies(w) PROVE Holding'
  BY <1>0, <1>5, HoldGoTo, HoldLeave DEF Start, WorkerDies, Steps
<1>6. ASSUME NEW w \in Workers, DocumentStep(w) PROVE Holding'
  <2>1. CASE ClaimDocument(w)
    <3>1. ASSUME NEW d \in Claimable, pc' = [pc EXCEPT ![w] = "extracting"],
                 doc' = [doc EXCEPT ![w] = d]
          PROVE  Holding'
      BY <1>0, <3>1 DEF WorkersTyped, Holding, Claimable
    <3> QED BY <1>0, <2>1, <3>1, HoldLeave DEF ClaimDocument
  <2>2. ASSUME NEW i \in Items, PersistItem(w, i) PROVE Holding'
    BY <1>1, <2>2 DEF PersistItem
  <2>3. CASE FinalizeDocument(w)
    BY <1>0, <2>3, HoldGoTo, HoldLeave DEF FinalizeDocument, Steps
  <2>4. CASE FailDocument(w)
    BY <1>0, <2>4, HoldGoTo, HoldLeave DEF FailDocument, Steps
  <2>5. CASE CheckSiblings(w)
    BY <1>0, <2>5, HoldGoTo, HoldLeave DEF CheckSiblings, Steps
  <2>6. CASE MarkRunError(w)
    BY <1>0, <2>6, HoldLeave DEF MarkRunError
  <2> QED BY <1>6, <2>1, <2>2, <2>3, <2>4, <2>5, <2>6 DEF DocumentStep
<1>7. ASSUME NEW w \in Workers, AlertStep(w) PROVE Holding'
  <2> USE DEF Steps, Submitting, Reporting, Skipping
  <2>1. CASE ClaimAlert(w) \/ ComposeAlert(w)
    BY <1>0, <2>1 DEF ClaimAlert, ComposeAlert, WorkersTyped, Holding
  <2>2. CASE PassDrain(w) \/ NoteFailed(w)
    BY <1>0, <2>2, HoldAfterDrain DEF PassDrain, NoteFailed
  <2>3. CASE MarkAttempted(w) \/ CheckSent(w) \/ SkipMail(w) \/ SendMail(w)
             \/ FlagSent(w)
    BY <1>0, <2>3, HoldGoTo
    DEF MarkAttempted, CheckSent, SkipMail, SendMail, FlagSent
  <2>4. CASE MarkAccepted(w) \/ NoteResult(w)
    BY <1>0, <2>4, HoldGoTo DEF MarkAccepted, NoteResult
  <2>5. CASE FinalizeSent(w)
    BY <1>0, <2>5, HoldGoTo, HoldAfterDrain DEF FinalizeSent
  <2>6. CASE AlertThrows(w) \/ ReleaseAlert(w)
    BY <1>0, <2>6, HoldGoTo DEF AlertThrows, ReleaseAlert
  <2> QED BY <1>7, <2>1, <2>2, <2>3, <2>4, <2>5, <2>6 DEF AlertStep
<1> QED BY <1>2, <1>3, <1>4, <1>5, <1>6, <1>7 DEF Next

-----------------------------------------------------------------------------
(* Fencing                                                                 *)

\* An invocation that moves on within its claim, or back, keeps its token: the
\* invariant only cares whether it still has to submit.
LEMMA FencedGoTo ==
  ASSUME TypeOK, Fenced, NEW w \in Workers, NEW step \in Steps,
         GoTo(w, step), UNCHANGED <<fence, accepted>>,
         step \in PreAccept => pc[w] \in PreAccept,
         step \in Reporting => pc[w] \in Reporting \cup PreAccept,
         AcceptedForGood'
  PROVE  Fenced'
<1>1. \A v \in Workers : pc'[v] = IF v = w THEN step ELSE pc[v]
  BY DEF GoTo, TypeOK, WorkersTyped
<1>2. UNCHANGED token
  BY DEF GoTo
<1> QED BY <1>1, <1>2 DEF Fenced

\* One that lets go of its claim has no token and nothing to submit.
LEMMA FencedLetGo ==
  ASSUME TypeOK, Fenced, NEW w \in Workers,
         pc' = [pc EXCEPT ![w] = "gone"] \/ pc' = [pc EXCEPT ![w] = "drained"],
         token' = [token EXCEPT ![w] = 0], UNCHANGED <<fence, accepted>>,
         AcceptedForGood'
  PROVE  Fenced'
<1>1. /\ pc'[w] \notin PreAccept \cup Reporting
      /\ \A v \in Workers \ {w} : pc'[v] = pc[v]
  BY DEF TypeOK, WorkersTyped, PreAccept, Submitting, Skipping, Reporting
<1>2. token'[w] = 0 /\ \A v \in Workers \ {w} : token'[v] = token[v]
  BY DEF TypeOK, WorkersTyped
<1>3. fence \in Nat
  BY CivicAssumption DEF TypeOK, AlertTyped
<1> QED BY <1>1, <1>2, <1>3 DEF Fenced

\* A step that touches neither the claim nor the ledger keeps the fences.
LEMMA FencedFrame ==
  ASSUME Fenced, UNCHANGED <<pc, token, fence, accepted>>, AcceptedForGood'
  PROVE  Fenced'
BY DEF Fenced

\* The trigger writes only a row that does not exist, so none that is accepted.
LEMMA SealKeepsAccepted ==
  ASSUME AcceptedForGood, UNCHANGED accepted,
         alert' = alert \/ (alert = "none" /\ alert' = "pending")
  PROVE  AcceptedForGood'
BY DEF AcceptedForGood

\* Every claim takes a token of its own, and every write behind the acceptance
\* checks it.
LEMMA FencedStep ==
  ASSUME TypeOK, Holding, Fenced, [Next]_vars
  PROVE  Fenced'
<1>0. AcceptedForGood
  BY DEF Fenced
<1>a. ASSUME NEW status, SetRun(status), UNCHANGED accepted
      PROVE  AcceptedForGood'
  BY <1>0, <1>a, SealKeepsAccepted DEF SetRun, SealedBy
<1>b. ASSUME UNCHANGED <<alert, accepted>> PROVE AcceptedForGood'
  BY <1>0, <1>b DEF AcceptedForGood
<1>1. CASE DispatchStep \/ ReconcileStale
  <2>1. AcceptedForGood' /\ UNCHANGED <<pc, token, fence, accepted>>
    BY <1>1, <1>a, <1>b
    DEF DispatchStep, Deliver, Begin, QueueDocument, EndEmpty, CompleteDispatch,
        DispatchFails, DispatchDies, ReportFailed, ReconcileStale, ledgerVars,
        leaseVars,
        workerVars
  <2> QED BY <2>1, FencedFrame
<1>c. ASSUME SweepRun, UNCHANGED accepted PROVE AcceptedForGood'
  BY <1>a, <1>b, <1>c DEF SweepRun
<1>2. CASE Failsafe
  BY <1>2, <1>c, FencedFrame
  DEF Failsafe, SweepAndClaim, leaseVars, workerVars
<1>3. ASSUME NEW w \in Workers, Start(w) PROVE Fenced'
  BY <1>3, <1>b, FencedGoTo
  DEF Start, ledgerVars, Steps, PreAccept, Submitting, Skipping, Reporting
<1>4. ASSUME NEW w \in Workers, WorkerDies(w) PROVE Fenced'
  BY <1>4, <1>b, FencedLetGo DEF WorkerDies, Leave, ledgerVars
<1>5. ASSUME NEW w \in Workers, DocumentStep(w) PROVE Fenced'
  <2> USE DEF PreAccept, Submitting, Skipping, Reporting, Steps
  <2>1. CASE ClaimDocument(w)
    <3>1. AcceptedForGood' /\ UNCHANGED <<fence, accepted>>
      BY <2>1, <1>c DEF ClaimDocument, SweepAndClaim, leaseVars
    <3>2. CASE Leave(w)
      BY <3>1, <3>2, FencedLetGo DEF Leave
    <3>3. CASE pc' = [pc EXCEPT ![w] = "extracting"] /\ UNCHANGED token
      <4>1. \A v \in Workers : pc'[v] = IF v = w THEN "extracting" ELSE pc[v]
        BY <3>3 DEF TypeOK, WorkersTyped
      <4> QED BY <3>1, <3>3, <4>1 DEF Fenced
    <3> QED BY <2>1, <3>2, <3>3 DEF ClaimDocument
  <2>2. ASSUME NEW i \in Items, PersistItem(w, i) PROVE Fenced'
    BY <2>2, <1>b, FencedFrame DEF PersistItem, ledgerVars, workerVars
  <2>3. CASE FinalizeDocument(w)
    <3>1. AcceptedForGood' /\ UNCHANGED <<fence, accepted>>
      BY <2>3, <1>a, <1>b DEF FinalizeDocument, leaseVars
    <3> QED
      BY <2>3, <3>1, FencedGoTo, FencedLetGo DEF FinalizeDocument, Leave
  <2>4. CASE FailDocument(w)
    BY <2>4, <1>b, FencedGoTo, FencedLetGo DEF FailDocument, Leave, ledgerVars
  <2>5. CASE CheckSiblings(w)
    BY <2>5, <1>b, FencedGoTo, FencedLetGo DEF CheckSiblings, Leave, ledgerVars
  <2>6. CASE MarkRunError(w)
    BY <2>6, <1>a, FencedLetGo DEF MarkRunError, Leave, leaseVars
  <2> QED BY <1>5, <2>1, <2>2, <2>3, <2>4, <2>5, <2>6 DEF DocumentStep
<1>6. ASSUME NEW w \in Workers, AlertStep(w) PROVE Fenced'
  <2> USE DEF PreAccept, Submitting, Skipping, Reporting, Steps
  <2>0. fence \in Nat /\ token \in [Workers -> Nat] /\ pc \in [Workers -> Steps]
    BY CivicAssumption DEF TypeOK, AlertTyped, WorkersTyped
  <2>1. CASE ClaimAlert(w)
    <3>1. fence' = fence + 1 /\ UNCHANGED accepted /\ AcceptedForGood'
      BY <2>1 DEF ClaimAlert, AcceptedForGood
    <3>2. \A v \in Workers : token'[v] = IF v = w THEN fence + 1 ELSE token[v]
      BY <2>0, <2>1 DEF ClaimAlert
    <3>3. /\ \A v \in Workers \ {w} : pc'[v] = pc[v]
          /\ accepted => pc'[w] = "noting"
      BY <2>0, <2>1 DEF ClaimAlert
    <3>4. \A v \in Workers : token[v] <= fence /\ token[v] \in Nat
      BY <2>0 DEF Fenced
    <3>5. \A v \in Workers : token'[v] <= fence'
      BY <2>0, <3>1, <3>2, <3>4
    <3>6. \A v \in Workers : pc'[v] \in PreAccept \cup Reporting => token'[v] # 0
      BY <2>0, <3>2, <3>3 DEF Fenced
    <3>7. \A v1, v2 \in Workers :
            token'[v1] = token'[v2] /\ token'[v1] # 0 => v1 = v2
      BY <2>0, <3>2, <3>4 DEF Fenced
    <3>8. accepted' => \A v \in Workers :
                         pc'[v] \in PreAccept => token'[v] # fence'
      BY <2>0, <3>1, <3>2, <3>3, <3>4
    <3> QED BY <3>1, <3>5, <3>6, <3>7, <3>8 DEF Fenced
  <2>2. CASE PassDrain(w) \/ NoteFailed(w)
    BY <2>2, <1>b, FencedLetGo
    DEF PassDrain, NoteFailed, AfterDrain, ledgerVars
  <2>3. CASE ComposeAlert(w)
    <3>1. \E step \in {"muting", "attempted"} : pc' = [pc EXCEPT ![w] = step]
      BY <2>3 DEF ComposeAlert
    <3>2. AcceptedForGood' /\ UNCHANGED <<token, fence, accepted>>
      BY <2>3, <1>b DEF ComposeAlert, ledgerVars
    <3>3. \A v \in Workers : pc'[v] \in PreAccept \cup Reporting =>
            pc[v] \in PreAccept \cup Reporting
      BY <2>0, <2>3, <3>1 DEF ComposeAlert
    <3>4. \A v \in Workers : pc'[v] \in PreAccept => pc[v] \in PreAccept
      BY <2>0, <2>3, <3>1 DEF ComposeAlert
    <3> QED BY <3>2, <3>3, <3>4 DEF Fenced
  <2>4. CASE MarkAttempted(w) \/ CheckSent(w) \/ SkipMail(w) \/ FlagSent(w)
    BY <2>4, <1>b, FencedGoTo
    DEF MarkAttempted, CheckSent, SkipMail, FlagSent, ledgerVars
  <2>5. CASE SendMail(w)
    BY <2>5, <1>b, FencedGoTo DEF SendMail, ledgerVars
  <2>6. CASE MarkAccepted(w)
    <3>1. CASE alert = "sending" /\ HoldsAlert(w) /\ ~alertExpired
      <4>1. /\ accepted' /\ AcceptedForGood' /\ UNCHANGED <<fence, token>>
            /\ pc' = [pc EXCEPT ![w] = "noting"]
        BY <2>6, <3>1 DEF MarkAccepted, GoTo, AcceptedForGood
      <4>2. token[w] = fence /\ token[w] # 0
        BY <2>6, <3>1 DEF MarkAccepted, HoldsAlert, Fenced
      <4>3. \A v \in Workers \ {w} : token[v] # fence /\ pc'[v] = pc[v]
        BY <2>0, <4>1, <4>2 DEF Fenced
      <4>4. pc'[w] = "noting"
        BY <2>0, <4>1
      <4> QED BY <4>1, <4>2, <4>3, <4>4 DEF Fenced
    <3>2. CASE ~(alert = "sending" /\ HoldsAlert(w) /\ ~alertExpired)
      BY <2>6, <3>2, <1>b, FencedGoTo DEF MarkAccepted
    <3> QED BY <3>1, <3>2
  <2>7. CASE NoteResult(w)
    BY <2>7, <1>b, FencedGoTo DEF NoteResult, ledgerVars
  <2>8. CASE FinalizeSent(w)
    <3>1. CASE alert \in {"sending", "provider_accepted"} /\ HoldsAlert(w)
      <4>1. AcceptedForGood' /\ UNCHANGED <<fence, accepted>> /\ AfterDrain(w)
        BY <2>8, <3>1 DEF FinalizeSent, AcceptedForGood
      <4> QED BY <4>1, FencedLetGo DEF AfterDrain
    <3>2. CASE ~(alert \in {"sending", "provider_accepted"} /\ HoldsAlert(w))
      BY <2>8, <3>2, <1>b, FencedGoTo DEF FinalizeSent
    <3> QED BY <3>1, <3>2
  <2>9. CASE AlertThrows(w)
    BY <2>9, <1>b, FencedGoTo DEF AlertThrows, ledgerVars
  <2>10. CASE ReleaseAlert(w)
    <3>1. HoldsAlert(w) => ~accepted
      BY <2>10 DEF ReleaseAlert, HoldsAlert, Fenced
    <3>2. AcceptedForGood' /\ UNCHANGED <<fence, accepted>>
      BY <2>10, <1>0, <3>1 DEF ReleaseAlert, AcceptedForGood
    <3> QED BY <2>10, <3>2, FencedGoTo DEF ReleaseAlert
  <2> QED
    BY <1>6, <2>1, <2>2, <2>3, <2>4, <2>5, <2>6, <2>7, <2>8, <2>9, <2>10
    DEF AlertStep
<1>7. ASSUME NEW i \in Items, DeleteUnit(i) PROVE Fenced'
  BY <1>7, <1>b, FencedFrame DEF DeleteUnit, ledgerVars, workerVars
<1>8. ASSUME NEW d \in Docs, ExpireDocument(d) PROVE Fenced'
  BY <1>8, <1>b, FencedFrame DEF ExpireDocument, ledgerVars, workerVars
<1>9. CASE ExpireAlert
  BY <1>9, <1>b, FencedFrame DEF ExpireAlert, workerVars
<1>10. CASE UNCHANGED vars
  BY <1>10, <1>b, FencedFrame DEF vars, ledgerVars, workerVars
<1> QED BY <1>1, <1>2, <1>3, <1>4, <1>5, <1>6, <1>7, <1>8, <1>9, <1>10 DEF Next


-----------------------------------------------------------------------------
(* A settled document                                                      *)

\* The failsafe and a claim only touch rows that are pending or lapsed.
LEMMA SweepSettled ==
  ASSUME NEW C \in SUBSET Claimable, NEW w, SweepAndClaim(C, w),
         NEW d \in Docs, Settled(d)
  PROVE  docStatus'[d] = docStatus[d]
<1>1. Swept(d) = docStatus[d]
  BY DEF Swept, Lapsed, Settled
<1>2. d \notin C
  BY <1>1 DEF Claimable, Settled
<1> QED BY <1>1, <1>2 DEF SweepAndClaim

\* A row is closed under its lease, so while it is processing.
LEMMA CloseSettled ==
  ASSUME DocsTyped, NEW w \in Workers, OwnsDocument(w), NEW status,
         CloseDocument(doc[w], status), NEW d \in Docs, Settled(d)
  PROVE  docStatus'[d] = docStatus[d]
<1>1. d # doc[w]
  BY DEF OwnsDocument, Settled
<1> QED BY <1>1 DEF CloseDocument, DocsTyped

\* No step changes the status of a settled document.
LEMMA SettledStep ==
  ASSUME TypeOK, [Next]_vars, NEW d \in Docs, Settled(d)
  PROVE  docStatus'[d] = docStatus[d]
<1>0. DocsTyped
  BY DEF TypeOK
<1>1. ASSUME NEW e \in Docs, QueueDocument(e)
      PROVE  docStatus'[d] = docStatus[d]
  BY <1>0, <1>1 DEF QueueDocument, DocsTyped, Settled
<1>2. CASE \/ Deliver \/ Begin \/ EndEmpty \/ CompleteDispatch \/ DispatchFails
           \/ DispatchDies \/ ReportFailed \/ ReconcileStale
  BY <1>2
  DEF Deliver, Begin, EndEmpty, CompleteDispatch, DispatchFails, DispatchDies,
      ReportFailed, ReconcileStale, docVars
<1>3. CASE Failsafe
  BY <1>3, SweepSettled DEF Failsafe
<1>4. ASSUME NEW w \in Workers, DocumentStep(w)
      PROVE  docStatus'[d] = docStatus[d]
  <2>1. CASE ClaimDocument(w)
    <3>1. CASE SweepAndClaim({}, None)
      BY <3>1, SweepSettled
    <3>2. ASSUME NEW e \in Claimable, SweepAndClaim({e}, w)
          PROVE  docStatus'[d] = docStatus[d]
      BY <3>2, SweepSettled
    <3> QED BY <2>1, <3>1, <3>2 DEF ClaimDocument
  <2>2. CASE FinalizeDocument(w) \/ FailDocument(w)
    BY <1>0, <2>2, CloseSettled DEF FinalizeDocument, FailDocument, docVars
  <2>3. CASE \/ \E i \in Items : PersistItem(w, i)
             \/ CheckSiblings(w) \/ MarkRunError(w)
    BY <2>3 DEF PersistItem, CheckSiblings, MarkRunError, docVars
  <2> QED BY <1>4, <2>1, <2>2, <2>3 DEF DocumentStep
<1>5. ASSUME NEW w \in Workers, Start(w) \/ AlertStep(w) \/ WorkerDies(w)
      PROVE  docStatus'[d] = docStatus[d]
  BY <1>5
  DEF Start, WorkerDies, AlertStep, ClaimAlert, PassDrain, ComposeAlert,
      MarkAttempted, CheckSent, SkipMail, SendMail, FlagSent, MarkAccepted,
      NoteResult, FinalizeSent, AlertThrows, ReleaseAlert, NoteFailed, docVars
<1>6. CASE \/ \E i \in Items : DeleteUnit(i)
           \/ \E e \in Docs : ExpireDocument(e)
           \/ ExpireAlert
           \/ UNCHANGED vars
  BY <1>6 DEF DeleteUnit, ExpireDocument, ExpireAlert, vars, docVars
<1> QED BY <1>1, <1>2, <1>3, <1>4, <1>5, <1>6 DEF Next, DispatchStep

-----------------------------------------------------------------------------
(* The theorems                                                            *)

\* The inductive invariant that needs no assumption on the dispatches.
Inv == TypeOK /\ Holding /\ Fenced

\* It holds of a new run.
LEMMA InitInv == ASSUME Init PROVE Inv
<1>1. TypeOK
  <2>1. RunTyped
    <3>1. dispatch \in Dispatches /\ dispatches \in {0, MaxDispatches}
      BY DEF Init, Dispatches
    <3>2. dispatches \in 0..MaxDispatches
      BY <3>1, CivicAssumption
    <3> QED BY <3>1, <3>2 DEF Init, RunTyped
  <2>2. DocsTyped
    <3>1. docStatus \in [Docs -> {"none", "pending", "processing", "done", "failed"}]
      <4>1. CASE docStatus = [d \in Docs |-> "none"]
        BY <4>1
      <4>2. CASE docStatus \in [Docs -> {"none", "pending"}]
        BY <4>2
      <4> QED BY <4>1, <4>2 DEF Init
    <3>2. 0 \in 0..MaxDocAttempts
      BY CivicAssumption
    <3>3. docAttempts = [d \in Docs |-> 0] /\ docOwner = [d \in Docs |-> None]
          /\ docExpired = [d \in Docs |-> FALSE]
      BY DEF Init
    <3> QED BY <3>1, <3>2, <3>3 DEF DocsTyped
  <2>3. AlertTyped
    <3>1. 0 \in 0..MaxClaims
      BY CivicAssumption
    <3> QED BY <3>1 DEF Init, AlertTyped
  <2>4. WorkersTyped
    <3>1. 0 \in 0..MaxClaims
      BY CivicAssumption
    <3> QED BY <3>1 DEF Init, WorkersTyped, Steps
  <2> QED BY <2>1, <2>2, <2>3, <2>4 DEF TypeOK
<1>2. Holding
  BY DEF Init, Holding
<1>3. Fenced
  BY DEF Init, Fenced, AcceptedForGood, PreAccept, Submitting, Skipping,
         Reporting
<1> QED BY <1>1, <1>2, <1>3 DEF Inv

\* It holds for ever, however deliveries, workers, crashes and expiries of the
\* leases interleave.
THEOREM CivicInvariant == Spec => []Inv
<1>1. Inv /\ [Next]_vars => Inv'
  BY TypeStep, HoldingStep, FencedStep DEF Inv
<1> QED BY InitInv, <1>1, PTL DEF Spec

\* Every column keeps its domain; document attempts stay within the limit, and
\* only stored promises are mailed, marked delivered or deleted.
THEOREM CivicTypeCorrect == Spec => []TypeOK
<1>1. Inv => TypeOK
  BY DEF Inv
<1> QED BY CivicInvariant, <1>1, PTL

\* A delivery the provider has accepted never becomes one that is mailed again.
THEOREM AcceptanceIsFinal == Spec => []AcceptedForGood
<1>1. Inv => AcceptedForGood
  BY DEF Inv, Fenced
<1> QED BY CivicInvariant, <1>1, PTL

\* Once the mail is accepted, nobody on the way to submit it holds the row.
THEOREM AcceptedIsNotResubmitted == Spec => []NoResubmission
<1>1. Inv => NoResubmission
  BY DEF Inv, Fenced, NoResubmission, HoldsAlert, PreAccept
<1> QED BY CivicInvariant, <1>1, PTL

\* A document that is done or failed stays so, however late the worker that
\* lost its lease comes back.
THEOREM SettledDocumentsStay == Spec => SettledForGood
<1>1. Inv /\ [Next]_vars =>
        [\A d \in Docs : Settled(d) => docStatus'[d] = docStatus[d]]_vars
  BY SettledStep DEF Inv
<1> QED BY CivicInvariant, <1>1, PTL DEF Spec, SettledForGood

=============================================================================
