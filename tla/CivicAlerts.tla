---------------------------- MODULE CivicAlerts ----------------------------
(***************************************************************************)
(* One Civic run after its dispatch has begun: civic-execute queues its    *)
(* documents, civic-extract-worker invocations lease them one by one and   *)
(* store promises, the last document settles the run, the settlement seals *)
(* an alert delivery, and whoever drains the alerts mails it under a lease *)
(* with a fencing token.                                                   *)
(*                                                                         *)
(* A SQL function and the trigger it fires are one action; a worker        *)
(* invocation is a process that awaits one database or provider call per   *)
(* action and may be killed between two.  Time only sets the flags of      *)
(* expired leases, whether or not their owner is still alive.              *)
(***************************************************************************)
EXTENDS Naturals, FiniteSets

CONSTANTS
  Docs,            \* civic_extraction_queue rows the run may get
  Items,           \* promises the documents may hold
  Workers,         \* worker invocations alive at the same time
  None,            \* SQL NULL
  MaxDocAttempts,  \* CIVIC_QUEUE_MAX_ATTEMPTS
  MaxDispatches,   \* how often the dispatch queue may deliver the run
  MaxClaims        \* bound of the model on fencing_token

ASSUME CivicAssumption ==
  /\ None \notin Docs
  /\ None \notin Workers
  /\ MaxDocAttempts \in Nat \ {0}
  /\ MaxDispatches \in Nat
  /\ MaxClaims \in Nat

VARIABLES
  runStatus,    \* scout_runs.status
  complete,     \* scout_runs.civic_dispatch_complete
  sentFlag,     \* scout_runs.notification_sent
  noted,        \* scout_runs.notification_status = 'sent'
  dispatch,     \* the civic-execute invocation of the run
  dispatches,   \* how often it was delivered
  docStatus,    \* civic_extraction_queue.status; "none": no such row
  docAttempts,  \* civic_extraction_queue.attempts
  docOwner,     \* civic_extraction_queue.lease_owner
  docExpired,   \* civic_extraction_queue.lease_expires_at <= now()
  stored,       \* civic_run_alert_items of the run
  deleted,      \* stored promises whose unit the user has deleted since
  delivered,    \* items with delivered_at
  alert,        \* civic_run_alert_deliveries.state; "none": not sealed
  fence,        \* civic_run_alert_deliveries.fencing_token
  alertOwner,   \* civic_run_alert_deliveries.lease_owner
  alertExpired, \* civic_run_alert_deliveries.lease_expires_at < now()
  accepted,     \* provider_accepted_at is set
  muted,        \* the delivery was closed with last_error 'skipped'
  inbox,        \* the items of the mail the provider delivered, {}: none
  pc,           \* what an invocation does next
  doc,          \* the document it claimed
  token,        \* the fencing token of the alert it claimed, 0: none
  payload       \* the items of the mail it composed

runVars    == <<runStatus, complete, sentFlag, noted>>
procVars   == <<dispatch, dispatches>>
docVars    == <<docStatus, docAttempts, docOwner, docExpired>>
itemVars   == <<stored, deleted, delivered>>
ledgerVars == <<alert, fence, alertOwner, alertExpired, accepted, muted>>
workerVars == <<pc, doc, token, payload>>
vars == <<runVars, procVars, docVars, itemVars, ledgerVars, inbox, workerVars>>

\* "claimed": the dispatch queue leased the run, civic-execute has not begun.
\* "queuing"/"queued": it has queued no document yet, or some.
Dispatches == {"idle", "claimed", "queuing", "queued", "ended"}
\* "ready": drains alerts before its document; "draining": after it.
\* Until "flagging" the alert may be handed back as failed; from "accepting"
\* on the provider has taken the mail ("silencing": nothing was to be sent).
Submitting == {"composing", "attempted", "checking", "sending", "flagging"}
Reporting  == {"noting", "finalizing"}
Skipping   == {"muting", "silencing"}
Steps == {"gone", "ready", "drained", "extracting", "draining", "docFailed",
          "erroring", "accepting", "releasing", "mailFailed"}
         \cup Submitting \cup Reporting \cup Skipping

RunTyped ==
  /\ runStatus \in {"running", "success", "error", "skipped"}
  /\ complete \in BOOLEAN /\ sentFlag \in BOOLEAN /\ noted \in BOOLEAN
  /\ dispatch \in Dispatches
  /\ dispatches \in 0..MaxDispatches

DocsTyped ==
  /\ docStatus \in [Docs -> {"none", "pending", "processing", "done", "failed"}]
  /\ docAttempts \in [Docs -> 0..MaxDocAttempts]
  /\ docOwner \in [Docs -> Workers \cup {None}]
  /\ docExpired \in [Docs -> BOOLEAN]

AlertTyped ==
  /\ stored \subseteq Items /\ deleted \subseteq stored
  /\ delivered \subseteq stored /\ inbox \subseteq stored
  /\ alert \in {"none", "pending", "sending", "provider_accepted", "sent",
                "failed"}
  /\ fence \in 0..MaxClaims
  /\ alertOwner \in Workers \cup {None}
  /\ alertExpired \in BOOLEAN /\ accepted \in BOOLEAN /\ muted \in BOOLEAN

WorkersTyped ==
  /\ pc \in [Workers -> Steps]
  /\ doc \in [Workers -> Docs \cup {None}]
  /\ token \in [Workers -> 0..MaxClaims]
  /\ payload \in [Workers -> SUBSET stored]

\* Every column keeps its domain; document attempts stay within the limit, and
\* only stored promises are mailed, marked delivered or deleted.
TypeOK == RunTyped /\ DocsTyped /\ AlertTyped /\ WorkersTyped

Open(status)   == \E d \in Docs : status[d] \in {"pending", "processing"}
Failed(status) == \E d \in Docs : status[d] = "failed"
Settled(d)     == docStatus[d] \in {"done", "failed"}

\* A dispatched run has no documents yet; enqueue_initial_civic_run creates
\* its run, complete, and all its documents in one transaction.
Init ==
  /\ \/ /\ dispatch = "idle" /\ dispatches = 0
        /\ docStatus = [d \in Docs |-> "none"]
     \/ /\ dispatch = "ended" /\ dispatches = MaxDispatches
        /\ docStatus \in [Docs -> {"none", "pending"}] /\ Open(docStatus)
  /\ runStatus = "running" /\ complete = TRUE
  /\ sentFlag = FALSE /\ noted = FALSE
  /\ docAttempts = [d \in Docs |-> 0]
  /\ docOwner = [d \in Docs |-> None]
  /\ docExpired = [d \in Docs |-> FALSE]
  /\ stored = {} /\ deleted = {} /\ delivered = {} /\ inbox = {}
  /\ alert = "none" /\ fence = 0 /\ alertOwner = None
  /\ alertExpired = FALSE /\ accepted = FALSE /\ muted = FALSE
  /\ pc = [w \in Workers |-> "gone"]
  /\ doc = [w \in Workers |-> None]
  /\ token = [w \in Workers |-> 0]
  /\ payload = [w \in Workers |-> {}]

-----------------------------------------------------------------------------
(* The run row and its trigger                                             *)

\* seal_civic_run_alert_delivery: the first change to success seals an alert.
SealedBy(status) ==
  IF /\ status = "success" /\ runStatus # "success"
     /\ \E d \in Docs : docStatus[d] # "none"
     /\ stored # {} /\ alert = "none"
  THEN "pending" ELSE alert

SetRun(status) == runStatus' = status /\ alert' = SealedBy(status)

\* Everything of the ledger but the state, which the trigger may set.
leaseVars == <<fence, alertOwner, alertExpired, accepted, muted>>

-----------------------------------------------------------------------------
(* civic-execute                                                           *)

\* claim_scout_dispatch_batch leases a run that is not terminal: the first
\* time, or again when the lease of an earlier invocation has lapsed.
Deliver ==
  /\ dispatch \in {"idle", "ended"} /\ dispatches < MaxDispatches
  /\ runStatus = "running"
  /\ dispatch' = "claimed" /\ dispatches' = dispatches + 1
  /\ UNCHANGED <<runVars, docVars, itemVars, ledgerVars, inbox, workerVars>>

\* resolveRun: whatever the status has become by now, the run is reopened.
Begin ==
  /\ dispatch = "claimed"
  /\ SetRun("running")
  /\ complete' = FALSE
  /\ dispatch' = "queuing"
  /\ UNCHANGED <<sentFlag, noted, dispatches, docVars, itemVars, leaseVars,
                 inbox, workerVars>>

\* A document whose URL has no pending or processing row gets a row.
QueueDocument(d) ==
  /\ dispatch \in {"queuing", "queued"}
  /\ docStatus[d] = "none"
  /\ docStatus' = [docStatus EXCEPT ![d] = "pending"]
  /\ dispatch' = "queued"
  /\ UNCHANGED <<runVars, dispatches, docAttempts, docOwner, docExpired,
                 itemVars, ledgerVars, inbox, workerVars>>

\* Nothing queued: markRunSuccess, or "skipped" when every page is gone.
EndEmpty ==
  /\ dispatch = "queuing"
  /\ \E status \in {"success", "skipped"} : SetRun(status)
  /\ noted' = FALSE
  /\ dispatch' = "ended"
  /\ UNCHANGED <<complete, sentFlag, dispatches, docVars, itemVars, leaseVars,
                 inbox, workerVars>>

SettleEarly ==             \* mutant of CompleteDispatch: ignores open documents
  /\ dispatch = "queued"
  /\ complete' = TRUE
  /\ SetRun(IF Failed(docStatus) THEN "error" ELSE "success")
  /\ noted' = FALSE
  /\ dispatch' = "ended"
  /\ UNCHANGED <<sentFlag, dispatches, docVars, itemVars, leaseVars, inbox,
                 workerVars>>

\* complete_civic_dispatch; the drain that follows it is a worker's.
CompleteDispatch ==
  /\ dispatch = "queued"
  /\ complete' = TRUE
  /\ SetRun(IF Open(docStatus) THEN runStatus
            ELSE IF Failed(docStatus) THEN "error" ELSE "success")
  /\ noted' = (noted /\ Open(docStatus))
  /\ dispatch' = "ended"
  /\ UNCHANGED <<sentFlag, dispatches, docVars, itemVars, leaseVars, inbox,
                 workerVars>>

\* The catch of civic-execute: the run is an error, documents or not.
DispatchFails ==
  /\ dispatch \in {"queuing", "queued"}
  /\ SetRun("error") /\ noted' = FALSE
  /\ dispatch' = "ended"
  /\ UNCHANGED <<complete, sentFlag, dispatches, docVars, itemVars, leaseVars,
                 inbox, workerVars>>

DispatchDies ==
  /\ dispatch \in {"claimed", "queuing", "queued"}
  /\ dispatch' = "ended"
  /\ UNCHANGED <<runVars, dispatches, docVars, itemVars, ledgerVars, inbox,
                 workerVars>>

\* finish_scout_dispatch(false), after a timeout of the gateway or a broken
\* connection while civic-execute goes on: the row is closed for good.  (When it
\* has ended the step is ReconcileStale's.)
ReportFailed ==
  /\ dispatch \in {"claimed", "queuing", "queued"} /\ runStatus = "running"
  /\ SetRun("error")
  /\ dispatches' = MaxDispatches
  /\ UNCHANGED <<complete, sentFlag, noted, dispatch, docVars, itemVars,
                 leaseVars, inbox, workerVars>>

\* reconcile_stale_scout_runs, on a run nothing in the dispatch queue stands
\* for; also the drain or the claim that gives up a row whose call has ended.
ReconcileStale ==
  /\ runStatus = "running" /\ dispatch = "ended"
  /\ SetRun("error")
  /\ UNCHANGED <<complete, sentFlag, noted, procVars, docVars, itemVars,
                 leaseVars, inbox, workerVars>>

-----------------------------------------------------------------------------
(* The document queue                                                      *)

Lapsed == {d \in Docs : docStatus[d] = "processing" /\ docExpired[d]}
SweptLate(d) ==            \* mutant of Swept: off by one
  IF d \notin Lapsed THEN docStatus[d]
  ELSE IF docAttempts[d] > MaxDocAttempts THEN "failed" ELSE "pending"
Swept(d) ==
  IF d \notin Lapsed THEN docStatus[d]
  ELSE IF docAttempts[d] >= MaxDocAttempts THEN "failed" ELSE "pending"
SweptStatus == [d \in Docs |-> Swept(d)]

\* The part of civic_queue_failsafe that closes a run: a document was given up,
\* and none is open any more.
SweepRun ==
  IF /\ \E d \in Lapsed : Swept(d) = "failed"
     /\ runStatus = "running" /\ ~Open(SweptStatus)
  THEN SetRun("error") /\ noted' = FALSE
  ELSE UNCHANGED <<runStatus, alert, noted>>

\* civic_queue_failsafe leaves every lapsed row unowned, then claims C.
SweepAndClaim(C, w) ==
  /\ SweepRun
  /\ docStatus' = [d \in Docs |-> IF d \in C THEN "processing" ELSE Swept(d)]
  /\ docAttempts' = [d \in Docs |->
       IF d \in C THEN docAttempts[d] + 1 ELSE docAttempts[d]]
  /\ docOwner' = [d \in Docs |->
       IF d \in C THEN w ELSE IF d \in Lapsed THEN None ELSE docOwner[d]]
  /\ docExpired' = [d \in Docs |-> docExpired[d] /\ d \notin C \cup Lapsed]

\* The cron job civic-queue-failsafe.
Failsafe ==
  /\ Lapsed # {}
  /\ SweepAndClaim({}, None)
  /\ UNCHANGED <<complete, sentFlag, procVars, itemVars, leaseVars, inbox,
                 workerVars>>

Claimable == {d \in Docs : Swept(d) = "pending"
                           /\ docAttempts[d] < MaxDocAttempts}

\* An invocation returns, or is killed: its locals are lost.
Leave(w) ==
  /\ pc' = [pc EXCEPT ![w] = "gone"]
  /\ doc' = [doc EXCEPT ![w] = None]
  /\ token' = [token EXCEPT ![w] = 0]
  /\ payload' = [payload EXCEPT ![w] = {}]

GoTo(w, step) ==
  pc' = [pc EXCEPT ![w] = step] /\ UNCHANGED <<doc, token, payload>>

\* pg_cron posts every two minutes.  A worker id is a fresh UUID: no row still
\* carries it.
Start(w) ==
  /\ pc[w] = "gone"
  /\ alertOwner # w /\ \A d \in Docs : docOwner[d] # w
  /\ GoTo(w, "ready")
  /\ UNCHANGED <<runVars, procVars, docVars, itemVars, ledgerVars, inbox>>

\* claim_civic_queue_item: the failsafe, then the oldest row that no other
\* transaction has locked, so any.
ClaimDocument(w) ==
  /\ pc[w] = "drained"
  /\ \/ /\ Claimable = {}
        /\ SweepAndClaim({}, None)
        /\ Leave(w)
     \/ \E d \in Claimable :
          /\ SweepAndClaim({d}, w)
          /\ pc' = [pc EXCEPT ![w] = "extracting"]
          /\ doc' = [doc EXCEPT ![w] = d]
          /\ UNCHANGED <<token, payload>>
  /\ UNCHANGED <<complete, sentFlag, procVars, itemVars, leaseVars, inbox>>

OwnsById(w) == doc[w] # None           \* mutant of OwnsDocument: no lease
\* Persisting, failing and finalizing a document need its unexpired lease.
OwnsDocument(w) ==
  /\ docStatus[doc[w]] = "processing"
  /\ docOwner[doc[w]] = w
  /\ ~docExpired[doc[w]]

\* persist_civic_item, a promise that has no tracker yet.  Any document may be
\* the first to hold it; a repeated call changes nothing.
PersistItem(w, i) ==
  /\ pc[w] = "extracting" /\ OwnsDocument(w)
  /\ i \notin stored
  /\ stored' = stored \cup {i}
  /\ UNCHANGED <<runVars, procVars, docVars, deleted, delivered, ledgerVars,
                 inbox, workerVars>>

\* A row leaves the leased state; nobody owns it any more.
CloseDocument(d, status) ==
  /\ docStatus' = [docStatus EXCEPT ![d] = status]
  /\ docOwner' = [docOwner EXCEPT ![d] = None]
  /\ docExpired' = [docExpired EXCEPT ![d] = FALSE]
  /\ UNCHANGED docAttempts

\* mutant of SettledStatus: civic_dispatch_complete is not looked at
AnySettledStatus(status) ==
  IF Open(status) THEN runStatus
  ELSE IF Failed(status) THEN "error" ELSE "success"
\* A dispatch that still runs counts as one more open document.
SettledStatus(status) ==
  IF Open(status) \/ ~complete THEN runStatus
  ELSE IF Failed(status) THEN "error" ELSE "success"

\* finalize_civic_run_doc; without the lease it changes nothing and the
\* invocation ends.
FinalizeDocument(w) ==
  /\ pc[w] = "extracting"
  /\ IF OwnsDocument(w)
     THEN LET status == [docStatus EXCEPT ![doc[w]] = "done"] IN
          /\ CloseDocument(doc[w], "done")
          /\ SetRun(SettledStatus(status))
          /\ noted' = (noted /\ (Open(status) \/ ~complete))
          /\ GoTo(w, "draining")
     ELSE /\ Leave(w)
          /\ UNCHANGED <<runStatus, noted, docVars, alert>>
  /\ UNCHANGED <<complete, sentFlag, procVars, itemVars, leaseVars, inbox>>

\* fail_civic_queue_item, after any error, a lost heartbeat included.
FailDocument(w) ==
  /\ pc[w] = "extracting"
  /\ IF OwnsDocument(w)
     THEN IF docAttempts[doc[w]] >= MaxDocAttempts
          THEN CloseDocument(doc[w], "failed") /\ GoTo(w, "docFailed")
          ELSE CloseDocument(doc[w], "pending") /\ Leave(w)
     ELSE Leave(w) /\ UNCHANGED docVars
  /\ UNCHANGED <<runVars, procVars, itemVars, ledgerVars, inbox>>

\* markLinkedRunFailedIfSettled looks at the siblings, then writes the run.
CheckSiblings(w) ==
  /\ pc[w] = "docFailed"
  /\ IF Open(docStatus) THEN Leave(w) ELSE GoTo(w, "erroring")
  /\ UNCHANGED <<runVars, procVars, docVars, itemVars, ledgerVars, inbox>>

MarkRunError(w) ==
  /\ pc[w] = "erroring"
  /\ SetRun("error") /\ noted' = FALSE
  /\ Leave(w)
  /\ UNCHANGED <<complete, sentFlag, procVars, docVars, itemVars, leaseVars,
                 inbox>>

-----------------------------------------------------------------------------
(* The alert ledger                                                        *)

\* The row the claim takes: an accepted delivery even under a live lease.
Due == \/ alert \in {"pending", "failed", "provider_accepted"}
       \/ alert = "sending" /\ alertExpired

DrainStep(w) == pc[w] \in {"ready", "draining"}

ClaimResends(w) ==         \* mutant of ClaimAlert: before 20260930140000
  /\ DrainStep(w) /\ Due /\ fence < MaxClaims
  /\ fence' = fence + 1
  /\ alert' = "sending"
  /\ alertOwner' = w /\ alertExpired' = FALSE
  /\ token' = [token EXCEPT ![w] = fence + 1]
  /\ pc' = [pc EXCEPT ![w] =
       IF alert = "provider_accepted" THEN "noting" ELSE "composing"]
  /\ UNCHANGED <<runVars, procVars, docVars, itemVars, accepted, muted, inbox,
                 doc, payload>>

\* claim_civic_run_alert_delivery; needs_provider_submission picks the branch
\* of deliverCivicRunAlert.
ClaimAlert(w) ==
  /\ DrainStep(w) /\ Due /\ fence < MaxClaims
  /\ fence' = fence + 1
  /\ alert' = IF accepted THEN "provider_accepted" ELSE "sending"
  /\ alertOwner' = w /\ alertExpired' = FALSE
  /\ token' = [token EXCEPT ![w] = fence + 1]
  /\ pc' = [pc EXCEPT ![w] = IF accepted THEN "noting" ELSE "composing"]
  /\ UNCHANGED <<runVars, procVars, docVars, itemVars, accepted, muted, inbox,
                 doc, payload>>

\* After the drain before its document an invocation claims one; after the
\* drain behind it, it ends.
AfterDrain(w) ==
  /\ pc' = [pc EXCEPT ![w] = IF doc[w] = None THEN "drained" ELSE "gone"]
  /\ doc' = [doc EXCEPT ![w] = None]
  /\ token' = [token EXCEPT ![w] = 0]
  /\ payload' = [payload EXCEPT ![w] = {}]

\* drainCivicRunAlerts found nothing, or its query failed.
PassDrain(w) ==
  /\ DrainStep(w)
  /\ AfterDrain(w)
  /\ UNCHANGED <<runVars, procVars, docVars, itemVars, ledgerVars, inbox>>

\* The undelivered items whose unit still exists; none: nothing to send.
ComposeAlert(w) ==
  /\ pc[w] = "composing"
  /\ LET rows == (stored \ delivered) \ deleted IN
       /\ payload' = [payload EXCEPT ![w] = rows]
       /\ pc' = [pc EXCEPT ![w] = IF rows = {} THEN "muting" ELSE "attempted"]
  /\ UNCHANGED <<runVars, procVars, docVars, itemVars, ledgerVars, inbox,
                 doc, token>>

\* markNotificationAttempted: notification_status is back to pending.
MarkAttempted(w) ==
  /\ pc[w] = "attempted"
  /\ noted' = FALSE
  /\ GoTo(w, "checking")
  /\ UNCHANGED <<runStatus, complete, sentFlag, procVars, docVars, itemVars,
                 ledgerVars, inbox>>

\* guarded reads whether the run was mailed already.
CheckSent(w) ==
  /\ pc[w] = "checking"
  /\ GoTo(w, IF sentFlag \/ noted THEN "accepting" ELSE "sending")
  /\ UNCHANGED <<runVars, procVars, docVars, itemVars, ledgerVars, inbox>>

\* Mail is switched off, or the user has no address.
SkipMail(w) ==
  /\ pc[w] = "sending"
  /\ GoTo(w, "muting")
  /\ UNCHANGED <<runVars, procVars, docVars, itemVars, ledgerVars, inbox>>

SendUnchecked(w) ==        \* mutant of SendMail: a failed send is not thrown
  /\ pc[w] = "sending"
  /\ inbox' \in {inbox, IF inbox = {} THEN payload[w] ELSE inbox}
  /\ GoTo(w, "flagging")
  /\ UNCHANGED <<runVars, procVars, docVars, itemVars, ledgerVars>>

\* The provider delivers one mail per key.  It may take the request and its
\* answer be lost, fail it, or refuse a repeated key with another body.
SendMail(w) ==
  /\ pc[w] = "sending"
  /\ \/ /\ inbox' = IF inbox = {} THEN payload[w] ELSE inbox
        /\ \E step \in {"flagging", "releasing"} : GoTo(w, step)
     \/ UNCHANGED inbox /\ GoTo(w, "releasing")
  /\ UNCHANGED <<runVars, procVars, docVars, itemVars, ledgerVars>>

\* guarded sets notification_sent; a failure is only logged.
FlagSent(w) ==
  /\ pc[w] = "flagging"
  /\ sentFlag' \in {sentFlag, TRUE}
  /\ GoTo(w, "accepting")
  /\ UNCHANGED <<runStatus, complete, noted, procVars, docVars, itemVars,
                 ledgerVars, inbox>>

AnyHolder(w) == token[w] > 0           \* mutant of HoldsAlert: no fencing
\* lease_owner and fencing_token of the row are still those of the claim.
HoldsAlert(w) == alertOwner = w /\ fence = token[w]

\* mark_civic_run_alert_provider_accepted.  A lost lease is thrown, but the
\* mail is out: the row is not handed back.
MarkAccepted(w) ==
  /\ pc[w] = "accepting"
  /\ IF alert = "sending" /\ HoldsAlert(w) /\ ~alertExpired
     THEN /\ alert' = "provider_accepted" /\ accepted' = TRUE
          /\ GoTo(w, "noting")
     ELSE UNCHANGED <<alert, accepted>> /\ GoTo(w, "mailFailed")
  /\ UNCHANGED <<runVars, procVars, docVars, itemVars, fence, alertOwner,
                 alertExpired, muted, inbox>>

\* markNotificationResult: sent, or skipped.
NoteResult(w) ==
  /\ pc[w] \in {"noting", "muting"}
  /\ noted' = (pc[w] = "noting")
  /\ GoTo(w, IF pc[w] = "noting" THEN "finalizing" ELSE "silencing")
  /\ UNCHANGED <<runStatus, complete, sentFlag, procVars, docVars, itemVars,
                 ledgerVars, inbox>>

\* finalize_civic_run_alert_delivery(..., 'sent') consumes the items with the
\* row; when it is not the claimant's any more the error is thrown.
FinalizeSent(w) ==
  /\ pc[w] \in {"finalizing", "silencing"}
  /\ IF alert \in {"sending", "provider_accepted"} /\ HoldsAlert(w)
     THEN /\ alert' = "sent" /\ muted' = (pc[w] = "silencing")
          /\ alertOwner' = None /\ alertExpired' = FALSE
          /\ delivered' = stored
          /\ AfterDrain(w)
     ELSE /\ GoTo(w, IF pc[w] = "silencing" THEN "releasing" ELSE "mailFailed")
          /\ UNCHANGED <<alert, muted, alertOwner, alertExpired, delivered>>
  /\ UNCHANGED <<runVars, procVars, docVars, stored, deleted, fence, accepted,
                 inbox>>

\* Any call of deliverCivicRunAlert may reject: its catch hands the row back
\* unless the provider has taken the mail.
AlertThrows(w) ==
  /\ \/ /\ pc[w] \in Submitting \cup Skipping
        /\ GoTo(w, "releasing")
     \/ /\ \/ DrainStep(w) /\ Due
           \/ pc[w] \in Reporting \cup {"accepting"}
        /\ GoTo(w, "mailFailed")
  /\ UNCHANGED <<runVars, procVars, docVars, itemVars, ledgerVars, inbox>>

\* finalize_civic_run_alert_delivery(..., 'failed'); its own error is logged.
ReleaseAlert(w) ==
  /\ pc[w] = "releasing"
  /\ IF alert \in {"sending", "provider_accepted"} /\ HoldsAlert(w)
     THEN /\ alert' \in {"failed", alert}
          /\ IF alert' = "failed"
             THEN /\ alertOwner' = None /\ alertExpired' = FALSE
                  /\ muted' = FALSE
             ELSE UNCHANGED <<alertOwner, alertExpired, muted>>
     ELSE UNCHANGED <<alert, alertOwner, alertExpired, muted>>
  /\ GoTo(w, "mailFailed")
  /\ UNCHANGED <<runVars, procVars, docVars, itemVars, fence, accepted, inbox>>

\* markNotificationResult(..., "failed"), whoever has written what before; when
\* it rejects, the drain ends and its caller logs that.
NoteFailed(w) ==
  /\ pc[w] = "mailFailed"
  /\ noted' \in {FALSE, noted}
  /\ AfterDrain(w)
  /\ UNCHANGED <<runStatus, complete, sentFlag, procVars, docVars, itemVars,
                 ledgerVars, inbox>>

WorkerDies(w) ==
  /\ pc[w] # "gone"
  /\ Leave(w)
  /\ UNCHANGED <<runVars, procVars, docVars, itemVars, ledgerVars, inbox>>

-----------------------------------------------------------------------------
(* The user and the clock                                                  *)

\* Deleting a unit whose item is delivered changes nothing here.
DeleteUnit(i) ==
  /\ i \in stored \ (deleted \cup delivered)
  /\ deleted' = deleted \cup {i}
  /\ UNCHANGED <<runVars, procVars, docVars, stored, delivered, ledgerVars,
                 inbox, workerVars>>

ExpireDocument(d) ==
  /\ docStatus[d] = "processing" /\ ~docExpired[d]
  /\ docExpired' = [docExpired EXCEPT ![d] = TRUE]
  /\ UNCHANGED <<runVars, procVars, docStatus, docAttempts, docOwner, itemVars,
                 ledgerVars, inbox, workerVars>>

\* Only a delivery that is being sent looks at its lease.
ExpireAlert ==
  /\ alert = "sending" /\ ~alertExpired
  /\ alertExpired' = TRUE
  /\ UNCHANGED <<runVars, procVars, docVars, itemVars, alert, fence,
                 alertOwner, accepted, muted, inbox, workerVars>>

-----------------------------------------------------------------------------
DispatchStep ==
  \/ Deliver \/ Begin \/ (\E d \in Docs : QueueDocument(d)) \/ EndEmpty
  \/ CompleteDispatch \/ DispatchFails \/ DispatchDies \/ ReportFailed

DocumentStep(w) ==
  \/ ClaimDocument(w) \/ (\E i \in Items : PersistItem(w, i))
  \/ FinalizeDocument(w) \/ FailDocument(w) \/ CheckSiblings(w)
  \/ MarkRunError(w)

AlertStep(w) ==
  \/ ClaimAlert(w) \/ PassDrain(w) \/ ComposeAlert(w) \/ MarkAttempted(w)
  \/ CheckSent(w) \/ SkipMail(w) \/ SendMail(w) \/ FlagSent(w)
  \/ MarkAccepted(w) \/ NoteResult(w) \/ FinalizeSent(w) \/ AlertThrows(w)
  \/ ReleaseAlert(w) \/ NoteFailed(w)

Next ==
  \/ DispatchStep \/ ReconcileStale \/ Failsafe
  \/ \E w \in Workers : Start(w) \/ DocumentStep(w) \/ AlertStep(w)
                        \/ WorkerDies(w)
  \/ \E i \in Items : DeleteUnit(i)
  \/ \E d \in Docs : ExpireDocument(d)
  \/ ExpireAlert

Spec == Init /\ [][Next]_vars

\* pg_cron starts workers and runs the failsafe for ever, time passes, and an
\* invocation that hangs is ended by the runtime: it takes some step or dies.
\* Any of them may die at any step, only not all of them, for ever, before
\* they have claimed a document.
Fairness ==
  /\ WF_vars(Failsafe)
  /\ \A d \in Docs : WF_vars(ExpireDocument(d))
  /\ \A w \in Workers :
       /\ WF_vars(Start(w))
       /\ WF_vars(DocumentStep(w) \/ AlertStep(w) \/ WorkerDies(w))
  /\ SF_vars(\E w \in Workers : PassDrain(w))
  /\ SF_vars(\E w \in Workers : ClaimDocument(w))

LiveSpec == Spec /\ Fairness

-----------------------------------------------------------------------------
(* Properties                                                              *)

\* Only a fully dispatched, settled run seals an alert: at the step that does,
\* civic-execute has queued all its documents and every one of them is done.
SealsSettledRun ==
  [][alert = "none" /\ alert' # "none" =>
       /\ complete'
       /\ \A d \in Docs : docStatus'[d] \in {"none", "done"}]_vars

\* A run reported as a success has no open and no failed document, whichever of
\* dispatcher, workers and failsafe wrote the status last.
SuccessMeansDone ==
  runStatus = "success" => \A d \in Docs : docStatus[d] \in {"none", "done"}

\* A delivery closed as sent leaves no item of its run behind, and unless it was
\* skipped every item it consumed was in the mail or deleted by the user.
SentMeansMailed ==
  alert = "sent" => /\ delivered = stored
                    /\ muted \/ delivered \subseteq inbox \cup deleted

\* The alert seen from the user: AlertBox, mailed once and as a whole.
Stage ==
  IF alert = "none" THEN "open"
  ELSE IF alert # "sent" THEN "sealed" ELSE IF muted THEN "skipped" ELSE "mailed"

Box == INSTANCE AlertBox WITH
  stage <- Stage, box <- stored, gone <- deleted, used <- delivered, mail <- inbox

\* The alert ledger implements the box: nothing is stored behind the seal, the
\* mail leaves nothing out that is not deleted, and a delivery is closed once,
\* with all its items, by whoever of the racing workers closes it.
KeepsTheBox == Box!Spec

\* Acceptance by the provider is never forgotten: no claim, late worker or
\* failing one moves the row back to a state that is mailed again.
AcceptedForGood == accepted => alert \in {"provider_accepted", "sent"}

\* Once the provider has accepted the mail, nobody on the way to submit it
\* holds the row: what is still under way was superseded and will be refused.
NoResubmission ==
  accepted => \A w \in Workers :
    pc[w] \in Submitting \cup {"accepting"} => ~HoldsAlert(w)

\* A document that is done or failed stays so, however late the worker that
\* lost its lease comes back.
SettledForGood ==
  [][\A d \in Docs : Settled(d) => docStatus'[d] = docStatus[d]]_vars

\* A queued document is eventually done or given up, though workers may die at
\* any step.
DocumentsSettle ==
  \A d \in Docs : docStatus[d] \in {"pending", "processing"} ~> Settled(d)

=============================================================================
