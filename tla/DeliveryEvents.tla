--------------------------- MODULE DeliveryEvents ---------------------------
(***************************************************************************)
(* What became of an alert's email: the mail provider reports events by    *)
(* webhook, at least once and in any order, perhaps before the worker has  *)
(* stored the provider's id of the mail in its run.                        *)
(*                                                                         *)
(* A webhook call and the worker's update are database transactions.  A    *)
(* statement sees what is committed when it starts, and an update of the   *)
(* run's row waits for the transaction that holds the row.                 *)
(***************************************************************************)
EXTENDS Naturals, FiniteSets

CONSTANTS
  Events,       \* what the provider reports of the mail
  When,         \* event_created_at of an event, later than 0
  Telling,      \* events that carry a delivery status
  Calls,        \* webhook calls in progress at one time
  None

EventsAssumption ==
  /\ Telling \subseteq Events /\ None \notin Events
  /\ When \in [Events -> Nat \ {0}]

VARIABLES
  worker,       \* where the worker stands with the run's mail
  marking,      \* events that the trigger has marked in its transaction
  provider,     \* whether the run has the provider's id
  shown,        \* the event that the run shows, or None
  stored,       \* email_delivery_events
  matched,      \* ... of which have a scout_run_id
  call          \* webhook calls in progress

vars == <<worker, marking, provider, shown, stored, matched, call>>

NoCall == [at |-> "idle", event |-> None]

TypeOK ==
  /\ worker \in {"sending", "sent", "updating", "marked", "over"}
  /\ marking \subseteq Events /\ stored \subseteq Events /\ matched \subseteq stored
  /\ provider \in BOOLEAN
  /\ shown \in Telling \cup {None}
  /\ call \in [Calls -> [at: {"idle", "called", "inserted", "found", "lost"},
                         event: Events \cup {None}]]

Init ==
  /\ worker = "sending" /\ marking = {} /\ provider = FALSE
  /\ shown = None /\ stored = {} /\ matched = {}
  /\ call = [c \in Calls |-> NoCall]

At(c, place) == call[c].at = place
GoTo(c, place) == call' = [call EXCEPT ![c].at = place]
Done(c) == call' = [call EXCEPT ![c] = NoCall]

\* notification_event_at
ShownAt == IF shown = None THEN 0 ELSE When[shown]

\* The run's row is locked by the worker's transaction.
RowFree == worker \notin {"updating", "marked"}

-----------------------------------------------------------------------------
(* resend-webhook: record_resend_delivery_event                            *)

\* Once the mail is accepted any event may be reported, and reported again.
Report(c, e) ==
  /\ worker # "sending" /\ call[c] = NoCall
  /\ call' = [call EXCEPT ![c] = [at |-> "called", event |-> e]]
  /\ UNCHANGED <<worker, marking, provider, shown, stored, matched>>

\* ON CONFLICT DO NOTHING waits for a call that is inserting the same event.
Inserting(c, e) ==
  \E d \in Calls \ {c} : call[d].event = e /\ call[d].at \in {"inserted", "found", "lost"}

Insert(c) ==
  /\ At(c, "called") /\ ~Inserting(c, call[c].event)
  /\ \/ call[c].event \in stored /\ Done(c)
     \/ call[c].event \notin stored /\ GoTo(c, "inserted")
  /\ UNCHANGED <<worker, marking, provider, shown, stored, matched>>

\* The run is looked for by the provider's id.
Find(c) ==
  /\ At(c, "inserted")
  /\ IF provider THEN GoTo(c, "found") ELSE GoTo(c, "lost")
  /\ UNCHANGED <<worker, marking, provider, shown, stored, matched>>

\* mutant of Newer: the last report wins, whatever it reports
NewerOrNot(e) == e \in Telling

\* notification_event_at <= p_event_created_at, on the locked row
Newer(e) == e \in Telling /\ ShownAt <= When[e]

\* The event is matched, the run shows it unless it shows a newer one; commit.
Match(c) ==
  /\ At(c, "found") /\ RowFree /\ Done(c)
  /\ LET e == call[c].event IN
     /\ stored' = stored \cup {e} /\ matched' = matched \cup {e}
     /\ shown' = IF Newer(e) THEN e ELSE shown
  /\ UNCHANGED <<worker, marking, provider>>

\* No run yet: the event is only stored.
StoreOnly(c) ==
  /\ At(c, "lost") /\ Done(c)
  /\ stored' = stored \cup {call[c].event}
  /\ UNCHANGED <<worker, marking, provider, shown, matched>>

\* The call fails; the provider sends the event again.
CallFails(c) ==
  /\ call[c] # NoCall /\ Done(c)
  /\ UNCHANGED <<worker, marking, provider, shown, stored, matched>>

-----------------------------------------------------------------------------
(* The worker: markNotificationResult and the trigger of its update        *)

MailAccepted ==
  /\ worker = "sending" /\ worker' = "sent"
  /\ UNCHANGED <<marking, provider, shown, stored, matched, call>>

UpdateRun ==
  /\ worker = "sent" /\ worker' = "updating"
  /\ UNCHANGED <<marking, provider, shown, stored, matched, call>>

\* reconcile_stored_resend_events_for_run marks the events it sees ...
MarkStored ==
  /\ worker = "updating" /\ worker' = "marked" /\ marking' = stored
  /\ UNCHANGED <<provider, shown, stored, matched, call>>

\* ... and has the run show the newest of those it then sees; commit.
ShowNewest ==
  /\ worker = "marked" /\ worker' = "over"
  /\ provider' = TRUE
  /\ matched' = matched \cup marking /\ marking' = {}
  /\ LET told == stored \cap Telling IN
     \/ told = {} /\ UNCHANGED shown
     \/ \E e \in told : /\ \A f \in told : When[f] <= When[e]
                        /\ shown' = e
  /\ UNCHANGED <<stored, call>>

\* The worker dies, or its update fails: the id is never stored.
WorkerDies ==
  /\ worker \in {"sent", "updating", "marked"} /\ worker' = "over" /\ marking' = {}
  /\ UNCHANGED <<provider, shown, stored, matched, call>>

Next ==
  \/ \E c \in Calls : \/ \E e \in Events : Report(c, e)
                      \/ Insert(c) \/ Find(c) \/ Match(c) \/ StoreOnly(c) \/ CallFails(c)
  \/ MailAccepted \/ UpdateRun \/ MarkStored \/ ShowNewest \/ WorkerDies

Spec == Init /\ [][Next]_vars

-----------------------------------------------------------------------------
(* Properties                                                              *)

\* The run shows the newest of the events matched with it, in whatever order
\* and however often they were reported.
NewestEventShows ==
  \A e \in matched \cap Telling : shown # None /\ When[e] <= When[shown]
=============================================================================
