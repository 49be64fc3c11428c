------------------------------ MODULE AlertMail ------------------------------
(***************************************************************************)
(* The mails of Civic scouts: alerts of what documents say (CivicAlerts),  *)
(* what the provider reports of an alert (DeliveryEvents), and reminders   *)
(* of promises that come due (PromiseReminders).  The three share no state.*)
(***************************************************************************)
EXTENDS CivicAlerts

CONSTANTS
  MailEvents, When, Telling, Calls,   \* of DeliveryEvents
  Promises, Limit, MaxRuns            \* of PromiseReminders

VARIABLES
  sender, marking, known, shown, arrived, matched, call,
  promise, notified, listens, reminder, lessee, lapsed, provider, mails,
  todo, needs, place, runs

events    == <<sender, marking, known, shown, arrived, matched, call>>
reminders == <<promise, notified, listens, reminder, lessee, lapsed, provider,
               mails, todo, needs, place, runs>>

Events == INSTANCE DeliveryEvents WITH
  Events <- MailEvents, worker <- sender, provider <- known, stored <- arrived

Reminders == INSTANCE PromiseReminders WITH
  status <- promise, state <- reminder, owner <- lessee, pc <- place

ASSUME EventsAssumed == Events!EventsAssumption
ASSUME RemindersAssumed == Reminders!RemindersAssumption

-----------------------------------------------------------------------------
(* The properties of the parts, under one roof                             *)

\* The run shows the newest of the delivery events matched with it.
NewestEventShows == Events!NewestEventShows

\* A promise's deadline is mailed once, and stamped only when it was mailed.
RemindedOnce == Reminders!RemindedOnce
=============================================================================
