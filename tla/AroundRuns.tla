------------------------------ MODULE AroundRuns ------------------------------
(***************************************************************************)
(* What goes on around the runs of a scout: the credits they are charged   *)
(* (CreditLedger), the actor runs that social scouts wait for (SocialRuns) *)
(* and the schedule that starts them (ScoutSchedule).  The three share no  *)
(* state.                                                                  *)
(***************************************************************************)
EXTENDS CreditLedger

CONSTANTS
  Rows, Deliveries,                         \* of SocialRuns
  Ticks, Requests, Schedules, Offset, End,  \* of ScoutSchedule
  MaxRequests, Overlap

VARIABLES
  row, linked, age, actor, run, kick, at, of, sweep, verdict,
  eventRefunds, refunds,
  clock, active, cron, mark, job, tick, dispatched, request, made,
  owed

social == <<row, linked, age, actor, run, kick, at, of, sweep, verdict,
            eventRefunds, refunds>>
schedule == <<clock, active, cron, mark, job, tick, dispatched, request, made,
              owed>>

Social == INSTANCE SocialRuns
Schedule == INSTANCE ScoutSchedule

\* A row is not None; minutes and offsets are whole numbers.
ASSUME SocialAssumed == None \notin Rows
ASSUME ScheduleAssumed == Schedule!ScheduleAssumption

-----------------------------------------------------------------------------
(* The properties of the parts, under one roof                             *)

\* However often Apify reports a failed run, the callback refunds it once.
FailedEventRefundsOnce == Social!FailedEventRefundsOnce

\* A wall-clock minute dispatches a scheduled scout at most once.
OncePerSlot == Schedule!OncePerSlot

\* Between requests an active scout has its cron job, unless a request that
\* broke off or lost its answer left it behind.
ActiveHasJob == Schedule!ActiveHasJob
=============================================================================
