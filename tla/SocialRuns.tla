------------------------------ MODULE SocialRuns ------------------------------
(***************************************************************************)
(* Social scouts: a run of an Apify actor is charged before it is started, *)
(* and a queue row follows it.  Three parties settle the row: Apify's      *)
(* webhook (delivered again until it is answered, perhaps twice at once),  *)
(* the reconciler that polls Apify for rows older than an hour, and the    *)
(* SQL failsafe.  All of them, and the kickoff itself, may die between     *)
(* statements.                                                             *)
(***************************************************************************)
EXTENDS Naturals

CONSTANTS
  Rows,        \* calls of social-kickoff, each with the queue row it inserts
  Deliveries,  \* invocations of apify-callback
  None

VARIABLES
  row,         \* apify_run_queue.status, or "none"
  linked,      \* rows with apify_run_id and started_at
  age,         \* 1, 2, 3: the row was started 1, 4, 6 hours ago
  actor,       \* the actor run at Apify
  run,         \* scout_runs.status of the run the rows belong to
  kick,        \* where each kickoff stands
  at, of,      \* where each delivery stands, and its row
  sweep,       \* the row apify-reconcile is about to poll, or None
  verdict,     \* the terminal status it decided on, or None
  eventRefunds, refunds  \* refunds by failed events, and by anyone, per row

rows == <<row, linked, age>>
deliveries == <<at, of>>
sweeper == <<sweep, verdict>>
money == <<eventRefunds, refunds>>
vars == <<rows, actor, run, kick, deliveries, sweeper, money>>

Open == {"pending", "running"}
Ended == {"failed", "timeout", "succeeded"}

TypeOK ==
  /\ row \in [Rows -> Open \cup Ended \cup {"none"}]
  /\ linked \subseteq Rows /\ age \in [Rows -> 0..3]
  /\ actor \in [Rows -> {"none", "running", "succeeded", "failed"}]
  /\ run \in {"running", "success", "error", "skipped"}
  /\ kick \in [Rows -> {"idle", "charged", "inserted", "started", "failing",
                        "refunding", "over"}]
  /\ at \in [Deliveries -> {"idle", "claim", "process", "success", "catch",
                            "event refund", "refund", "over"}]
  /\ of \in [Deliveries -> Rows \cup {None}]
  /\ sweep \in Rows \cup {None} /\ verdict \in {"failed", "timeout", "refund", None}
  /\ eventRefunds \in [Rows -> Nat] /\ refunds \in [Rows -> Nat]

Init ==
  /\ row = [k \in Rows |-> "none"] /\ linked = {} /\ age = [k \in Rows |-> 0]
  /\ actor = [k \in Rows |-> "none"] /\ run = "running"
  /\ kick = [k \in Rows |-> "idle"]
  /\ at = [d \in Deliveries |-> "idle"] /\ of = [d \in Deliveries |-> None]
  /\ sweep = None /\ verdict = None
  /\ eventRefunds = [k \in Rows |-> 0] /\ refunds = [k \in Rows |-> 0]

Refund(k) == refunds' = [refunds EXCEPT ![k] = @ + 1]

-----------------------------------------------------------------------------
(* social-kickoff                                                          *)

Step(k, from, to) == kick[k] = from /\ kick' = [kick EXCEPT ![k] = to]

\* The call charges, whatever its run's status is and whether or not an earlier
\* call of the same run already has a row; or it settles the run uncharged: no
\* such profile or no credits, no baseline, or another error.
Charge(k) ==
  /\ \/ Step(k, "idle", "charged") /\ UNCHANGED run
     \/ Step(k, "idle", "over") /\ run' \in {"skipped", "error"}
  /\ UNCHANGED <<rows, actor, deliveries, sweeper, money>>

Insert(k) ==
  /\ \/ /\ Step(k, "charged", "inserted")
        /\ row' = [row EXCEPT ![k] = "pending"] /\ UNCHANGED <<run, refunds>>
     \/ /\ Step(k, "charged", "over") /\ run' = "error" /\ Refund(k)
        /\ UNCHANGED row
  /\ UNCHANGED <<linked, age, actor, deliveries, sweeper, eventRefunds>>

\* The actor starts; the answer may be lost, which looks like a refusal.
StartActor(k) ==
  /\ \/ /\ Step(k, "inserted", "started") \/ Step(k, "inserted", "failing")
        /\ actor' = [actor EXCEPT ![k] = "running"]
     \/ Step(k, "inserted", "failing") /\ UNCHANGED actor
  /\ UNCHANGED <<rows, run, deliveries, sweeper, money>>

\* Only now can a webhook or the reconciler find the row.
Link(k) ==
  /\ \/ /\ Step(k, "started", "over")
        /\ row' = [row EXCEPT ![k] = "running"] /\ linked' = linked \cup {k}
     \/ Step(k, "started", "failing") /\ UNCHANGED <<row, linked>>
  /\ UNCHANGED <<age, actor, run, deliveries, sweeper, money>>

MarkQueueFailed(k) ==
  /\ Step(k, "failing", "refunding")
  /\ row' = [row EXCEPT ![k] = "failed"] /\ run' = "error"
  /\ UNCHANGED <<linked, age, actor, deliveries, sweeper, money>>

RefundKickoff(k) ==
  /\ Step(k, "refunding", "over") /\ Refund(k)
  /\ UNCHANGED <<rows, actor, run, deliveries, sweeper, eventRefunds>>

KickoffDies(k) ==
  /\ kick[k] \notin {"idle", "over"} /\ kick' = [kick EXCEPT ![k] = "over"]
  /\ UNCHANGED <<rows, actor, run, deliveries, sweeper, money>>

-----------------------------------------------------------------------------
(* apify-callback                                                          *)

Go(d, from, to) == at[d] = from /\ at' = [at EXCEPT ![d] = to]

\* Apify's webhook, or the reconciler's own call, finds a row that is not
\* terminal; a delivery that finds none or a terminal one answers at once.
Receive(d, k) ==
  /\ k \in linked /\ row[k] \in Open
  /\ \/ actor[k] = "failed" /\ Go(d, "idle", "claim")
     \/ actor[k] = "succeeded" /\ Go(d, "idle", "process")
  /\ of' = [of EXCEPT ![d] = k]

WebhookArrives(d, k) ==
  Receive(d, k) /\ UNCHANGED <<rows, actor, run, kick, sweeper, money>>

\* mutant of ClaimFailed: the update names the row only
ClaimFailedAlways(d) ==
  /\ Go(d, "claim", "event refund") /\ row' = [row EXCEPT ![of[d]] = "failed"]
  /\ run' = "error"
  /\ UNCHANGED <<linked, age, of, actor, kick, sweeper, money>>

\* The failed event claims the row where it is still open, and then records the
\* failure and refunds.
ClaimFailed(d) ==
  /\ \/ /\ row[of[d]] \in Open /\ Go(d, "claim", "event refund")
        /\ row' = [row EXCEPT ![of[d]] = "failed"] /\ run' = "error"
     \/ row[of[d]] \notin Open /\ Go(d, "claim", "over") /\ UNCHANGED <<row, run>>
  /\ UNCHANGED <<linked, age, of, actor, kick, sweeper, money>>

\* The succeeded event claims nothing: the dataset is processed, and then the
\* row and the run are settled.  Whatever throws goes to the catch.
Process(d) ==
  /\ \/ /\ Go(d, "process", "success")
        /\ row' = [row EXCEPT ![of[d]] = "succeeded"]
     \/ Go(d, "process", "catch") /\ UNCHANGED row
  /\ UNCHANGED <<linked, age, of, actor, run, kick, sweeper, money>>

MarkRunSuccess(d) ==
  /\ \/ Go(d, "success", "over") /\ run' = "success"
     \/ Go(d, "success", "catch") /\ UNCHANGED run
  /\ UNCHANGED <<rows, of, actor, kick, sweeper, money>>

Catch(d) ==
  /\ Go(d, "catch", "refund")
  /\ row' = [row EXCEPT ![of[d]] = "failed"] /\ run' = "error"
  /\ UNCHANGED <<linked, age, of, actor, kick, sweeper, money>>

RefundDelivery(d) ==
  /\ Refund(of[d])
  /\ \/ /\ Go(d, "event refund", "over")
        /\ eventRefunds' = [eventRefunds EXCEPT ![of[d]] = @ + 1]
     \/ Go(d, "refund", "over") /\ UNCHANGED eventRefunds
  /\ UNCHANGED <<rows, of, actor, run, kick, sweeper>>

DeliveryDies(d) ==
  /\ at[d] \notin {"idle", "over"} /\ at' = [at EXCEPT ![d] = "over"]
  /\ UNCHANGED <<rows, of, actor, run, kick, sweeper, money>>

-----------------------------------------------------------------------------
(* apify-reconcile and the failsafe                                        *)

Sweep(k) ==
  /\ sweep = None /\ row[k] = "running" /\ age[k] >= 1
  /\ sweep' = k
  /\ UNCHANGED <<rows, actor, run, kick, deliveries, verdict, money>>

\* Apify says how the actor run stands: a success becomes a call of
\* apify-callback, an end or four hours a terminal status.
Poll ==
  /\ sweep # None /\ verdict = None
  /\ \/ /\ actor[sweep] = "succeeded" /\ UNCHANGED <<sweep, verdict>>
        /\ \E d \in Deliveries : Receive(d, sweep)
     \/ /\ actor[sweep] = "failed" /\ verdict' \in {"failed", "timeout"}
        /\ UNCHANGED <<sweep, deliveries>>
     \/ /\ actor[sweep] = "running" /\ age[sweep] >= 2 /\ verdict' = "timeout"
        /\ UNCHANGED <<sweep, deliveries>>
  /\ UNCHANGED <<rows, actor, run, kick, money>>

\* markTerminal updates the row by its id, whatever became of it.
MarkTerminal ==
  /\ verdict \in {"failed", "timeout"} /\ verdict' = "refund"
  /\ row' = [row EXCEPT ![sweep] = verdict] /\ run' = "error"
  /\ UNCHANGED <<linked, age, actor, kick, deliveries, sweep, money>>

RefundTerminal ==
  /\ verdict = "refund" /\ Refund(sweep)
  /\ sweep' = None /\ verdict' = None
  /\ UNCHANGED <<rows, actor, run, kick, deliveries, eventRefunds>>

\* The row is left alone (still running, unknown status, no answer, its call
\* of the callback over), or the reconciler dies.
SweepEnds ==
  /\ sweep # None /\ sweep' = None /\ verdict' = None
  /\ UNCHANGED <<rows, actor, run, kick, deliveries, money>>

\* apify_mark_timeouts: no refund, and the run is left as it is.
MarkTimeouts ==
  /\ LET stale == {k \in linked : row[k] \in Open /\ age[k] = 3} IN
     /\ stale # {}
     /\ row' = [k \in Rows |-> IF k \in stale THEN "timeout" ELSE row[k]]
  /\ UNCHANGED <<linked, age, actor, run, kick, deliveries, sweeper, money>>

HoursPass(k) ==
  /\ k \in linked /\ row[k] \in Open /\ age[k] < 3
  /\ age' = [age EXCEPT ![k] = @ + 1]
  /\ UNCHANGED <<row, linked, actor, run, kick, deliveries, sweeper, money>>

ActorEnds(k) ==
  /\ actor[k] = "running"
  /\ \E end \in {"succeeded", "failed"} : actor' = [actor EXCEPT ![k] = end]
  /\ UNCHANGED <<rows, run, kick, deliveries, sweeper, money>>

Next ==
  \/ \E k \in Rows :
       \/ Charge(k) \/ Insert(k) \/ StartActor(k) \/ Link(k)
       \/ MarkQueueFailed(k) \/ RefundKickoff(k) \/ KickoffDies(k)
       \/ Sweep(k) \/ HoursPass(k) \/ ActorEnds(k)
       \/ \E d \in Deliveries : WebhookArrives(d, k)
  \/ \E d \in {e \in Deliveries : of[e] # None} :
       \/ ClaimFailed(d) \/ Process(d) \/ MarkRunSuccess(d) \/ Catch(d)
       \/ RefundDelivery(d) \/ DeliveryDies(d)
  \/ Poll \/ MarkTerminal \/ RefundTerminal \/ SweepEnds \/ MarkTimeouts

Spec == Init /\ [][Next]_vars

-----------------------------------------------------------------------------
(* Properties                                                              *)

\* However often and however simultaneously Apify reports that an actor run
\* failed, its callback refunds the run's charge once.
FailedEventRefundsOnce == \A k \in Rows : eventRefunds[k] <= 1

\* "... only one of two concurrent or duplicate deliveries (an Apify webhook
\* retry racing the reconcile-synthesized callback) transitions the row, so the
\* pre-charge refund below cannot fire twice" (apify-callback/index.ts:171).
RefundedOnce == \A k \in Rows : refunds[k] <= 1
=============================================================================
