---------------------------- MODULE MCCrawlRaces ----------------------------
(* Three small instances of CrawlerJobs in one run of TLC, told apart by the *)
(* job that exists.                                                          *)
EXTENDS CrawlerJobs, TLC

CONSTANTS j1, j2, j3, r1, b1, b2, t1, t2

OneOfEach == j1 :> "page" @@ j2 :> "proxy" @@ j3 :> "pdf"
PageOfR1  == j1 :> r1 @@ j2 :> None @@ j3 :> None

Existing == {j \in Jobs : job[j].status # "absent"}

OneBatch == Cardinality({b \in Batches : batch[b].status # "none"}) <= 1
OneTask  ==
  Cardinality({t \in Tasks : task[t].phase # "free" \/ \E c \in calls : c.task = t}) <= 1
SentOnce == \A c \in calls : c.copy = 1

\* Two executions of one batch race for the job of a Page run.
Races == Existing \subseteq {j1} /\ OneBatch

\* A proxy caller and the cron dispatcher submit the same job.
Proxy == Existing \subseteq {j2} /\ OneTask

\* A job is requeued into a second batch while the first still has a task.
Requeue == Existing \subseteq {j3} /\ SentOnce

\* The behaviours that are explored.  The Page run moves only with its job.
Instances ==
  \/ Races
  \/ (Proxy \/ Requeue) /\ run = [r \in Runs |-> [ended |-> FALSE, leased |-> FALSE]]

\* Batches and executions are interchangeable.
Interchangeable == Permutations(Batches) \cup Permutations(Tasks)
=============================================================================
