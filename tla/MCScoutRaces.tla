---------------------------- MODULE MCScoutRaces ----------------------------
(* Three small instances of ScoutDispatch in one run of TLC, told apart by  *)
(* the runs that exist.                                                     *)
EXTENDS ScoutDispatch, TLC

CONSTANTS r1, r2, r3, p1, c1, s1, s2, s3, w1, w2

BeatRuns == {r1, r2, r3}

ThreeScouts == [r \in Runs |-> CASE r \in BeatRuns -> s1 [] r = p1 -> s2 [] r = c1 -> s3]
OneOfEach   == s1 :> "beat" @@ s2 :> "web" @@ s3 :> "civic"

Existing == {r \in Runs : runStatus[r] # "absent"}
FirstTry == {r \in Existing : retryOf[r] = None}
Drains   == {leaseOwner[r] : r \in Runs} \cup {caller[r][1] : r \in Runs}
OneDrain == Cardinality(Drains \ {None}) <= 1

\* Cron tick, Run Now and deferred retry race for the slot of one Beat scout:
\* two runs that are no retries, one after the other or at once, and a retry.
Races == Existing \subseteq BeatRuns /\ Cardinality(FirstTry) <= 2 /\ OneDrain

\* Two drains compete for one dispatch slot over a Beat and a Page scout with a
\* run each, scheduled or manual.  Only failures pause these scouts.
Pool ==
  /\ c1 \notin Existing /\ Cardinality(Existing \cap BeatRuns) <= 1
  /\ Existing = FirstTry
  /\ \A s \in Scouts : isActive[s] \/ failures[s] >= Threshold

\* The documents of one Civic run settle while its dispatch still runs.
Civic == Existing \subseteq {c1} /\ OneDrain

\* The behaviours that are explored.  Nobody pauses a scout without runs.
Instances ==
  /\ Races \/ Pool \/ Civic
  /\ \A s \in Scouts : RunsOf(s) \cap Existing = {} => isActive[s]

\* The runs of the Beat scout and the drains are interchangeable.
Interchangeable == Permutations(BeatRuns) \cup Permutations(Workers)
=============================================================================
