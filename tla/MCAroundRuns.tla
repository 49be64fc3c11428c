---------------------------- MODULE MCAroundRuns ----------------------------
(* The parts of AroundRuns in one run of TLC: a behaviour belongs to the    *)
(* part that its first state picks, and leaves the variables of the others  *)
(* alone.                                                                   *)
EXTENDS AroundRuns, TLC

CONSTANTS u1, u2, o1, c1, c2, c3, k1, d1, d2, d3, t1, t2, q1

VARIABLE instance     \* "ledger", "social" or "schedule"

\* Two invocations of one keyed run and a plain caller; one user and the team
\* have a pool.
OneKeyedRun == c1 :> u1 @@ c2 :> u1 @@ c3 :> u2
TwoAndOne   == c1 :> 2 @@ c2 :> 2 @@ c3 :> 1
SharedKey   == c1 :> k1 @@ c2 :> k1

\* The clock is set back at minute 4, so that the wall shows 4 and 5 twice.
SetBack == [t \in 0..6 |-> IF t \in 1..3 THEN 2 ELSE 0]

SumInit ==
  /\ instance \in {"ledger", "social", "schedule"}
  /\ Init /\ Social!Init /\ Schedule!Init
  /\ instance # "ledger" => /\ activeOrg = [u \in Users |-> None]
                            /\ cap = [p \in Accounts |-> 1]
  /\ instance # "schedule" => active /\ cron = {4}

SumNext ==
  /\ \/ instance = "ledger" /\ Next /\ UNCHANGED <<social, schedule>>
     \/ instance = "social" /\ Social!Next /\ UNCHANGED <<vars, schedule>>
     \/ instance = "schedule" /\ Schedule!Next /\ UNCHANGED <<vars, social>>
  /\ UNCHANGED instance

SumSpec == SumInit /\ [][SumNext]_<<instance, vars, social, schedule>>
=============================================================================
