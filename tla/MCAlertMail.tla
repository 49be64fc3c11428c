----------------------------- MODULE MCAlertMail -----------------------------
(* The parts of AlertMail in one run of TLC: a behaviour belongs to the     *)
(* part that its first state picks, and leaves the variables of the others  *)
(* alone.                                                                   *)
EXTENDS AlertMail, TLC

CONSTANTS e1, e2, e3, c1, c2

VARIABLE instance     \* "alerts", "events" or "reminders"

\* Three events of one mail, in this order.
InOrder == e1 :> 1 @@ e2 :> 2 @@ e3 :> 3

SumInit ==
  /\ \/ instance = "alerts"
     \/ instance \in {"events", "reminders"} /\ dispatch = "idle"
  /\ Init /\ Events!Init /\ Reminders!Init
  /\ instance # "reminders" => listens /\ promise = [i \in Promises |-> "new"]

SumNext ==
  /\ \/ instance = "alerts" /\ Next /\ UNCHANGED <<events, reminders>>
     \/ instance = "events" /\ Events!Next /\ UNCHANGED <<vars, reminders>>
     \/ instance = "reminders" /\ Reminders!Next /\ UNCHANGED <<vars, events>>
  /\ UNCHANGED instance

SumSpec == SumInit /\ [][SumNext]_<<instance, vars, events, reminders>>

\* Documents, promises and invocations are interchangeable.
Interchangeable == Permutations(Docs) \cup Permutations(Workers)
                   \cup Permutations(Items)
=============================================================================
