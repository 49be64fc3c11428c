------------------------------ MODULE MCAccess ------------------------------
(* The parts of Access in one run of TLC: a behaviour belongs to the part   *)
(* that its first state picks, and leaves the variables of the other alone. *)
EXTENDS Access, TLC

CONSTANTS k1, k2, q1, q2, q3

VARIABLE instance     \* "device" or "oauth"

\* A code of Osaurus and one of another client.
OneOfOsaurus == k1 :> "Osaurus" @@ k2 :> "other"

SumInit == instance \in {"device", "oauth"} /\ Init /\ OAuth!Init

SumNext == /\ \/ instance = "device" /\ Next /\ UNCHANGED oauth
              \/ instance = "oauth" /\ OAuth!Next /\ UNCHANGED vars
           /\ UNCHANGED instance

SumSpec == SumInit /\ [][SumNext]_<<instance, vars, oauth>>
=============================================================================
