----------------------------- MODULE ScoutSlot -----------------------------
(***************************************************************************)
(* What the dispatch queue promises a scout: a slot.  A run opens the slot *)
(* of its scout when nobody else holds it, holds it once, and gives it     *)
(* back for good, with an outcome.  Slots of several scouts may be taken   *)
(* back in one step: the claimant and the reconcilers work in bulk.        *)
(***************************************************************************)
CONSTANTS Runs, ScoutOf

VARIABLE slot

Outcomes == {"done", "failed"}

Init == slot = [r \in Runs |-> "free"]

Open(r) ==
  /\ slot[r] = "free"
  /\ \A other \in Runs : ScoutOf[other] = ScoutOf[r] => slot[other] # "open"
  /\ slot' = [slot EXCEPT ![r] = "open"]

Close(closing) ==
  /\ \A r \in closing : slot[r] = "open"
  /\ \E outcome \in [closing -> Outcomes] :
       slot' = [r \in Runs |-> IF r \in closing THEN outcome[r] ELSE slot[r]]

Next ==
  \/ \E r \in Runs : Open(r)
  \/ \E closing \in SUBSET Runs : Close(closing)

Spec == Init /\ [][Next]_slot

=============================================================================
