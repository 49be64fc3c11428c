------------------------------ MODULE AlertBox ------------------------------
(***************************************************************************)
(* What the alert ledger promises the user of a Civic scout: a box of      *)
(* promises.  A run puts promises in until the box is sealed; the user may *)
(* discard some; one mail is made of all that are left; and the box is     *)
(* used up as a whole, once, when it was mailed or nothing was to be sent. *)
(***************************************************************************)
CONSTANT Items

VARIABLES
  stage,   \* "open", "sealed", or closed: "mailed" or "skipped"
  box,     \* the promises put in
  gone,    \* ... of which the user has discarded
  used,    \* ... and which count as told
  mail     \* the promises of the one mail, {} when there is none

vars == <<stage, box, gone, used, mail>>

Init == stage = "open" /\ box = {} /\ gone = {} /\ used = {} /\ mail = {}

Put(i) ==
  /\ stage = "open" /\ box' = box \cup {i}
  /\ UNCHANGED <<stage, gone, used, mail>>

Seal ==
  /\ stage = "open" /\ box # {} /\ stage' = "sealed"
  /\ UNCHANGED <<box, gone, used, mail>>

Discard(i) ==
  /\ i \in box \ used /\ gone' = gone \cup {i}
  /\ UNCHANGED <<stage, box, used, mail>>

\* A mail is written of what is left; the user may discard more before it
\* leaves, and others may have closed the box as skipped.
Mail ==
  /\ stage \in {"sealed", "skipped"} /\ mail = {}
  /\ mail' # {} /\ mail' \in SUBSET box /\ box \ gone \subseteq mail'
  /\ UNCHANGED <<stage, box, gone, used>>

Close ==
  /\ stage = "sealed"
  /\ stage' \in {"mailed", "skipped"} /\ (stage' = "mailed" => mail # {})
  /\ used' = box
  /\ UNCHANGED <<box, gone, mail>>

Next ==
  \/ Seal \/ Mail \/ Close
  \/ \E i \in Items : Put(i) \/ Discard(i)

Spec == Init /\ [][Next]_vars
=============================================================================
