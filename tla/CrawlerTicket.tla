--------------------------- MODULE CrawlerTicket ---------------------------
(***************************************************************************)
(* What the crawler ledger promises its callers about a job: a bounded     *)
(* number of attempts, at most one paid fallback, one answer.              *)
(***************************************************************************)
EXTENDS Naturals

CONSTANTS Jobs, MaxAttempts

VARIABLES state, attempts, spent

vars == <<state, attempts, spent>>

Init ==
  /\ state = [j \in Jobs |-> "absent"]
  /\ attempts = [j \in Jobs |-> 0]
  /\ spent = [j \in Jobs |-> FALSE]

\* One of the answers a ticket may get; "open" and "delegated" are none.
Answers(j, s) ==
  \/ s \in {"terminal_failed", "succeeded"} /\ (attempts[j] > 0 \/ spent[j])
  \/ s = "terminal_failed" /\ state[j] = "delegated"
  \/ s = "cancelled" /\ ~spent[j]

Moves(j) ==
  \/ state[j] = "absent" /\ state'[j] \in {"open", "delegated"}
  \/ state[j] = "open" /\ state'[j] = "delegated"
  \/ state[j] \in {"open", "delegated"} /\ Answers(j, state'[j])

\* One transaction may answer several tickets.
Step ==
  /\ \A j \in Jobs :
       /\ state'[j] = state[j] \/ Moves(j)
       /\ \/ attempts'[j] = attempts[j]
          \/ /\ state[j] = "open" /\ state'[j] = "open"
             /\ attempts'[j] = attempts[j] + 1
             /\ attempts'[j] <= MaxAttempts
       /\ \/ spent'[j] = spent[j]
          \/ state[j] = "delegated" /\ ~spent[j] /\ spent'[j]

Spec == Init /\ [][Step]_vars
=============================================================================
