-------------------------- MODULE PromiseReminders --------------------------
(***************************************************************************)
(* promise-digest reminds users of promises that have come due.  A daily   *)
(* or manual invocation claims the due promises under a lease and mails    *)
(* them one by one; it may die or overrun its lease at any step, and then  *)
(* a later one finishes or repeats its work.                               *)
(***************************************************************************)
EXTENDS Naturals, FiniteSets

CONSTANTS
  Promises,
  Workers,      \* invocations of promise-digest at one time
  Limit,        \* promises claimed at one time: 100
  MaxRuns,      \* bound: how many invocations start
  None

RemindersAssumption ==
  /\ None \notin Workers
  /\ Limit \in Nat /\ MaxRuns \in Nat

VARIABLES
  status,       \* promises.status: "new", "in_progress" or closed
  notified,     \* promises with due_notified_at
  listens,      \* whether the user wants email
  state,        \* promise_reminder_deliveries.state, or "none"
  owner,        \* ... lease_owner
  lapsed,       \* deliveries whose lease has run out
  provider,     \* keys of mails that the provider remembers
  mails,        \* history: mails of a promise that went out
  todo,         \* what an invocation has claimed and not handled yet
  needs,        \* ... of which need a mail
  pc,           \* the promise and the place an invocation is at
  runs          \* how many invocations have started

ledger == <<state, owner, lapsed>>
outside == <<provider, mails>>
vars == <<status, notified, listens, ledger, outside, todo, needs, pc, runs>>

Open == {"new", "in_progress"}
States == {"none", "sending", "provider_accepted", "sent", "failed"}
Idle == [at |-> "idle", on |-> None]
Places == {"idle", "item", "send", "mark", "finalize", "fail"}

\* mutant of MailKey: one key for all that an invocation still has to handle
BatchKey(w, p) == {p} \cup todo[w]

\* The provider's key of a mail: civic/reminder/<user>/<promise>/<due date>.
MailKey(w, p) == {p}

TypeOK ==
  /\ status \in [Promises -> Open \cup {"closed"}]
  /\ notified \subseteq Promises /\ listens \in BOOLEAN
  /\ state \in [Promises -> States] /\ owner \in [Promises -> Workers \cup {None}]
  /\ lapsed \subseteq Promises
  /\ provider \subseteq SUBSET Promises /\ mails \in [Promises -> Nat]
  /\ todo \in [Workers -> SUBSET Promises] /\ needs \in [Workers -> SUBSET Promises]
  /\ pc \in [Workers -> [at: Places, on: Promises \cup {None}]]
  /\ runs \in 0..MaxRuns

Init ==
  /\ status \in [Promises -> {"new", "closed"}] /\ notified = {} /\ listens \in BOOLEAN
  /\ state = [p \in Promises |-> "none"] /\ owner = [p \in Promises |-> None]
  /\ lapsed = {} /\ provider = {} /\ mails = [p \in Promises |-> 0]
  /\ todo = [w \in Workers |-> {}] /\ needs = [w \in Workers |-> {}]
  /\ pc = [w \in Workers |-> Idle] /\ runs = 0

At(w, place) == pc[w].at = place
On(w) == pc[w].on
GoTo(w, place, p) == pc' = [pc EXCEPT ![w] = [at |-> place, on |-> p]]

-----------------------------------------------------------------------------
(* claim_due_promise_reminders                                             *)

LiveLease(p) == state[p] = "sending" /\ p \notin lapsed

Due(p) == /\ status[p] \in Open /\ p \notin notified /\ listens
          /\ state[p] # "sent" /\ ~LiveLease(p)

\* An invocation claims the due promises, those that the provider accepted
\* without needing another mail.  Rows another claim holds are skipped.
Claim(w) ==
  /\ pc[w] = Idle /\ runs < MaxRuns /\ runs' = runs + 1
  /\ \E batch \in SUBSET {p \in Promises : Due(p)} :
       /\ Cardinality(batch) <= Limit
       /\ todo' = [todo EXCEPT ![w] = batch]
       /\ needs' = [needs EXCEPT ![w] = {p \in batch : state[p] # "provider_accepted"}]
       /\ state' = [p \in Promises |->
            IF p \in batch /\ state[p] # "provider_accepted" THEN "sending" ELSE state[p]]
       /\ owner' = [p \in Promises |-> IF p \in batch THEN w ELSE owner[p]]
       /\ lapsed' = lapsed \ batch
  /\ GoTo(w, "item", None)
  /\ UNCHANGED <<status, notified, listens, outside>>

LeaseLapses(p) ==
  /\ owner[p] # None /\ p \notin lapsed /\ lapsed' = lapsed \cup {p}
  /\ UNCHANGED <<status, notified, listens, state, owner, outside, todo, needs, pc, runs>>

-----------------------------------------------------------------------------
(* promise-digest                                                          *)

NextItem(w) ==
  /\ At(w, "item")
  /\ \/ \E p \in todo[w] :
          /\ todo' = [todo EXCEPT ![w] = @ \ {p}]
          /\ IF p \in needs[w] THEN GoTo(w, "send", p) ELSE GoTo(w, "finalize", p)
     \/ todo[w] = {} /\ pc' = [pc EXCEPT ![w] = Idle] /\ UNCHANGED todo
  /\ UNCHANGED <<status, notified, listens, ledger, outside, needs, runs>>

\* The provider sends one mail per key.  Its answer may be lost.
Send(w) ==
  /\ At(w, "send")
  /\ LET p == On(w)
         key == MailKey(w, p)
     IN
     \/ /\ listens
        /\ provider' = provider \cup {key}
        /\ mails' = IF key \in provider THEN mails ELSE [mails EXCEPT ![p] = @ + 1]
        /\ GoTo(w, "mark", p) \/ GoTo(w, "fail", p)
     \/ GoTo(w, "fail", p) /\ UNCHANGED outside
  /\ UNCHANGED <<status, notified, listens, ledger, todo, needs, runs>>

\* mark_due_promise_reminders_provider_accepted; what was accepted is never
\* finalized as failed.
MarkAccepted(w) ==
  /\ At(w, "mark")
  /\ LET p == On(w) IN
     \/ /\ state[p] = "sending" /\ owner[p] = w
        /\ state' = [state EXCEPT ![p] = "provider_accepted"]
        /\ GoTo(w, "finalize", p) \/ GoTo(w, "item", None)
     \/ GoTo(w, "item", None) /\ UNCHANGED state
  /\ UNCHANGED <<status, notified, listens, owner, lapsed, outside, todo, needs, runs>>

\* finalize_due_promise_reminders, under the lease's owner.
Holds(w) == state[On(w)] \in {"sending", "provider_accepted"} /\ owner[On(w)] = w

Released(w) == owner' = [owner EXCEPT ![On(w)] = None]

FinalizeSent(w) ==
  /\ At(w, "finalize") /\ GoTo(w, "item", None)
  /\ \/ /\ Holds(w) /\ Released(w)
        /\ state' = [state EXCEPT ![On(w)] = "sent"]
        /\ notified' = notified \cup {On(w)}
     \/ UNCHANGED <<state, owner, notified>>
  /\ UNCHANGED <<status, listens, lapsed, outside, todo, needs, runs>>

FinalizeFailed(w) ==
  /\ At(w, "fail") /\ GoTo(w, "item", None)
  /\ \/ /\ Holds(w) /\ Released(w)
        /\ state' = [state EXCEPT ![On(w)] = "failed"]
     \/ UNCHANGED <<state, owner>>
  /\ UNCHANGED <<status, notified, listens, lapsed, outside, todo, needs, runs>>

WorkerDies(w) ==
  /\ pc[w] # Idle /\ pc' = [pc EXCEPT ![w] = Idle]
  /\ todo' = [todo EXCEPT ![w] = {}]
  /\ UNCHANGED <<status, notified, listens, ledger, outside, needs, runs>>

-----------------------------------------------------------------------------
(* The user                                                                *)

\* transition_civic_promise_status
Transition(p, to) ==
  /\ \/ status[p] = "new" /\ to \in {"in_progress", "closed"}
     \/ status[p] = "in_progress" /\ to = "closed"
     \/ status[p] = "closed" /\ to = "in_progress"
  /\ status' = [status EXCEPT ![p] = to]
  /\ UNCHANGED <<notified, listens, ledger, outside, todo, needs, pc, runs>>

SwitchEmail ==
  /\ listens' = ~listens
  /\ UNCHANGED <<status, notified, ledger, outside, todo, needs, pc, runs>>

Next ==
  \/ \E w \in Workers :
       \/ Claim(w) \/ NextItem(w) \/ Send(w) \/ MarkAccepted(w)
       \/ FinalizeSent(w) \/ FinalizeFailed(w) \/ WorkerDies(w)
  \/ \E p \in Promises :
       LeaseLapses(p) \/ \E to \in {"in_progress", "closed"} : Transition(p, to)
  \/ SwitchEmail

Spec == Init /\ [][Next]_vars

-----------------------------------------------------------------------------
(* Properties                                                              *)

\* A deadline is mailed once, whatever overran its lease, died or answered too
\* late, as long as the provider remembers its key; and a promise is stamped
\* as notified only when it was mailed.
RemindedOnce ==
  \A p \in Promises : mails[p] <= 1 /\ (p \in notified => mails[p] = 1)
=============================================================================
