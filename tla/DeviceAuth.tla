----------------------------- MODULE DeviceAuth -----------------------------
(***************************************************************************)
(* scout auth login: the CLI asks for a device request, the user approves  *)
(* it in a browser, and a poll of the CLI redeems it for an API key.       *)
(*                                                                         *)
(* Database calls lock the request's row first and then, by an advisory    *)
(* lock, the user's keys.  The CLI gives a poll up after a while, but the  *)
(* call it gave up goes on.                                                *)
(***************************************************************************)
EXTENDS Naturals, FiniteSets

CONSTANTS
  Users,
  Requests,     \* cli_device_authorizations, one per login
  Manual,       \* keys created on the API-keys page
  Calls,        \* calls in progress at one time
  KeyLimit,     \* keys a user may have: 5
  None

DeviceAssumption ==
  /\ KeyLimit \in Nat \ {0}
  /\ None \notin Users \cup Requests \cup Manual \cup Calls
  /\ Requests \cap Manual = {}
  /\ IsFiniteSet(Requests) /\ IsFiniteSet(Manual)

ASSUME DeviceAssumption

VARIABLES
  status,       \* of a request
  approvedBy,   \* the user who decided it, or None
  lapsed,       \* requests whose expires_at has passed
  owner,        \* api_keys: the user a key belongs to, or None
  issued,       \* history: how often a request was redeemed
  call,         \* calls in progress
  login,        \* where the CLI stands with a request
  waits,        \* the poll the CLI waits for, or None
  told,         \* requests whose key the user was told to revoke
  received      \* requests whose key reached the CLI

requests == <<status, approvedBy, lapsed>>
cli == <<login, waits, told>>
vars == <<requests, owner, issued, call, cli, received>>

Keys == Requests \cup Manual
Terminal == {"denied", "expired", "consumed"}
Statuses == {"absent", "pending", "approved", "deleted"} \cup Terminal
Logins == {"none", "polling", "verifying", "storing", "revoking", "in", "over"}
Ops == {"redeem", "approve", "deny", "create"}
Answers == {"created", "pending", "refused"}
NoCall == [op |-> "none", on |-> None, by |-> None, late |-> FALSE, at |-> "idle"]

TypeOK ==
  /\ status \in [Requests -> Statuses]
  /\ approvedBy \in [Requests -> Users \cup {None}]
  /\ lapsed \subseteq Requests
  /\ owner \in [Keys -> Users \cup {None}]
  /\ issued \in [Requests -> Nat]
  /\ call \in [Calls -> [op: Ops \cup {"none"}, on: Keys \cup {None},
                         by: Users \cup {None}, late: BOOLEAN,
                         at: {"idle", "called", "locked", "counted"} \cup Answers]]
  /\ login \in [Requests -> Logins]
  /\ waits \in [Requests -> Calls \cup {None}]
  /\ told \subseteq Requests /\ received \subseteq Requests

Init ==
  /\ status = [r \in Requests |-> "absent"]
  /\ approvedBy = [r \in Requests |-> None]
  /\ lapsed = {}
  /\ owner = [k \in Keys |-> None]
  /\ issued = [r \in Requests |-> 0]
  /\ call = [c \in Calls |-> NoCall]
  /\ login = [r \in Requests |-> "none"]
  /\ waits = [r \in Requests |-> None]
  /\ told = {} /\ received = {}

-----------------------------------------------------------------------------
(* Database calls                                                          *)

At(c, place) == call[c].at = place
GoTo(c, place) == call' = [call EXCEPT ![c].at = place]
Done(c) == call' = [call EXCEPT ![c] = NoCall]
Starts(c, op, k, u) ==
  /\ call[c] = NoCall
  /\ call' = [call EXCEPT ![c] = [op |-> op, on |-> k, by |-> u, at |-> "called",
                                 late |-> op = "redeem" /\ k \in lapsed]]

\* Only a poll's answer matters to somebody who waits for it.
Answer(c, place) == IF call[c].op = "redeem" THEN GoTo(c, place) ELSE Done(c)

\* FOR UPDATE on the request, until the call commits.
HoldsRow(c, r) == call[c].on = r /\ call[c].at \in {"locked", "counted"}

\* mutant of RowFree: the row is read without FOR UPDATE
RowIgnored(c) == TRUE

RowFree(c) == \A d \in Calls \ {c} : ~HoldsRow(d, call[c].on)

\* The advisory lock on the user's keys.
HoldsKeys(c, u) == call[c].by = u /\ At(c, "counted")

\* mutant of KeysFree: the keys are counted without the lock
KeysIgnored(c) == TRUE

KeysFree(c) == \A d \in Calls \ {c} : ~HoldsKeys(d, call[c].by)

KeysOf(u) == {k \in Keys : owner[k] = u}

\* Whether a call takes the request for expired: a redemption looked at the
\* clock when it began, a decision looks when it has the row.
Late(c) == IF call[c].op = "redeem" THEN call[c].late ELSE call[c].on \in lapsed

\* An expired request is marked by whoever finds it so.
Expired(r) == status' = [status EXCEPT ![r] = "expired"]

\* redeem_cli_device_authorization and decide_cli_device_authorization lock
\* the row, and answer at once unless there is something to do; a poll that
\* comes too soon is told to slow down, which here is "pending".
LockRow(c) ==
  /\ At(c, "called") /\ call[c].op # "create"
  /\ RowFree(c)
  /\ LET r == call[c].on
         ready == IF call[c].op = "redeem" THEN "approved" ELSE "pending"
     IN
     \/ /\ Late(c) /\ status[r] \in {"pending", "approved"}
        /\ Expired(r) /\ Answer(c, "refused")
     \/ /\ ~Late(c) /\ status[r] = ready
        /\ call' = [call EXCEPT ![c].at = "locked",
              ![c].by = IF call[c].op = "redeem" THEN approvedBy[r] ELSE @]
        /\ UNCHANGED status
     \/ /\ ~Late(c) /\ status[r] \in {"pending", "approved"}
        /\ call[c].op = "redeem" /\ Answer(c, "pending") /\ UNCHANGED status
     \/ /\ \/ status[r] \in Terminal \cup {"deleted"}
           \/ ~Late(c) /\ status[r] = "approved" /\ call[c].op # "redeem"
        /\ Answer(c, "refused") /\ UNCHANGED status
  /\ UNCHANGED <<approvedBy, lapsed, owner, issued, cli, received>>

\* The user denies the request.
Deny(c) ==
  /\ At(c, "locked") /\ call[c].op = "deny" /\ Done(c)
  /\ status' = [status EXCEPT ![call[c].on] = "denied"]
  /\ approvedBy' = [approvedBy EXCEPT ![call[c].on] = call[c].by]
  /\ UNCHANGED <<lapsed, owner, issued, cli, received>>

\* Everything that makes a key, or promises one, locks the user's keys and
\* counts them.
Counts(c) ==
  \/ At(c, "locked") /\ call[c].op \in {"redeem", "approve"}
  \/ At(c, "called") /\ call[c].op = "create"

CountKeys(c) ==
  /\ Counts(c)
  /\ KeysFree(c)
  /\ LET full == Cardinality(KeysOf(call[c].by)) >= KeyLimit IN
     \/ full /\ Answer(c, "refused")
     \/ ~full /\ GoTo(c, "counted")
  /\ UNCHANGED <<requests, owner, issued, cli, received>>

Approve(c) ==
  /\ At(c, "counted") /\ call[c].op = "approve" /\ Done(c)
  /\ status' = [status EXCEPT ![call[c].on] = "approved"]
  /\ approvedBy' = [approvedBy EXCEPT ![call[c].on] = call[c].by]
  /\ UNCHANGED <<lapsed, owner, issued, cli, received>>

\* create_api_key_atomic
CreateKey(c) ==
  /\ At(c, "counted") /\ call[c].op = "create" /\ Done(c)
  /\ owner' = [owner EXCEPT ![call[c].on] = call[c].by]
  /\ UNCHANGED <<requests, issued, cli, received>>

\* The key and the end of the request are one commit.  (A unique index allows
\* one living key per request.)
Redeem(c) ==
  /\ At(c, "counted") /\ call[c].op = "redeem"
  /\ LET r == call[c].on IN
     /\ owner[r] = None
     /\ owner' = [owner EXCEPT ![r] = call[c].by]
     /\ issued' = [issued EXCEPT ![r] = @ + 1]
     /\ status' = [status EXCEPT ![r] = "consumed"]
  /\ GoTo(c, "created")
  /\ UNCHANGED <<approvedBy, lapsed, cli, received>>

\* A call is killed: what it did not commit is rolled back.
CallDies(c) ==
  /\ call[c].at \in {"called", "locked", "counted"} /\ Done(c)
  /\ UNCHANGED <<requests, owner, issued, cli, received>>

\* Both revoke RPCs delete the row of the key; "by" the user, in the browser.
RevokeKey(k) ==
  /\ owner[k] # None /\ owner' = [owner EXCEPT ![k] = None]
  /\ UNCHANGED <<requests, issued, call, cli, received>>

Lapse(r) ==
  /\ status[r] # "absent" /\ r \notin lapsed /\ lapsed' = lapsed \cup {r}
  /\ UNCHANGED <<status, approvedBy, owner, issued, call, cli, received>>

\* cleanup_cli_device_authorizations skips locked rows; a day after its end a
\* request is deleted.
Cleanup(r) ==
  /\ \A c \in Calls : ~HoldsRow(c, r)
  /\ \/ r \in lapsed /\ status[r] \in {"pending", "approved"} /\ Expired(r)
     \/ /\ r \in lapsed /\ status[r] \in Terminal
        /\ status' = [status EXCEPT ![r] = "deleted"]
  /\ UNCHANGED <<approvedBy, lapsed, owner, issued, call, cli, received>>

-----------------------------------------------------------------------------
(* The browser and the API-keys page                                       *)

Decide(c, r, u) ==
  /\ status[r] # "absent" /\ (Starts(c, "approve", r, u) \/ Starts(c, "deny", r, u))
  /\ UNCHANGED <<requests, owner, issued, cli, received>>

AskForKey(c, m, u) ==
  /\ owner[m] = None /\ \A d \in Calls : call[d].on # m
  /\ Starts(c, "create", m, u)
  /\ UNCHANGED <<requests, owner, issued, cli, received>>

-----------------------------------------------------------------------------
(* scout auth login                                                        *)

Moves(r, place) == login' = [login EXCEPT ![r] = place]

AskForDevice(r) ==
  /\ login[r] = "none" /\ Moves(r, "polling")
  /\ status' = [status EXCEPT ![r] = "pending"]
  /\ UNCHANGED <<approvedBy, lapsed, owner, issued, call, waits, told, received>>

Poll(c, r) ==
  /\ login[r] = "polling" /\ waits[r] = None
  /\ Starts(c, "redeem", r, None)
  /\ waits' = [waits EXCEPT ![r] = c]
  /\ UNCHANGED <<requests, owner, issued, login, told, received>>

\* The request times out or fails; the third time running the login fails.
GiveUpPoll(r) ==
  /\ waits[r] # None /\ waits' = [waits EXCEPT ![r] = None]
  /\ Moves(r, "over") \/ UNCHANGED login
  /\ UNCHANGED <<requests, owner, issued, call, told, received>>

\* "pending" polls again, as slow_down does; a refusal ends the login.
PollAnswered(c, r) ==
  /\ waits[r] = c /\ call[c].on = r /\ call[c].at \in Answers
  /\ waits' = [waits EXCEPT ![r] = None]
  /\ \/ /\ At(c, "created") /\ Moves(r, "verifying")
        /\ received' = received \cup {r}
     \/ At(c, "pending") /\ UNCHANGED <<login, received>>
     \/ At(c, "refused") /\ Moves(r, "over") /\ UNCHANGED received
  /\ Done(c)
  /\ UNCHANGED <<requests, owner, issued, told>>

\* The answer of a poll nobody waits for any more.
AnswerDropped(c) ==
  /\ call[c].at \in Answers
  /\ waits[call[c].on] # c
  /\ Done(c)
  /\ UNCHANGED <<requests, owner, issued, cli, received>>

\* The deadline of the CLI is not before that of the request.
GiveUpLogin(r) ==
  /\ login[r] = "polling" /\ waits[r] = None /\ r \in lapsed /\ Moves(r, "over")
  /\ UNCHANGED <<requests, owner, issued, call, waits, told, received>>

\* validToken and verifyCredential; the key may have been revoked already.
Verify(r) ==
  /\ login[r] = "verifying"
  /\ \/ owner[r] # None /\ Moves(r, "storing")
     \/ Moves(r, "revoking")
  /\ UNCHANGED <<requests, owner, issued, call, waits, told, received>>

\* mutant of Store: a configuration that cannot be written ends the login
StoreOrFail(r) ==
  /\ login[r] = "storing" /\ (Moves(r, "in") \/ Moves(r, "over"))
  /\ UNCHANGED <<requests, owner, issued, call, waits, told, received>>

\* writeConfig succeeds or throws.
Store(r) ==
  /\ login[r] = "storing" /\ (Moves(r, "in") \/ Moves(r, "revoking"))
  /\ UNCHANGED <<requests, owner, issued, call, waits, told, received>>

\* logout revokes the key before it forgets it.
Logout(r) ==
  /\ login[r] = "in" /\ Moves(r, "revoking")
  /\ UNCHANGED <<requests, owner, issued, call, waits, told, received>>

\* bestEffortRevoke: when it fails the user is told which key to revoke.
BestEffortRevoke(r) ==
  /\ login[r] = "revoking" /\ Moves(r, "over")
  /\ \/ owner' = [owner EXCEPT ![r] = None] /\ UNCHANGED told
     \/ told' = told \cup {r} /\ UNCHANGED owner
  /\ UNCHANGED <<requests, issued, call, waits, received>>

Next ==
  \/ \E c \in Calls :
       \/ LockRow(c) \/ Deny(c) \/ CountKeys(c) \/ Approve(c) \/ CreateKey(c)
       \/ Redeem(c) \/ CallDies(c) \/ AnswerDropped(c)
       \/ \E r \in Requests : Poll(c, r) \/ PollAnswered(c, r)
       \/ \E r \in Requests, u \in Users : Decide(c, r, u)
       \/ \E m \in Manual, u \in Users : AskForKey(c, m, u)
  \/ \E k \in Keys : RevokeKey(k)
  \/ \E r \in Requests :
       \/ Lapse(r) \/ Cleanup(r) \/ AskForDevice(r) \/ GiveUpPoll(r)
       \/ GiveUpLogin(r) \/ Verify(r) \/ Store(r) \/ Logout(r)
       \/ BestEffortRevoke(r)

Spec == Init /\ [][Next]_vars

-----------------------------------------------------------------------------
(* Properties                                                              *)

\* However many polls of one device code run at once, it is redeemed for one
\* key, and the request is consumed with it.
OneKeyPerRequest ==
  \A r \in Requests : /\ issued[r] <= 1
                      /\ issued[r] = 1 => status[r] \in {"consumed", "deleted"}

\* Manual creation and redemption together never exceed the limit.
KeyLimitHolds == \A u \in Users : Cardinality(KeysOf(u)) <= KeyLimit

\* What was denied, redeemed or expired stays so, whatever decisions and polls
\* were on their way.
Stands == \A r \in Requests : status[r] \in Terminal =>
                              status'[r] \in {status[r], "deleted"}
DecisionStands == [][Stands]_vars

\* A login or logout that got hold of a key leaves it in no state between: it
\* is stored, revoked, or the user was told to revoke it.
NoSilentOrphan ==
  \A r \in received : login[r] = "over" /\ owner[r] # None => r \in told
=============================================================================
