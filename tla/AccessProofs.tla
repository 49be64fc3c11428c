----------------------------- MODULE AccessProofs -----------------------------
(***************************************************************************)
(* Signing in without the web application.  The device login, for any      *)
(* number of users, requests, manual keys and concurrent calls: one key    *)
(* per request, decisions that stand, the limit of keys per user, and no   *)
(* key that nobody knows of.  The code exchange of the MCP server, for any *)
(* number of codes, clients and requests.                                  *)
(***************************************************************************)
EXTENDS Access, FiniteSetTheorems, TLAPS

Places == {"idle", "called", "locked", "counted"} \cup Answers
CallRecords == [op: Ops \cup {"none"}, on: Keys \cup {None},
                by: Users \cup {None}, late: BOOLEAN, at: Places]

LEMMA ConstantFacts ==
  /\ KeyLimit \in Nat \ {0}
  /\ None \notin Users \cup Keys \cup Calls
  /\ Requests \cap Manual = {} /\ Requests \subseteq Keys /\ Manual \subseteq Keys
  /\ IsFiniteSet(Keys)
<1>1. IsFiniteSet(Requests \cup Manual)
  BY DeviceAssumption, FS_Union DEF DeviceAssumption
<1>. QED BY <1>1, DeviceAssumption DEF DeviceAssumption, Keys

-----------------------------------------------------------------------------
(* The inductive invariant                                                 *)

\* What a call in progress is about, and for whom.
ShapeOf(x) ==
  \/ x = NoCall
  \/ /\ x.op = "redeem" /\ x.on \in Requests /\ x.at # "idle"
     /\ x.at \in {"locked", "counted"} => x.by \in Users
  \/ /\ x.op \in {"approve", "deny"} /\ x.on \in Requests /\ x.by \in Users
     /\ x.at \in {"called", "locked", "counted"}
  \/ /\ x.op = "create" /\ x.on \in Manual /\ x.by \in Users
     /\ x.at \in {"called", "counted"}

Shaped == \A c \in Calls : ShapeOf(call[c])

\* Who approved a request is on record.
Approved == \A r \in Requests : status[r] = "approved" => approvedBy[r] \in Users

\* A request begins with its login, and calls are about requests that began.
Begun ==
  /\ \A r \in Requests : login[r] = "none" => status[r] = "absent"
  /\ \A c \in Calls : call[c].on \in Requests => login[call[c].on] # "none"

\* The lock on a row keeps what its holder read there.
Holds(c) == call[c].at \in {"locked", "counted"}

RowLocked ==
  /\ \A c, d \in Calls :
       c # d /\ Holds(c) /\ Holds(d) /\ call[c].on \in Requests
         => call[c].on # call[d].on
  /\ \A c \in Calls : Holds(c) /\ call[c].on \in Requests =>
       status[call[c].on] = IF call[c].op = "redeem" THEN "approved" ELSE "pending"

\* The lock on a user's keys keeps what its holder counted there.
KeysLocked ==
  \A c, d \in Calls :
    c # d /\ At(c, "counted") /\ At(d, "counted") => call[c].by # call[d].by
Room ==
  \A c \in Calls : At(c, "counted") => Cardinality(KeysOf(call[c].by)) < KeyLimit

RowInv == TypeOK /\ Shaped /\ Approved /\ Begun /\ RowLocked
KeyInv == RowInv /\ KeysLocked /\ Room /\ KeyLimitHolds

-----------------------------------------------------------------------------
(* What the steps do                                                       *)

\* No step makes a login one that never began.
LoginKept == \A r \in Requests : login'[r] = "none" => login[r] = "none"

\* A call starts, about a request that began or about a manual key.
CallStarts(c) ==
  \E x \in CallRecords :
    /\ call[c] = NoCall /\ call' = [call EXCEPT ![c] = x]
    /\ x.at = "called" /\ ShapeOf(x)
    /\ x.on \in Requests => login[x.on] # "none"
    /\ UNCHANGED <<requests, owner, issued, login>>

\* A call ends, or answers a poll.
CallEnds(c) ==
  /\ \/ Done(c)
     \/ call[c].op = "redeem" /\ \E place \in Answers : GoTo(c, place)
  /\ UNCHANGED <<requests, owner, issued>> /\ LoginKept

\* The rest of the login does nothing to requests or calls but that keys die.
KeysDie ==
  /\ \/ UNCHANGED owner
     \/ \E k \in Keys : owner' = [owner EXCEPT ![k] = None]
  /\ UNCHANGED <<status, approvedBy, issued, call>> /\ LoginKept

\* Requests of the browser and the CLI start a call; an answer and a death end
\* one.
OnlyCalls(c) ==
  \/ CallDies(c) \/ AnswerDropped(c)
  \/ \E r \in Requests : Poll(c, r) \/ PollAnswered(c, r)
  \/ \E r \in Requests, u \in Users : Decide(c, r, u)
  \/ \E m \in Manual, u \in Users : AskForKey(c, m, u)

LEMMA StartsOrEnds ==
  ASSUME RowInv, NEW c \in Calls, OnlyCalls(c)
  PROVE  CallStarts(c) \/ CallEnds(c)
<1> USE ConstantFacts
<1>t. /\ call \in [Calls -> CallRecords] /\ login \in [Requests -> Logins]
      /\ Begun
  BY DEF RowInv, TypeOK, CallRecords, Places
<1>1. ASSUME NEW op \in Ops, NEW k \in Keys,
             NEW u \in Users \cup {None}, Starts(c, op, k, u),
             UNCHANGED <<requests, owner, issued, login>>,
             \/ op = "redeem" /\ k \in Requests /\ login[k] # "none"
             \/ op \in {"approve", "deny"} /\ k \in Requests /\ u \in Users
                /\ login[k] # "none"
             \/ op = "create" /\ k \in Manual /\ u \in Users
      PROVE  CallStarts(c)
  <2> DEFINE x == [op |-> op, on |-> k, by |-> u, at |-> "called",
                   late |-> op = "redeem" /\ k \in lapsed]
  <2>1. x \in CallRecords
    BY DEF CallRecords, Places
  <2>2. ShapeOf(x)
    BY <1>1 DEF ShapeOf
  <2>. QED BY <1>1, <2>1, <2>2 DEF Starts, CallStarts
<1>2. ASSUME NEW r \in Requests, NEW u \in Users, Decide(c, r, u)
      PROVE  CallStarts(c)
  <2>1. login[r] # "none"
    BY <1>2, <1>t DEF Decide, Begun
  <2>. QED BY <1>1, <1>2, <2>1 DEF Decide, Ops, cli
<1>3. ASSUME NEW m \in Manual, NEW u \in Users, AskForKey(c, m, u)
      PROVE  CallStarts(c)
  BY <1>1, <1>3 DEF AskForKey, Ops, cli
<1>4. ASSUME NEW r \in Requests, Poll(c, r)
      PROVE  CallStarts(c)
  BY <1>1, <1>4 DEF Poll, Ops
<1>5. ASSUME NEW r \in Requests, PollAnswered(c, r)
      PROVE  CallEnds(c)
  BY <1>5, <1>t DEF PollAnswered, CallEnds, LoginKept, Moves, requests, Logins
<1>6. ASSUME CallDies(c) \/ AnswerDropped(c)
      PROVE  CallEnds(c)
  BY <1>6 DEF CallDies, AnswerDropped, CallEnds, LoginKept, cli
<1>. QED BY <1>2, <1>3, <1>4, <1>5, <1>6 DEF OnlyCalls

LEMMA Effects ==
  ASSUME RowInv, [Next]_vars
  PROVE  \/ KeysDie
         \/ \E c \in Calls :
              \/ CallStarts(c) \/ CallEnds(c)
              \/ LockRow(c) \/ Deny(c) \/ CountKeys(c) \/ Approve(c)
              \/ CreateKey(c) \/ Redeem(c)
         \/ \E r \in Requests : Cleanup(r) \/ AskForDevice(r)
<1> USE ConstantFacts
<1>t. /\ call \in [Calls -> CallRecords] /\ login \in [Requests -> Logins]
      /\ Begun
  BY DEF RowInv, TypeOK, CallRecords, Places
<1>7. ASSUME NEW r \in Requests,
             \/ Lapse(r) \/ GiveUpPoll(r) \/ GiveUpLogin(r) \/ Verify(r)
             \/ Store(r) \/ Logout(r) \/ BestEffortRevoke(r)
      PROVE  KeysDie
  BY <1>7, <1>t DEF Lapse, GiveUpPoll, GiveUpLogin, Verify, Store, Logout,
                    BestEffortRevoke, KeysDie, LoginKept, Moves, requests, cli
<1>8. ASSUME NEW k \in Keys, RevokeKey(k) PROVE KeysDie
  BY <1>8 DEF RevokeKey, KeysDie, LoginKept, requests, cli
<1>9. CASE UNCHANGED vars
  BY <1>9 DEF vars, KeysDie, LoginKept, requests, cli
<1>. QED BY <1>7, <1>8, <1>9, StartsOrEnds DEF Next, OnlyCalls

-----------------------------------------------------------------------------
(* Types, shapes and rows                                                  *)

LEMMA NoCallTyped == NoCall \in CallRecords /\ ShapeOf(NoCall)
BY ConstantFacts DEF NoCall, CallRecords, Places, ShapeOf

\* What the calls' own steps make of a call.
LEMMA CallKept ==
  ASSUME RowInv, NEW c \in Calls,
         \/ CallStarts(c) \/ CallEnds(c) \/ LockRow(c) \/ Deny(c)
         \/ CountKeys(c) \/ Approve(c) \/ CreateKey(c) \/ Redeem(c)
  PROVE  /\ \E x \in CallRecords : ShapeOf(x) /\ call' = [call EXCEPT ![c] = x]
         /\ call' \in [Calls -> CallRecords] /\ Shaped'
<1> USE ConstantFacts, NoCallTyped DEF Places, Ops, Answers
<1>t. /\ call \in [Calls -> CallRecords] /\ call[c] \in CallRecords
      /\ ShapeOf(call[c]) /\ Approved /\ Shaped
  BY DEF RowInv, TypeOK, CallRecords, Shaped
<1> DEFINE Kept == \E x \in CallRecords : ShapeOf(x) /\ call' = [call EXCEPT ![c] = x]
<1>1. ASSUME Done(c) PROVE Kept
  BY <1>1 DEF Done
<1>2. ASSUME NEW place \in Places, GoTo(c, place),
             ShapeOf([call[c] EXCEPT !.at = place])
      PROVE  Kept
  <2>1. [call[c] EXCEPT !.at = place] \in CallRecords
    BY <1>t DEF CallRecords
  <2>2. call' = [call EXCEPT ![c] = [call[c] EXCEPT !.at = place]]
    BY <1>2, <1>t DEF GoTo
  <2>. QED BY <1>2, <2>1, <2>2
<1>3. ASSUME NEW place \in Answers, call[c].op = "redeem", call[c] # NoCall
      PROVE  ShapeOf([call[c] EXCEPT !.at = place])
  BY <1>3, <1>t DEF ShapeOf, CallRecords
<1>4. ASSUME NEW place \in Answers, Answer(c, place), call[c] # NoCall PROVE Kept
  BY <1>1, <1>2, <1>3, <1>4 DEF Answer
<1>5. ASSUME CallStarts(c) PROVE Kept
  BY <1>5 DEF CallStarts
<1>6. ASSUME CallEnds(c) PROVE Kept
  BY <1>1, <1>2, <1>3, <1>6 DEF CallEnds, NoCall
<1>7. ASSUME LockRow(c) PROVE Kept
  <2>1. call[c] # NoCall
    BY <1>7 DEF LockRow, At, NoCall
  <2> DEFINE r == call[c].on
             x == [call[c] EXCEPT !.at = "locked",
                     !.by = IF call[c].op = "redeem" THEN approvedBy[r] ELSE @]
  <2>2. r \in Requests
    BY <1>7, <1>t, <2>1 DEF LockRow, ShapeOf
  <2>3. ASSUME status[r] = IF call[c].op = "redeem" THEN "approved" ELSE "pending"
        PROVE  x \in CallRecords /\ ShapeOf(x)
    <3>1. CASE call[c].op = "redeem"
      BY <2>2, <2>3, <3>1, <1>t DEF Approved, CallRecords, ShapeOf
    <3>2. CASE call[c].op # "redeem"
      BY <1>7, <2>1, <2>2, <2>3, <3>2, <1>t DEF CallRecords, ShapeOf, LockRow
    <3>. QED BY <3>1, <3>2
  <2>4. \/ \E place \in Answers : Answer(c, place)
        \/ /\ status[r] = IF call[c].op = "redeem" THEN "approved" ELSE "pending"
           /\ call' = [call EXCEPT ![c] = x]
    BY <1>7, <1>t DEF LockRow
  <2>. QED BY <1>4, <2>1, <2>3, <2>4
<1>8. ASSUME CountKeys(c) PROVE Kept
  <2>1. call[c] # NoCall
    BY <1>8 DEF CountKeys, Counts, At, NoCall
  <2>2. ASSUME GoTo(c, "counted") PROVE ShapeOf([call[c] EXCEPT !.at = "counted"])
    BY <1>8, <1>t, <2>1 DEF CountKeys, Counts, At, ShapeOf, CallRecords
  <2>. QED BY <1>2, <1>4, <1>8, <2>1, <2>2 DEF CountKeys
<1>9. ASSUME Deny(c) \/ Approve(c) \/ CreateKey(c) PROVE Kept
  BY <1>1, <1>9 DEF Deny, Approve, CreateKey
<1>10. ASSUME Redeem(c) PROVE Kept
  BY <1>2, <1>3, <1>10 DEF Redeem, NoCall, At
<1>11. Kept
  BY <1>5, <1>6, <1>7, <1>8, <1>9, <1>10
<1>. QED BY <1>t, <1>11 DEF Shaped

\* What a call writes to the request it is about.
Writes(c) ==
  \/ UNCHANGED <<status, approvedBy>>
  \/ /\ call[c].on \in Requests /\ ~Holds(c)
     /\ ~\E d \in Calls \ {c} : Holds(d) /\ call[d].on = call[c].on
     /\ status[call[c].on] \in {"pending", "approved"}
     /\ status' = [status EXCEPT ![call[c].on] = "expired"]
     /\ UNCHANGED approvedBy
  \/ /\ call[c].on \in Requests /\ Holds(c) /\ call[c].op \in {"approve", "deny"}
     /\ call[c].by \in Users
     /\ \E new \in {"approved", "denied"} :
          status' = [status EXCEPT ![call[c].on] = new]
     /\ approvedBy' = [approvedBy EXCEPT ![call[c].on] = call[c].by]
  \/ /\ call[c].on \in Requests /\ Holds(c) /\ call[c].op = "redeem"
     /\ status' = [status EXCEPT ![call[c].on] = "consumed"]
     /\ UNCHANGED approvedBy

\* A call that gets the row or the keys, and one that lets go of both.
Takes(c) ==
  \/ /\ call'[c].at = "locked" /\ ~Holds(c) /\ call[c].on \in Requests
     /\ call'[c].on = call[c].on /\ call'[c].op = call[c].op
     /\ ~\E d \in Calls \ {c} : Holds(d) /\ call[d].on = call[c].on
     /\ status[call[c].on] = IF call[c].op = "redeem" THEN "approved" ELSE "pending"
     /\ UNCHANGED <<status, approvedBy>>
  \/ /\ call'[c].at = "counted"
     /\ call'[c].on = call[c].on /\ call'[c].op = call[c].op
     /\ call'[c].by = call[c].by
     /\ call[c].on \in Requests => Holds(c)
     /\ UNCHANGED <<status, approvedBy>>
  \/ call'[c].at \notin {"locked", "counted"}

CallMoves(c) ==
  /\ \E x \in CallRecords : call' = [call EXCEPT ![c] = x]
  /\ Writes(c) /\ Takes(c)
  /\ LoginKept
  /\ call'[c].on \in Requests => login'[call'[c].on] # "none"

LEMMA RowEffects ==
  ASSUME RowInv, NEW c \in Calls,
         \/ CallStarts(c) \/ CallEnds(c) \/ LockRow(c) \/ Deny(c)
         \/ CountKeys(c) \/ Approve(c) \/ CreateKey(c) \/ Redeem(c)
  PROVE  CallMoves(c)
<1> USE ConstantFacts DEF CallMoves, Writes, Takes, Holds, LoginKept
<1>t. /\ call \in [Calls -> CallRecords] /\ call[c] \in CallRecords
      /\ ShapeOf(call[c]) /\ Begun
  BY DEF RowInv, TypeOK, CallRecords, Places, Shaped
<1>n. /\ NoCall.at = "idle" /\ NoCall.on = None /\ NoCall.op = "none"
      /\ None \notin Requests
  BY DEF NoCall
<1>k. \E x \in CallRecords : call' = [call EXCEPT ![c] = x]
  BY CallKept
<1>1. ASSUME CallStarts(c) PROVE CallMoves(c)
  <2>1. PICK x \in CallRecords :
          /\ call' = [call EXCEPT ![c] = x] /\ x.at = "called"
          /\ x.on \in Requests => login[x.on] # "none"
          /\ UNCHANGED <<requests, login>>
    BY <1>1 DEF CallStarts
  <2>2. call'[c] = x
    BY <2>1, <1>t
  <2>3. Takes(c)
    BY <2>1, <2>2
  <2>. QED BY <2>1, <2>2, <2>3, <1>k DEF requests
<1> DEFINE Leaves ==
             /\ call'[c].at \notin {"locked", "counted"}
             /\ call'[c].on \in Requests => call'[c].on = call[c].on
<1>2. ASSUME Done(c) PROVE Leaves
  <2>1. call'[c] = NoCall
    BY <1>2, <1>t DEF Done
  <2>. QED BY <2>1, <1>n
<1>3. ASSUME NEW place \in Answers, GoTo(c, place) PROVE Leaves
  <2>1. call'[c].at = place /\ call'[c].on = call[c].on
    BY <1>3, <1>t DEF GoTo, CallRecords
  <2>. QED BY <2>1 DEF Answers
<1>4. ASSUME NEW place \in Answers, Answer(c, place) PROVE Leaves
  BY <1>2, <1>3, <1>4 DEF Answer
<1>10. ASSUME CallEnds(c) PROVE CallMoves(c)
  <2>1. Leaves
    BY <1>2, <1>3, <1>10 DEF CallEnds
  <2>2. LoginKept /\ UNCHANGED <<status, approvedBy>>
    BY <1>10 DEF CallEnds, requests
  <2>. QED BY <2>1, <2>2, <1>k, <1>t DEF Begun
<1>5. ASSUME LockRow(c) PROVE CallMoves(c)
  <2>1. call[c].on \in Requests /\ ~Holds(c) /\ UNCHANGED <<approvedBy, login>>
    BY <1>5, <1>t, <1>n DEF LockRow, ShapeOf, At, cli
  <2>2. ~\E d \in Calls \ {c} : Holds(d) /\ call[d].on = call[c].on
    BY <1>5 DEF LockRow, RowFree, HoldsRow
  <2>3. \/ /\ \E place \in Answers : Answer(c, place)
           /\ \/ UNCHANGED status
              \/ /\ status[call[c].on] \in {"pending", "approved"}
                 /\ status' = [status EXCEPT ![call[c].on] = "expired"]
        \/ /\ status[call[c].on] = IF call[c].op = "redeem" THEN "approved"
                                                            ELSE "pending"
           /\ \E u : call' = [call EXCEPT ![c].at = "locked", ![c].by = u]
           /\ UNCHANGED status
    BY <1>5 DEF LockRow, Expired, Answers
  <2>4. CASE \E u : call' = [call EXCEPT ![c].at = "locked", ![c].by = u]
    <3>1. /\ call'[c].at = "locked" /\ call'[c].on = call[c].on
          /\ call'[c].op = call[c].op
      BY <2>4, <1>t DEF CallRecords
    <3>. QED BY <2>1, <2>2, <2>3, <3>1, <1>k, <1>t, <1>4 DEF Begun
  <2>5. CASE \E place \in Answers : Answer(c, place)
    <3>1. Leaves
      BY <1>4, <2>5
    <3>2. \/ UNCHANGED status
          \/ /\ status[call[c].on] \in {"pending", "approved"}
             /\ status' = [status EXCEPT ![call[c].on] = "expired"]
      BY <2>3
    <3>. QED BY <2>1, <2>2, <3>1, <3>2, <1>k, <1>t DEF Begun
  <2>. QED BY <2>3, <2>4, <2>5
<1>6. ASSUME CountKeys(c) PROVE CallMoves(c)
  <2>1. UNCHANGED <<status, approvedBy, login>>
    BY <1>6 DEF CountKeys, requests, cli
  <2>2. CASE GoTo(c, "counted")
    <3>1. /\ call'[c].at = "counted" /\ call'[c].on = call[c].on
          /\ call'[c].op = call[c].op /\ call'[c].by = call[c].by
      BY <2>2, <1>t DEF GoTo, CallRecords
    <3>2. call[c].on \in Requests => Holds(c)
      BY <1>6, <1>t, <1>n DEF CountKeys, Counts, At, ShapeOf
    <3>. QED BY <2>1, <3>1, <3>2, <1>k, <1>t DEF Begun
  <2>3. CASE Answer(c, "refused")
    <3>1. Leaves
      BY <1>4, <2>3 DEF Answers
    <3>. QED BY <2>1, <3>1, <1>k, <1>t DEF Begun
  <2>. QED BY <1>6, <2>2, <2>3 DEF CountKeys
<1>7. ASSUME Deny(c) \/ Approve(c) PROVE CallMoves(c)
  <2>1. Done(c) /\ call[c].on \in Requests /\ Holds(c) /\ call[c].by \in Users
        /\ call[c].op \in {"approve", "deny"} /\ UNCHANGED login
    BY <1>7, <1>t, <1>n DEF Deny, Approve, At, ShapeOf, cli
  <2>2. Leaves
    BY <1>2, <2>1
  <2>. QED BY <1>7, <2>1, <2>2, <1>k, <1>t DEF Deny, Approve, Begun
<1>8. ASSUME CreateKey(c) PROVE CallMoves(c)
  <2>1. Leaves /\ UNCHANGED <<status, approvedBy, login>>
    BY <1>2, <1>8 DEF CreateKey, requests, cli
  <2>. QED BY <2>1, <1>k, <1>t DEF Begun
<1>9. ASSUME Redeem(c) PROVE CallMoves(c)
  <2>1. call[c].on \in Requests /\ Holds(c) /\ call[c].op = "redeem"
        /\ GoTo(c, "created") /\ UNCHANGED <<approvedBy, login>>
    BY <1>9, <1>t, <1>n DEF Redeem, At, ShapeOf, cli
  <2>2. Leaves
    BY <1>3, <2>1 DEF Answers
  <2>. QED BY <1>9, <2>1, <2>2, <1>k, <1>t DEF Redeem, Begun
<1>. QED BY <1>1, <1>10, <1>5, <1>6, <1>7, <1>8, <1>9

LEMMA RowInvMoves ==
  ASSUME RowInv, NEW c \in Calls, CallMoves(c)
  PROVE  Approved' /\ Begun' /\ RowLocked'
<1> USE ConstantFacts
<1>t. /\ call \in [Calls -> CallRecords] /\ status \in [Requests -> Statuses]
      /\ approvedBy \in [Requests -> Users \cup {None}]
      /\ Approved /\ Begun /\ RowLocked
  BY DEF RowInv, TypeOK, CallRecords, Places
<1>m. PICK x \in CallRecords : call' = [call EXCEPT ![c] = x]
  BY DEF CallMoves
<1>1. Approved'
  BY <1>t DEF CallMoves, Writes, Approved, RowLocked
<1>2. Begun'
  <2>1. \A r \in Requests : login'[r] = "none" => status'[r] = "absent"
    BY <1>t DEF CallMoves, Writes, Begun, LoginKept
  <2>2. \A d \in Calls : call'[d].on \in Requests => login'[call'[d].on] # "none"
    BY <1>t, <1>m DEF CallMoves, Begun, LoginKept
  <2>. QED BY <2>1, <2>2 DEF Begun
<1>3. RowLocked'
  <2>1. ASSUME NEW d \in Calls, NEW e \in Calls, d # e, Holds(d)', Holds(e)',
               call'[d].on \in Requests
        PROVE  call'[d].on # call'[e].on
    BY <1>t, <1>m, <2>1 DEF CallMoves, Takes, RowLocked, Holds
  <2>2. ASSUME NEW d \in Calls, Holds(d)', call'[d].on \in Requests
        PROVE  status'[call'[d].on] =
                 IF call'[d].op = "redeem" THEN "approved" ELSE "pending"
    <3>1. CASE d = c
      <4>1. UNCHANGED status
        BY <2>2, <3>1 DEF CallMoves, Takes, Holds
      <4>. QED BY <1>t, <1>m, <2>2, <3>1, <4>1 DEF CallMoves, Takes, RowLocked, Holds
    <3>2. CASE d # c
      BY <1>t, <1>m, <2>2, <3>2 DEF CallMoves, Writes, RowLocked, Holds
    <3>. QED BY <3>1, <3>2
  <2>. QED BY <2>1, <2>2 DEF RowLocked
<1>. QED BY <1>1, <1>2, <1>3

LEMMA TypeOKStep ==
  ASSUME RowInv, [Next]_vars
  PROVE  TypeOK'
<1> USE ConstantFacts DEF Statuses, Terminal, Logins
<1>t. TypeOK /\ Shaped /\ Approved
  BY DEF RowInv
<1>c. call' \in [Calls -> CallRecords] => call' \in
        [Calls -> [op: Ops \cup {"none"}, on: Keys \cup {None},
                   by: Users \cup {None}, late: BOOLEAN,
                   at: {"idle", "called", "locked", "counted"} \cup Answers]]
  BY DEF CallRecords, Places
<1>1. ASSUME NEW c \in Calls,
             \/ CallStarts(c) \/ CallEnds(c) \/ LockRow(c) \/ Deny(c)
             \/ CountKeys(c) \/ Approve(c) \/ CreateKey(c) \/ Redeem(c)
      PROVE  call' \in [Calls -> [op: Ops \cup {"none"}, on: Keys \cup {None},
                   by: Users \cup {None}, late: BOOLEAN,
                   at: {"idle", "called", "locked", "counted"} \cup Answers]]
  BY <1>1, <1>c, CallKept
<1>2. CASE \E c \in Calls : \/ LockRow(c) \/ Deny(c) \/ CountKeys(c) \/ Approve(c)
                            \/ CreateKey(c) \/ Redeem(c)
  <2> PICK c \in Calls : \/ LockRow(c) \/ Deny(c) \/ CountKeys(c) \/ Approve(c)
                         \/ CreateKey(c) \/ Redeem(c)
    BY <1>2
  <2>1. call[c] \in CallRecords /\ ShapeOf(call[c])
    BY <1>t DEF TypeOK, CallRecords, Places, Shaped
  <2>2. CASE LockRow(c)
    <3>1. status' \in [Requests -> Statuses]
      <4>1. UNCHANGED status \/ status' = [status EXCEPT ![call[c].on] = "expired"]
        BY <2>2 DEF LockRow, Expired
      <4>. QED BY <1>t, <4>1 DEF TypeOK
    <3>. QED BY <1>1, <1>t, <2>2, <3>1 DEF LockRow, TypeOK, cli
  <2>3. CASE CountKeys(c)
    BY <1>1, <1>t, <2>3 DEF CountKeys, TypeOK, cli, requests
  <2>4. CASE Deny(c) \/ Approve(c)
    <3>1. call[c].on \in Requests /\ call[c].by \in Users
      BY <2>1, <2>4 DEF Deny, Approve, At, ShapeOf, NoCall
    <3>. QED BY <1>1, <1>t, <2>4, <3>1 DEF Deny, Approve, TypeOK, cli, requests
  <2>5. CASE CreateKey(c)
    BY <1>1, <1>t, <2>1, <2>5 DEF CreateKey, TypeOK, cli, requests, CallRecords
  <2>6. CASE Redeem(c)
    <3>1. call[c].on \in Requests /\ call[c].by \in Users \cup {None}
      BY <2>1, <2>6 DEF Redeem, At, ShapeOf, NoCall, CallRecords
    <3>2. status' \in [Requests -> Statuses] /\ issued' \in [Requests -> Nat]
      <4>1. /\ status' = [status EXCEPT ![call[c].on] = "consumed"]
            /\ issued' = [issued EXCEPT ![call[c].on] = @ + 1]
        BY <2>6 DEF Redeem
      <4>2. status \in [Requests -> Statuses] /\ issued \in [Requests -> Nat]
        BY <1>t DEF TypeOK
      <4>3. issued' \in [Requests -> Nat]
        BY <3>1, <4>1, <4>2
      <4>4. status' \in [Requests -> Statuses]
        BY <3>1, <4>1, <4>2
      <4>. QED BY <4>3, <4>4
    <3>3. owner' \in [Keys -> Users \cup {None}]
      BY <1>t, <2>6, <3>1 DEF Redeem, TypeOK
    <3>. QED BY <1>1, <1>t, <2>6, <3>2, <3>3 DEF Redeem, TypeOK, cli
  <2>. QED BY <2>2, <2>3, <2>4, <2>5, <2>6
<1>3. ASSUME NEW c \in Calls, OnlyCalls(c) PROVE TypeOK'
  <2>1. call' \in [Calls -> CallRecords]
    BY <1>3, CallKept, StartsOrEnds
  <2>2. /\ UNCHANGED <<requests, owner, issued, told>>
        /\ received' \subseteq Requests /\ login' \in [Requests -> Logins]
        /\ waits' \in [Requests -> Calls \cup {None}]
    BY <1>3, <1>t DEF OnlyCalls, CallDies, AnswerDropped, Poll, PollAnswered, Decide,
                      AskForKey, Moves, TypeOK, cli
  <2>. QED BY <1>c, <1>t, <2>1, <2>2 DEF TypeOK, requests
<1>6. ASSUME NEW r \in Requests,
             \/ Lapse(r) \/ Cleanup(r) \/ AskForDevice(r) \/ GiveUpPoll(r)
             \/ GiveUpLogin(r) \/ Verify(r) \/ Store(r) \/ Logout(r)
      PROVE  TypeOK'
  BY <1>6, <1>t DEF Lapse, Cleanup, Expired, AskForDevice, GiveUpPoll, GiveUpLogin,
                    Verify, Store, Logout, Moves, TypeOK, cli, requests
<1>7. ASSUME NEW r \in Requests, BestEffortRevoke(r) PROVE TypeOK'
  BY <1>7, <1>t DEF BestEffortRevoke, Moves, TypeOK, requests
<1>8. ASSUME NEW k \in Keys, RevokeKey(k) PROVE TypeOK'
  BY <1>8, <1>t DEF RevokeKey, TypeOK, cli, requests
<1>9. CASE UNCHANGED vars
  BY <1>9, <1>t DEF vars, TypeOK, cli, requests
<1>. QED BY <1>2, <1>3, <1>6, <1>7, <1>8, <1>9 DEF Next, OnlyCalls

LEMMA RowInvStep == RowInv /\ [Next]_vars => RowInv'
<1> SUFFICES ASSUME RowInv, [Next]_vars PROVE RowInv'
  OBVIOUS
<1>0. TypeOK'
  BY TypeOKStep
<1>t. /\ TypeOK /\ Shaped /\ Approved /\ Begun /\ RowLocked
      /\ status \in [Requests -> Statuses]
      /\ approvedBy \in [Requests -> Users \cup {None}]
      /\ login \in [Requests -> Logins]
  BY DEF RowInv, TypeOK
<1>1. ASSUME NEW c \in Calls,
             \/ CallStarts(c) \/ CallEnds(c) \/ LockRow(c) \/ Deny(c)
             \/ CountKeys(c) \/ Approve(c) \/ CreateKey(c) \/ Redeem(c)
      PROVE  Shaped' /\ Approved' /\ Begun' /\ RowLocked'
  BY <1>1, CallKept, RowEffects, RowInvMoves
<1>2. ASSUME KeysDie PROVE Shaped' /\ Approved' /\ Begun' /\ RowLocked'
  BY <1>2, <1>t DEF KeysDie, LoginKept, Shaped, Approved, Begun, RowLocked, Holds
<1>3. ASSUME NEW r \in Requests, Cleanup(r)
      PROVE  Shaped' /\ Approved' /\ Begun' /\ RowLocked'
  <2>1. UNCHANGED <<call, approvedBy, login>>
    BY <1>3 DEF Cleanup, cli
  <2>2. /\ status[r] # "absent"
        /\ \E new \in {"expired", "deleted"} : status' = [status EXCEPT ![r] = new]
        /\ \A c \in Calls : ~(Holds(c) /\ call[c].on = r)
    BY <1>3 DEF Cleanup, Expired, Terminal, HoldsRow, Holds
  <2>. QED BY <1>t, <2>1, <2>2 DEF Shaped, Approved, Begun, RowLocked, Holds
<1>4. ASSUME NEW r \in Requests, AskForDevice(r)
      PROVE  Shaped' /\ Approved' /\ Begun' /\ RowLocked'
  <2>1. /\ UNCHANGED <<call, approvedBy>> /\ login[r] = "none"
        /\ login' = [login EXCEPT ![r] = "polling"]
        /\ status' = [status EXCEPT ![r] = "pending"]
    BY <1>4 DEF AskForDevice, Moves
  <2>2. \A c \in Calls : call[c].on # r
    BY <1>t, <2>1 DEF Begun
  <2>. QED BY <1>t, <2>1, <2>2 DEF Shaped, Approved, Begun, RowLocked, Holds
<1>. QED BY <1>0, <1>1, <1>2, <1>3, <1>4, Effects DEF RowInv

LEMMA RowInvInit == Init => RowInv
<1> SUFFICES ASSUME Init PROVE RowInv
  OBVIOUS
<1>1. call = [c \in Calls |-> NoCall] /\ NoCall \in CallRecords /\ ShapeOf(NoCall)
  BY NoCallTyped DEF Init
<1>2. TypeOK
  BY <1>1 DEF Init, TypeOK, CallRecords, Places, Statuses, Logins
<1>3. NoCall.on \notin Requests /\ NoCall.at = "idle"
  BY ConstantFacts DEF NoCall
<1>4. Shaped /\ RowLocked
  BY <1>1, <1>3 DEF Shaped, RowLocked, Holds
<1>5. Approved /\ Begun
  BY <1>1, <1>3 DEF Init, Approved, Begun
<1>. QED BY <1>2, <1>4, <1>5 DEF RowInv

\* Requests, keys, calls and logins keep their types.
THEOREM DeviceTypeOK == Spec => []TypeOK
<1>1. RowInv => TypeOK
  BY DEF RowInv
<1>. QED BY <1>1, RowInvInit, RowInvStep, PTL DEF Spec

-----------------------------------------------------------------------------
(* Decisions                                                               *)

\* What a step makes of a request: nothing that is ended begins again.
LEMMA StatusMoves ==
  ASSUME RowInv, [Next]_vars
  PROVE  \A r \in Requests :
           \/ status'[r] = status[r]
           \/ status[r] \in {"absent", "pending", "approved"}
           \/ status[r] \in Terminal /\ status'[r] = "deleted"
<1>t. /\ status \in [Requests -> Statuses] /\ RowLocked /\ Begun
      /\ call \in [Calls -> CallRecords]
  BY DEF RowInv, TypeOK, CallRecords, Places
<1>1. ASSUME NEW c \in Calls, CallMoves(c), NEW r \in Requests, status'[r] # status[r]
      PROVE  status[r] \in {"pending", "approved"}
  BY <1>1, <1>t DEF CallMoves, Writes, RowLocked
<1>2. ASSUME NEW q \in Requests, Cleanup(q) \/ AskForDevice(q),
             NEW r \in Requests, status'[r] # status[r]
      PROVE  \/ status[r] \in {"absent", "pending", "approved"}
             \/ status[r] \in Terminal /\ status'[r] = "deleted"
  BY <1>2, <1>t DEF Cleanup, AskForDevice, Expired, Begun, Terminal, Statuses
<1>3. KeysDie => UNCHANGED status
  BY DEF KeysDie
<1>. QED BY <1>1, <1>2, <1>3, Effects, RowEffects

\* A request that was denied, redeemed or expired is never decided, redeemed
\* or revived by a poll or a decision that was on its way.
THEOREM DeviceDecisionStands == Spec => DecisionStands
<1>1. RowInv /\ [Next]_vars => [Stands]_vars
  BY StatusMoves DEF Stands, Terminal
<1>. QED BY <1>1, RowInvInit, RowInvStep, PTL DEF Spec, DecisionStands

LEMMA OneKeyStep == RowInv /\ OneKeyPerRequest /\ [Next]_vars => OneKeyPerRequest'
<1> SUFFICES ASSUME RowInv, OneKeyPerRequest, [Next]_vars, NEW r \in Requests
             PROVE  /\ issued'[r] <= 1
                    /\ issued'[r] = 1 => status'[r] \in {"consumed", "deleted"}
  BY DEF OneKeyPerRequest
<1>t. /\ issued \in [Requests -> Nat] /\ status \in [Requests -> Statuses]
      /\ RowLocked /\ issued[r] <= 1
      /\ issued[r] = 1 => status[r] \in {"consumed", "deleted"}
  BY DEF RowInv, TypeOK, OneKeyPerRequest
<1>1. CASE issued' = issued
  <2>1. issued[r] = 1 => status'[r] \in {"consumed", "deleted"}
    BY <1>t, StatusMoves DEF Terminal
  <2>. QED BY <1>1, <1>t, <2>1
<1>2. ASSUME NEW c \in Calls, Redeem(c)
      PROVE  /\ issued'[r] <= 1
             /\ issued'[r] = 1 => status'[r] \in {"consumed", "deleted"}
  <2>1. call[c].on \in Requests /\ Holds(c) /\ call[c].op = "redeem"
    <3>1. ShapeOf(call[c])
      BY DEF RowInv, Shaped
    <3>. QED BY <1>2, <3>1 DEF Redeem, At, ShapeOf, NoCall, Holds
  <2>2. status[call[c].on] = "approved"
    BY <1>t, <2>1 DEF RowLocked
  <2>3. /\ issued' = [issued EXCEPT ![call[c].on] = @ + 1]
        /\ status' = [status EXCEPT ![call[c].on] = "consumed"]
    BY <1>2 DEF Redeem
  <2>4. CASE r = call[c].on
    <3>1. issued[r] = 0
      BY <1>t, <2>2, <2>4
    <3>. QED BY <1>t, <2>1, <2>3, <2>4, <3>1
  <2>5. CASE r # call[c].on
    BY <1>t, <2>1, <2>3, <2>5
  <2>. QED BY <2>4, <2>5
<1>3. issued' = issued \/ \E c \in Calls : Redeem(c)
  <2>1. ASSUME NEW c \in Calls,
               \/ CallStarts(c) \/ CallEnds(c) \/ LockRow(c) \/ Deny(c)
               \/ CountKeys(c) \/ Approve(c) \/ CreateKey(c)
        PROVE  issued' = issued
    BY <2>1 DEF CallStarts, CallEnds, LockRow, Deny, CountKeys, Approve, CreateKey
  <2>2. ASSUME NEW q \in Requests, Cleanup(q) \/ AskForDevice(q)
        PROVE  issued' = issued
    BY <2>2 DEF Cleanup, AskForDevice
  <2>. QED BY <2>1, <2>2, Effects DEF KeysDie
<1>. QED BY <1>1, <1>2, <1>3

\* Whatever polls, decisions and deaths of calls run into each other, a
\* request is redeemed for at most one key, and is consumed with it.
THEOREM DeviceOneKey == Spec => []OneKeyPerRequest
<1>1. Init => OneKeyPerRequest
  BY DEF Init, OneKeyPerRequest
<1>. QED BY <1>1, OneKeyStep, RowInvInit, RowInvStep, PTL DEF Spec

-----------------------------------------------------------------------------
(* The limit of keys                                                       *)

\* A step that gives no key to a user leaves the user with no more than before.
LEMMA FewerKeys ==
  ASSUME NEW S \in SUBSET Keys, NEW T \in SUBSET S
  PROVE  /\ Cardinality(S) \in Nat /\ Cardinality(T) \in Nat
         /\ Cardinality(T) <= Cardinality(S)
BY ConstantFacts, FS_Subset, FS_CardinalityType

LEMMA OneMoreKey ==
  ASSUME NEW S \in SUBSET Keys, NEW k \in Keys, NEW T \in SUBSET (S \cup {k}),
         Cardinality(S) < KeyLimit
  PROVE  Cardinality(T) <= KeyLimit
<1>1. IsFiniteSet(S) /\ IsFiniteSet(S \cup {k})
  BY ConstantFacts, FS_Subset
<1>2. Cardinality(S) \in Nat /\ Cardinality(S \cup {k}) <= Cardinality(S) + 1
  <2>1. Cardinality(S) \in Nat
    BY <1>1, FS_CardinalityType
  <2>2. Cardinality(S \cup {k}) = IF k \in S THEN Cardinality(S)
                                             ELSE Cardinality(S) + 1
    BY <1>1, FS_AddElement
  <2>. QED BY <2>1, <2>2
<1>3. Cardinality(T) \in Nat /\ Cardinality(T) <= Cardinality(S \cup {k})
        /\ Cardinality(S \cup {k}) \in Nat
  BY <1>1, FS_Subset, FS_CardinalityType
<1>. QED BY <1>2, <1>3, ConstantFacts

\* What a step does to the keys: none is given, or one is given by a call that
\* counted and lets go of the user's keys.
NoKeyGiven == \A u \in Users : KeysOf(u)' \subseteq KeysOf(u)

GivesKey(c) ==
  /\ At(c, "counted") /\ call[c].by \in Users /\ call[c].on \in Keys
  /\ owner' = [owner EXCEPT ![call[c].on] = call[c].by]
  /\ \E x \in CallRecords : call' = [call EXCEPT ![c] = x] /\ x.at # "counted"

\* What a step that gives no key does to the locks on keys.
LocksKeys(c) ==
  /\ \A d \in Calls \ {c} : ~(At(d, "counted") /\ call[d].by = call[c].by)
  /\ Cardinality(KeysOf(call[c].by)) < KeyLimit
  /\ \E x \in CallRecords :
       call' = [call EXCEPT ![c] = x] /\ x.by = call[c].by /\ x.by \in Users

LEMMA KeyEffects ==
  ASSUME RowInv, [Next]_vars
  PROVE  \/ NoKeyGiven /\ call' = call
         \/ \E c \in Calls :
              \/ NoKeyGiven /\ LocksKeys(c)
              \/ NoKeyGiven /\ \E x \in CallRecords :
                                 call' = [call EXCEPT ![c] = x] /\ x.at # "counted"
              \/ GivesKey(c)
<1> USE ConstantFacts
<1>t. /\ call \in [Calls -> CallRecords] /\ Shaped
      /\ owner \in [Keys -> Users \cup {None}]
  BY DEF RowInv, TypeOK, CallRecords, Places
<1> DEFINE Uncounted(c) == \E x \in CallRecords :
                             call' = [call EXCEPT ![c] = x] /\ x.at # "counted"
<1>0. owner' = owner => NoKeyGiven
  BY DEF NoKeyGiven, KeysOf
<1>1. ASSUME KeysDie PROVE NoKeyGiven /\ call' = call
  BY <1>1, <1>t DEF KeysDie, NoKeyGiven, KeysOf
<1>2. ASSUME NEW r \in Requests, Cleanup(r) \/ AskForDevice(r)
      PROVE  NoKeyGiven /\ call' = call
  BY <1>0, <1>2 DEF Cleanup, AskForDevice
<1>3. ASSUME NEW c \in Calls, call'[c].at # "counted",
             \/ CallStarts(c) \/ CallEnds(c) \/ LockRow(c) \/ Deny(c)
             \/ CountKeys(c) \/ Approve(c) \/ CreateKey(c) \/ Redeem(c)
      PROVE  Uncounted(c)
  <2>1. PICK x \in CallRecords : call' = [call EXCEPT ![c] = x]
    BY <1>3, CallKept
  <2>2. call'[c] = x
    BY <2>1, <1>t
  <2>. QED BY <1>3, <2>1, <2>2
<1>4. ASSUME NEW c \in Calls, Done(c) PROVE call'[c].at # "counted"
  BY <1>4, <1>t DEF Done, NoCall
<1>5. ASSUME NEW c \in Calls, NEW place \in Answers, GoTo(c, place)
      PROVE  call'[c].at # "counted"
  BY <1>5, <1>t DEF GoTo, CallRecords, Answers
<1>6. ASSUME NEW c \in Calls, CallStarts(c) \/ CallEnds(c)
      PROVE  NoKeyGiven /\ Uncounted(c)
  <2>1. call'[c].at # "counted"
    <3>1. CASE CallStarts(c)
      BY <3>1, <1>t DEF CallStarts
    <3>2. CASE CallEnds(c)
      BY <3>2, <1>4, <1>5 DEF CallEnds
    <3>. QED BY <1>6, <3>1, <3>2
  <2>. QED BY <1>0, <1>3, <1>6, <2>1 DEF CallStarts, CallEnds
<1>7. ASSUME NEW c \in Calls, LockRow(c) \/ Deny(c) \/ Approve(c)
      PROVE  NoKeyGiven /\ Uncounted(c)
  <2>1. call'[c].at # "counted"
    <3>1. CASE Deny(c) \/ Approve(c)
      BY <3>1, <1>4 DEF Deny, Approve
    <3>2. CASE \E place \in Answers : Answer(c, place)
      BY <3>2, <1>4, <1>5 DEF Answer
    <3>3. CASE \E u : call' = [call EXCEPT ![c].at = "locked", ![c].by = u]
      BY <3>3, <1>t DEF CallRecords
    <3>4. LockRow(c) =>
            \/ \E place \in Answers : Answer(c, place)
            \/ \E u : call' = [call EXCEPT ![c].at = "locked", ![c].by = u]
      BY DEF LockRow, Answers
    <3>. QED BY <1>7, <3>1, <3>2, <3>3, <3>4
  <2>. QED BY <1>0, <1>3, <1>7, <2>1 DEF LockRow, Deny, Approve
<1>8. ASSUME NEW c \in Calls, CountKeys(c)
      PROVE  NoKeyGiven /\ (LocksKeys(c) \/ Uncounted(c))
  <2>1. NoKeyGiven
    BY <1>0, <1>8 DEF CountKeys
  <2>2. CASE Answer(c, "refused")
    <3>1. call'[c].at # "counted"
      BY <2>2, <1>4, <1>5 DEF Answer, Answers
    <3>. QED BY <2>1, <3>1, <1>3, <1>8
  <2>3. CASE GoTo(c, "counted") /\ Cardinality(KeysOf(call[c].by)) < KeyLimit
    <3>1. ShapeOf(call[c]) /\ call[c].by \in Users
      BY <1>8, <1>t DEF CountKeys, Counts, At, Shaped, ShapeOf, NoCall
    <3>2. PICK x \in CallRecords : call' = [call EXCEPT ![c] = x]
      BY <1>8, CallKept
    <3>3. x.by = call[c].by
      <4>1. call'[c] = x
        BY <3>2, <1>t
      <4>. QED BY <2>3, <4>1, <1>t DEF GoTo, CallRecords
    <3>4. \A d \in Calls \ {c} : ~(At(d, "counted") /\ call[d].by = call[c].by)
      BY <1>8 DEF CountKeys, KeysFree, HoldsKeys, At
    <3>. QED BY <2>1, <2>3, <3>1, <3>2, <3>3, <3>4 DEF LocksKeys
  <2>4. KeysOf(call[c].by) \subseteq Keys
    BY DEF KeysOf
  <2>5. Cardinality(KeysOf(call[c].by)) \in Nat
    BY <2>4, FewerKeys
  <2>. QED BY <1>8, <2>2, <2>3, <2>5 DEF CountKeys
<1>9. ASSUME NEW c \in Calls, CreateKey(c) \/ Redeem(c) PROVE GivesKey(c)
  <2>1. At(c, "counted") /\ call[c].by \in Users /\ call[c].on \in Keys
    BY <1>9, <1>t DEF CreateKey, Redeem, At, Shaped, ShapeOf, NoCall
  <2>2. call'[c].at # "counted"
    BY <1>4, <1>5, <1>9 DEF CreateKey, Redeem, Answers
  <2>3. Uncounted(c)
    BY <1>3, <1>9, <2>2
  <2>. QED BY <1>9, <2>1, <2>3 DEF GivesKey, CreateKey, Redeem
<1>. QED BY <1>1, <1>2, <1>6, <1>7, <1>8, <1>9, Effects

LEMMA KeyInvStep == KeyInv /\ [Next]_vars => KeyInv'
<1> SUFFICES ASSUME KeyInv, [Next]_vars PROVE KeyInv'
  OBVIOUS
<1> USE ConstantFacts
<1>t. /\ RowInv /\ KeysLocked /\ Room /\ KeyLimitHolds /\ RowInv'
      /\ call \in [Calls -> CallRecords] /\ owner \in [Keys -> Users \cup {None}]
      /\ \A c \in Calls : At(c, "counted") => call[c].by \in Users
  <2>1. RowInv'
    BY RowInvStep DEF KeyInv
  <2>2. \A c \in Calls : At(c, "counted") => call[c].by \in Users
    BY DEF KeyInv, RowInv, Shaped, ShapeOf, NoCall, At
  <2>. QED BY <2>1, <2>2 DEF KeyInv, RowInv, TypeOK, CallRecords, Places
<1>f. ASSUME NoKeyGiven, NEW u \in Users
      PROVE  /\ Cardinality(KeysOf(u)') <= KeyLimit
             /\ Cardinality(KeysOf(u)) < KeyLimit => Cardinality(KeysOf(u)') < KeyLimit
  <2>1. KeysOf(u) \in SUBSET Keys /\ KeysOf(u)' \in SUBSET KeysOf(u)
    BY <1>f DEF NoKeyGiven, KeysOf
  <2>2. /\ Cardinality(KeysOf(u)) \in Nat /\ Cardinality(KeysOf(u)') \in Nat
        /\ Cardinality(KeysOf(u)') <= Cardinality(KeysOf(u))
    BY <2>1, FewerKeys
  <2>. QED BY <2>2, <1>t DEF KeyLimitHolds
<1>r. (\A d \in Calls : At(d, "counted")' =>
         \A u : u = call'[d].by => Cardinality(KeysOf(u)') < KeyLimit) => Room'
  BY DEF Room, KeysOf
<1>1. ASSUME NoKeyGiven, call' = call PROVE KeysLocked' /\ Room' /\ KeyLimitHolds'
  <2>1. ASSUME NEW d \in Calls, At(d, "counted")', NEW u, u = call'[d].by
        PROVE  Cardinality(KeysOf(u)') < KeyLimit
    BY <1>1, <1>f, <1>t, <2>1 DEF Room, At
  <2>2. KeysLocked'
    BY <1>1, <1>t DEF KeysLocked, At
  <2>. QED BY <1>1, <1>f, <1>r, <2>1, <2>2 DEF KeyLimitHolds
<1>2. ASSUME NEW c \in Calls, NoKeyGiven, LocksKeys(c)
      PROVE  KeysLocked' /\ Room' /\ KeyLimitHolds'
  <2>1. PICK x \in CallRecords :
          call' = [call EXCEPT ![c] = x] /\ x.by = call[c].by /\ x.by \in Users
    BY <1>2 DEF LocksKeys
  <2>2. KeysLocked'
    BY <1>2, <1>t, <2>1 DEF KeysLocked, LocksKeys, At
  <2>3. Room'
    <3>1. ASSUME NEW d \in Calls, At(d, "counted")', NEW u, u = call'[d].by
          PROVE  Cardinality(KeysOf(u)') < KeyLimit
      <4>1. u \in Users /\ Cardinality(KeysOf(u)) < KeyLimit
        BY <1>2, <1>t, <2>1, <3>1 DEF Room, LocksKeys, At
      <4>. QED BY <1>2, <1>f, <4>1
    <3>. QED BY <3>1, <1>r
  <2>. QED BY <1>2, <1>f, <2>2, <2>3 DEF KeyLimitHolds
<1>3. ASSUME NEW c \in Calls, NoKeyGiven, NEW x \in CallRecords,
             call' = [call EXCEPT ![c] = x], x.at # "counted"
      PROVE  KeysLocked' /\ Room' /\ KeyLimitHolds'
  <2>1. \A d \in Calls : At(d, "counted")' => d # c /\ call'[d] = call[d]
    BY <1>3, <1>t DEF At
  <2>2. KeysLocked'
    BY <1>t, <2>1 DEF KeysLocked, At
  <2>3. ASSUME NEW d \in Calls, At(d, "counted")', NEW u, u = call'[d].by
        PROVE  Cardinality(KeysOf(u)') < KeyLimit
    <3>1. u \in Users /\ Cardinality(KeysOf(u)) < KeyLimit
      BY <1>t, <2>1, <2>3 DEF Room, At
    <3>. QED BY <1>3, <1>f, <3>1
  <2>. QED BY <1>3, <1>f, <1>r, <2>2, <2>3 DEF KeyLimitHolds
<1>4. ASSUME NEW c \in Calls, GivesKey(c)
      PROVE  KeysLocked' /\ Room' /\ KeyLimitHolds'
  <2>0. PICK k \in Keys, v \in Users :
          /\ v = call[c].by /\ owner' = [owner EXCEPT ![k] = v]
          /\ At(c, "counted")
    BY <1>4 DEF GivesKey
  <2>1. \A d \in Calls : At(d, "counted")' => d # c /\ call'[d] = call[d]
    BY <1>4, <1>t DEF GivesKey, At
  <2>2. KeysLocked'
    BY <1>t, <2>1 DEF KeysLocked, At
  <2>3. Cardinality(KeysOf(v)') <= KeyLimit
    <3>1. KeysOf(v) \in SUBSET Keys /\ KeysOf(v)' \in SUBSET (KeysOf(v) \cup {k})
      BY <1>t, <2>0 DEF KeysOf
    <3>2. Cardinality(KeysOf(v)) < KeyLimit
      BY <1>t, <2>0 DEF Room
    <3>. QED BY <2>0, <3>1, <3>2, OneMoreKey
  <2>4. ASSUME NEW u \in Users, u # v
        PROVE  /\ Cardinality(KeysOf(u)') <= KeyLimit
               /\ Cardinality(KeysOf(u)) < KeyLimit
                    => Cardinality(KeysOf(u)') < KeyLimit
    <3>1. KeysOf(u) \in SUBSET Keys /\ KeysOf(u)' \in SUBSET KeysOf(u)
      BY <1>t, <2>0, <2>4 DEF KeysOf
    <3>2. /\ Cardinality(KeysOf(u)) \in Nat /\ Cardinality(KeysOf(u)') \in Nat
          /\ Cardinality(KeysOf(u)') <= Cardinality(KeysOf(u))
      BY <3>1, FewerKeys
    <3>. QED BY <3>2, <1>t DEF KeyLimitHolds
  <2>5. ASSUME NEW d \in Calls, At(d, "counted")', NEW u, u = call'[d].by
        PROVE  Cardinality(KeysOf(u)') < KeyLimit
    <3>1. u \in Users /\ u # v /\ Cardinality(KeysOf(u)) < KeyLimit
      BY <1>t, <2>0, <2>1, <2>5 DEF Room, KeysLocked, At
    <3>. QED BY <2>4, <3>1
  <2>6. KeyLimitHolds'
    BY <2>3, <2>4 DEF KeyLimitHolds
  <2>. QED BY <1>r, <2>2, <2>5, <2>6
<1>. QED BY <1>t, <1>1, <1>2, <1>3, <1>4, KeyEffects DEF KeyInv

\* A user never has more keys than the limit, however many redemptions,
\* approvals and manual creations count at the same time.
THEOREM DeviceKeyLimit == Spec => []KeyLimitHolds
<1>1. Init => KeyInv
  <2> SUFFICES ASSUME Init PROVE KeysLocked /\ Room /\ KeyLimitHolds
    BY RowInvInit DEF KeyInv
  <2>1. \A c \in Calls : ~At(c, "counted")
    BY DEF Init, At, NoCall
  <2>2. \A u \in Users : KeysOf(u) = {}
    BY ConstantFacts DEF Init, KeysOf
  <2>. QED BY <2>1, <2>2, ConstantFacts, FS_EmptySet DEF KeysLocked, Room, KeyLimitHolds
<1>2. KeyInv => KeyLimitHolds
  BY DEF KeyInv
<1>. QED BY <1>1, <1>2, KeyInvStep, PTL DEF Spec
-----------------------------------------------------------------------------
(* The key that a login got hold of                                        *)

Spent(r) == status[r] \in {"consumed", "deleted"}

\* A poll is answered with a key only when the request is over, and a login
\* that got the key neither polls again nor ends without settling it.
HandedOver ==
  /\ \A c \in Calls : At(c, "created") => call[c].on \in Requests /\ Spent(call[c].on)
  /\ \A r \in received : /\ login[r] \notin {"none", "polling"}
                         /\ waits[r] = None /\ Spent(r)
  /\ NoSilentOrphan

\* Steps that leave the CLI alone, and the CLI's own.
OfTheDatabase(c) ==
  \/ LockRow(c) \/ Deny(c) \/ CountKeys(c) \/ Approve(c) \/ CreateKey(c)
  \/ Redeem(c) \/ CallDies(c) \/ AnswerDropped(c)
  \/ \E r \in Requests, u \in Users : Decide(c, r, u)
  \/ \E m \in Manual, u \in Users : AskForKey(c, m, u)

LEMMA SpentStays ==
  ASSUME RowInv, [Next]_vars, NEW r \in Requests, Spent(r)
  PROVE  Spent(r)'
BY StatusMoves DEF Spent, Terminal

\* Only the redemption answers a poll with a key.
LEMMA CreatedBy ==
  ASSUME RowInv, [Next]_vars, NEW d \in Calls, At(d, "created")'
  PROVE  Redeem(d) \/ call'[d] = call[d]
<1> USE ConstantFacts DEF At
<1>t. /\ call \in [Calls -> CallRecords] /\ NoCall.at = "idle"
  BY DEF RowInv, TypeOK, CallRecords, Places, NoCall
<1>a. ASSUME NEW c \in Calls, NEW place, Answer(c, place)
      PROVE  call'[c].at \in {"idle", place}
  <2>1. CASE GoTo(c, place)
    BY <1>t, <2>1 DEF GoTo, CallRecords
  <2>2. CASE Done(c)
    BY <1>t, <2>2 DEF Done
  <2>. QED BY <1>a, <2>1, <2>2 DEF Answer
<1>1. ASSUME NEW c \in Calls, LockRow(c) PROVE call'[d] = call[d]
  <2>1. call'[c].at # "created"
    BY <1>1, <1>t, <1>a DEF LockRow, CallRecords
  <2>2. \A e \in Calls \ {c} : call'[e] = call[e]
    BY <1>1, <1>t, CallKept
  <2>. QED BY <2>1, <2>2
<1>2. ASSUME NEW c \in Calls, CountKeys(c) PROVE call'[d] = call[d]
  <2>1. call'[c].at # "created"
    BY <1>2, <1>t, <1>a DEF CountKeys, GoTo, CallRecords
  <2>2. \A e \in Calls \ {c} : call'[e] = call[e]
    BY <1>2, <1>t, CallKept
  <2>. QED BY <2>1, <2>2
<1>3. ASSUME NEW c \in Calls,
             \/ Deny(c) \/ Approve(c) \/ CreateKey(c) \/ CallDies(c)
             \/ AnswerDropped(c) \/ \E r \in Requests : PollAnswered(c, r)
      PROVE  call'[d] = call[d]
  BY <1>3, <1>t DEF Deny, Approve, CreateKey, CallDies, AnswerDropped, PollAnswered, Done
<1>4. ASSUME NEW c \in Calls, Redeem(c) PROVE Redeem(d) \/ call'[d] = call[d]
  BY <1>4, <1>t DEF Redeem, GoTo
<1>5. ASSUME NEW c \in Calls, NEW op, NEW k, NEW u, Starts(c, op, k, u)
      PROVE  call'[d] = call[d]
  BY <1>5, <1>t DEF Starts
<1>6. ASSUME NEW c \in Calls,
             \/ \E r \in Requests : Poll(c, r)
             \/ \E r \in Requests, u \in Users : Decide(c, r, u)
             \/ \E m \in Manual, u \in Users : AskForKey(c, m, u)
      PROVE  call'[d] = call[d]
  BY <1>5, <1>6 DEF Poll, Decide, AskForKey
<1>7. ASSUME NEW k \in Keys, RevokeKey(k) PROVE call' = call
  BY <1>7 DEF RevokeKey
<1>8. ASSUME NEW r \in Requests,
             \/ Lapse(r) \/ Cleanup(r) \/ AskForDevice(r) \/ GiveUpPoll(r)
             \/ GiveUpLogin(r) \/ Verify(r) \/ Store(r) \/ Logout(r)
             \/ BestEffortRevoke(r)
      PROVE  call' = call
  BY <1>8 DEF Lapse, Cleanup, AskForDevice, GiveUpPoll, GiveUpLogin, Verify, Store,
              Logout, BestEffortRevoke
<1>9. CASE UNCHANGED vars
  BY <1>9 DEF vars
<1>. QED BY <1>1, <1>2, <1>3, <1>4, <1>6, <1>7, <1>8, <1>9 DEF Next

\* A redemption is of a request that was approved, and ends it.
LEMMA RedeemSpends ==
  ASSUME RowInv, NEW c \in Calls, Redeem(c)
  PROVE  \E r \in Requests : /\ call[c].on = r /\ call'[c].on = r
                             /\ status[r] = "approved" /\ Spent(r)'
<1>t. /\ call \in [Calls -> CallRecords] /\ status \in [Requests -> Statuses]
      /\ RowLocked /\ ShapeOf(call[c])
  BY DEF RowInv, TypeOK, CallRecords, Places, Shaped
<1>1. call[c].on \in Requests /\ Holds(c) /\ call[c].op = "redeem"
  BY <1>t DEF Redeem, At, ShapeOf, NoCall, Holds
<1>2. status[call[c].on] = "approved"
  BY <1>t, <1>1 DEF RowLocked
<1>3. PICK r \in Requests : call[c].on = r
  BY <1>1
<1>4. /\ status' = [status EXCEPT ![r] = "consumed"]
      /\ call' = [call EXCEPT ![c].at = "created"]
  BY <1>3 DEF Redeem, GoTo
<1>5. call'[c].on = r
  BY <1>t, <1>3, <1>4
<1>6. Spent(r)'
  BY <1>t, <1>4 DEF Spent
<1>. QED BY <1>2, <1>3, <1>5, <1>6

\* The key of a request that is over is never made again.
LEMMA NoKeyAgain ==
  ASSUME RowInv, [Next]_vars, NEW r \in Requests, Spent(r), owner'[r] # None
  PROVE  owner[r] # None
<1> USE ConstantFacts
<1>t. /\ owner \in [Keys -> Users \cup {None}] /\ r \in Keys
      /\ \A c \in Calls : ShapeOf(call[c])
  BY DEF RowInv, TypeOK, Shaped
<1>1. ASSUME NEW c \in Calls, Redeem(c) PROVE owner[r] # None
  <2>1. r # call[c].on
    BY <1>1, RedeemSpends DEF Spent
  <2>. QED BY <1>1, <1>t, <2>1 DEF Redeem
<1>2. ASSUME NEW c \in Calls, CreateKey(c) PROVE owner[r] # None
  <2>1. call[c].on \in Manual
    BY <1>2, <1>t DEF CreateKey, ShapeOf, NoCall, At
  <2>. QED BY <1>2, <1>t, <2>1 DEF CreateKey
<1>3. ASSUME NEW c \in Calls,
             \/ CallStarts(c) \/ CallEnds(c) \/ LockRow(c) \/ Deny(c)
             \/ CountKeys(c) \/ Approve(c)
      PROVE  owner' = owner
  BY <1>3 DEF CallStarts, CallEnds, LockRow, Deny, CountKeys, Approve
<1>4. ASSUME NEW q \in Requests, Cleanup(q) \/ AskForDevice(q) PROVE owner' = owner
  BY <1>4 DEF Cleanup, AskForDevice
<1>5. ASSUME KeysDie PROVE owner[r] # None
  BY <1>5, <1>t DEF KeysDie
<1>. QED BY <1>1, <1>2, <1>3, <1>4, <1>5, Effects

\* What the invariant says of one login.
Settled(r) ==
  /\ login[r] \notin {"none", "polling"} /\ waits[r] = None /\ Spent(r)
  /\ login[r] = "over" /\ owner[r] # None => r \in told

\* The CLI's steps settle the key they got hold of.
LEMMA CliSettles ==
  ASSUME RowInv, HandedOver, [Next]_vars, NEW r \in Requests, r \in received'
  PROVE  Settled(r)'
<1> USE DEF Settled
<1>t. /\ login \in [Requests -> Logins] /\ waits \in [Requests -> Calls \cup {None}]
      /\ owner \in [Keys -> Users \cup {None}] /\ r \in Keys /\ None \notin Calls
      /\ told \subseteq Requests /\ received \subseteq Requests
  BY ConstantFacts DEF RowInv, TypeOK
<1>r. ASSUME r \in received PROVE Settled(r)
  BY <1>r DEF HandedOver, NoSilentOrphan
<1>s. ASSUME r \in received PROVE Spent(r)' /\ (owner'[r] # None => owner[r] # None)
  BY <1>r, <1>s, SpentStays, NoKeyAgain
<1>1. ASSUME UNCHANGED <<cli, received>> PROVE Settled(r)'
  BY <1>1, <1>r, <1>s DEF cli
<1>2. ASSUME NEW c \in Calls, NEW q \in Requests, Poll(c, q) PROVE Settled(r)'
  <2>1. r # q /\ UNCHANGED <<login, told, received>> /\ waits'[r] = waits[r]
    BY <1>2, <1>r, <1>t DEF Poll
  <2>. QED BY <2>1, <1>r, <1>s
<1>3. ASSUME NEW c \in Calls, NEW q \in Requests, PollAnswered(c, q) PROVE Settled(r)'
  <2>1. CASE r # q
    <3>1. /\ r \in received /\ login'[r] = login[r] /\ waits'[r] = waits[r]
          /\ UNCHANGED told
      BY <1>3, <1>t, <2>1 DEF PollAnswered, Moves
    <3>. QED BY <3>1, <1>r, <1>s
  <2>2. CASE r = q
    <3>1. r \notin received
      BY <1>3, <1>r, <1>t, <2>2 DEF PollAnswered
    <3>2. /\ At(c, "created") /\ call[c].on = r
          /\ login'[r] = "verifying" /\ waits'[r] = None
      BY <1>3, <1>t, <2>2, <3>1 DEF PollAnswered, Moves
    <3>3. Spent(r)'
      BY <3>2, SpentStays DEF HandedOver
    <3>. QED BY <3>2, <3>3
  <2>. QED BY <2>1, <2>2
<1>4. ASSUME NEW q \in Requests, AskForDevice(q) \/ GiveUpPoll(q) \/ GiveUpLogin(q)
      PROVE  Settled(r)'
  <2>1. /\ r \in received /\ r # q /\ login'[r] = login[r] /\ waits'[r] = waits[r]
        /\ UNCHANGED told
    BY <1>4, <1>r, <1>t DEF AskForDevice, GiveUpPoll, GiveUpLogin, Moves
  <2>. QED BY <2>1, <1>r, <1>s
<1>5. ASSUME NEW q \in Requests, Verify(q) \/ Store(q) \/ Logout(q) PROVE Settled(r)'
  <2>1. /\ r \in received /\ waits'[r] = waits[r] /\ UNCHANGED told
        /\ \/ login'[r] = login[r]
           \/ login'[r] \in {"storing", "revoking", "in"}
    BY <1>5, <1>t DEF Verify, Store, Logout, Moves
  <2>. QED BY <2>1, <1>r, <1>s
<1>6. ASSUME NEW q \in Requests, BestEffortRevoke(q) PROVE Settled(r)'
  <2>1. /\ r \in received /\ waits'[r] = waits[r]
        /\ login' = [login EXCEPT ![q] = "over"]
        /\ \/ owner' = [owner EXCEPT ![q] = None] /\ UNCHANGED told
           \/ told' = told \cup {q} /\ UNCHANGED owner
    BY <1>6, <1>t DEF BestEffortRevoke, Moves
  <2>2. CASE r = q
    BY <2>1, <2>2, <1>r, <1>s, <1>t
  <2>3. CASE r # q
    BY <2>1, <2>3, <1>r, <1>s, <1>t
  <2>. QED BY <2>2, <2>3
<1>7. ASSUME NEW c \in Calls, OfTheDatabase(c) PROVE UNCHANGED <<cli, received>>
  BY <1>7 DEF OfTheDatabase, LockRow, Deny, CountKeys, Approve, CreateKey, Redeem,
              CallDies, AnswerDropped, Decide, AskForKey
<1>8. ASSUME NEW k \in Keys, RevokeKey(k) PROVE UNCHANGED <<cli, received>>
  BY <1>8 DEF RevokeKey
<1>9. ASSUME NEW q \in Requests, Lapse(q) \/ Cleanup(q) PROVE UNCHANGED <<cli, received>>
  BY <1>9 DEF Lapse, Cleanup
<1>10. CASE UNCHANGED vars
  BY <1>1, <1>10 DEF vars
<1>. QED BY <1>1, <1>2, <1>3, <1>4, <1>5, <1>6, <1>7, <1>8, <1>9, <1>10
         DEF Next, OfTheDatabase

LEMMA HandedOverStep == RowInv /\ HandedOver /\ [Next]_vars => HandedOver'
<1> SUFFICES ASSUME RowInv, HandedOver, [Next]_vars PROVE HandedOver'
  OBVIOUS
<1>1. ASSUME NEW c \in Calls, At(c, "created")'
      PROVE  \E r \in Requests : call'[c].on = r /\ Spent(r)'
  <2>1. CASE Redeem(c)
    BY <2>1, RedeemSpends
  <2>2. CASE call'[c] = call[c]
    <3>1. PICK r \in Requests : call[c].on = r /\ Spent(r)
      BY <1>1, <2>2 DEF HandedOver, At
    <3>. QED BY <2>2, <3>1, SpentStays
  <2>. QED BY <1>1, <2>1, <2>2, CreatedBy
<1>2. ASSUME NEW r \in received' PROVE Settled(r)'
  <2>1. r \in Requests
    BY TypeOKStep DEF RowInv, TypeOK
  <2>. QED BY <1>2, <2>1, CliSettles
<1>3. \A c \in Calls :
        At(c, "created")' => call'[c].on \in Requests /\ Spent(call[c].on)'
  BY <1>1 DEF Spent
<1>. QED BY <1>2, <1>3 DEF HandedOver, NoSilentOrphan, Settled

\* A login that got hold of a key never ends with the key alive and nobody
\* told: however verification, storing, logout and revocation fail, and
\* although the user may revoke the key at any moment.
THEOREM DeviceNoOrphan == Spec => []NoSilentOrphan
<1>1. Init => HandedOver
  BY DEF Init, HandedOver, NoSilentOrphan, At, NoCall
<1>2. HandedOver => NoSilentOrphan
  BY DEF HandedOver
<1>. QED BY <1>1, <1>2, HandedOverStep, RowInvInit, RowInvStep, PTL DEF Spec

-----------------------------------------------------------------------------
(* The authorization codes of the MCP server, for any number of codes,     *)
(* clients and requests                                                    *)

\* Every code was minted for a registered client.
LEMMA Registered ==
  /\ ClientOf \in [Codes -> Clients] /\ Osaurus \subseteq Clients
  /\ None \notin Clients \cup Codes
BY OAuthAssumed DEF OAuth!OAuthAssumption

LEMMA OAuthTypeOKStep ==
  OAuth!TypeOK /\ [OAuth!Next]_(OAuth!vars) => OAuth!TypeOK'
<1> SUFFICES ASSUME OAuth!TypeOK, [OAuth!Next]_(OAuth!vars) PROVE OAuth!TypeOK'
  OBVIOUS
<1> USE Registered DEF OAuth!TypeOK
<1>1. ASSUME NEW c \in Codes, OAuth!Mint(c) \/ OAuth!TenMinutesPass(c) \/ OAuth!SignOut(c)
      PROVE  OAuth!TypeOK'
  BY <1>1 DEF OAuth!Mint, OAuth!TenMinutesPass, OAuth!SignOut
<1>2. CASE OAuth!CleanUp
  BY <1>2 DEF OAuth!CleanUp
<1>3. ASSUME NEW r \in Exchanges, NEW c \in Codes, NEW client \in Clients,
             NEW proof \in BOOLEAN, OAuth!Load(r, c, client, proof)
      PROVE  OAuth!TypeOK'
  <2>1. at' \in [Exchanges -> {"idle", "loaded", "recorded", "answered", "listing",
                              "over"}]
    BY <1>3 DEF OAuth!Load, OAuth!Go
  <2>. QED BY <1>3, <2>1 DEF OAuth!Load
<1>4. ASSUME NEW r \in Exchanges, OAuth!RecordSession(r) PROVE OAuth!TypeOK'
  <2>1. /\ \E place \in {"recorded", "over"} : at' = [at EXCEPT ![r] = place]
        /\ UNCHANGED <<code, expired, alive, on, honest, closed>>
    BY <1>4 DEF OAuth!RecordSession, OAuth!Go
  <2>2. recorded' \in [Codes -> Clients \cup {None}]
    <3>1. CASE on[r] \in Codes
      BY <1>4, <3>1 DEF OAuth!RecordSession
    <3>2. CASE on[r] \notin Codes
      BY <1>4, <3>2 DEF OAuth!RecordSession
    <3>. QED BY <3>1, <3>2
  <2>. QED BY <2>1, <2>2
<1>5. ASSUME NEW r \in Exchanges, OAuth!Spend(r) \/ OAuth!Fail(r) PROVE OAuth!TypeOK'
  BY <1>5 DEF OAuth!Spend, OAuth!Fail, OAuth!Go
<1>6. ASSUME NEW r \in Exchanges, NEW c \in Codes, OAuth!AskTools(r, c) PROVE OAuth!TypeOK'
  BY <1>6 DEF OAuth!AskTools, OAuth!Go
<1>7. ASSUME NEW r \in Exchanges, OAuth!ListTools(r) \/ OAuth!ListToolsUnknown(r) PROVE OAuth!TypeOK'
  <2>1. on[r] \in alive => on[r] \in Codes
    OBVIOUS
  <2>. QED BY <1>7, <2>1 DEF OAuth!ListTools, OAuth!ListToolsUnknown, OAuth!Go
<1>8. CASE UNCHANGED OAuth!vars
  BY <1>8 DEF OAuth!vars
<1>. QED BY <1>1, <1>2, <1>3, <1>4, <1>5, <1>6, <1>7, <1>8 DEF OAuth!Next

\* A code that is spent stays spent, and a request that has its tokens showed
\* what the code asked for.
Exchanged ==
  /\ \A r \in Exchanges : at[r] # "idle" => on[r] \in Codes /\ code[on[r]] # "none"
  /\ \A r \in Exchanges : at[r] \in {"loaded", "recorded", "answered"} => r \in honest
  /\ \A r \in Exchanges : at[r] = "answered" => code[on[r]] \in {"used", "gone"}
  /\ TokensHandedOutOnce

\* The session's client is on record before anybody has its tokens.
OnRecord ==
  /\ \A r \in Exchanges : at[r] \in {"recorded", "answered", "listing"} /\ on[r] \in alive
                           => recorded[on[r]] = ClientOf[on[r]]
  /\ OsaurusAsksFirst

OAuthInv == OAuth!TypeOK /\ Exchanged /\ OnRecord

LEMMA OAuthExchangedStep ==
  ASSUME OAuthInv, [OAuth!Next]_(OAuth!vars)
  PROVE  Exchanged'
<1> USE Registered DEF Exchanged, TokensHandedOutOnce, OAuth!TokensHandedOutOnce
<1>t. OAuth!TypeOK /\ Exchanged
  BY DEF OAuthInv
<1> USE DEF OAuth!TypeOK
<1>1. ASSUME NEW c \in Codes, OAuth!Mint(c) \/ OAuth!TenMinutesPass(c) \/ OAuth!SignOut(c)
      PROVE  Exchanged'
  BY <1>1, <1>t DEF OAuth!Mint, OAuth!TenMinutesPass, OAuth!SignOut
<1>2. CASE OAuth!CleanUp
  BY <1>2, <1>t DEF OAuth!CleanUp
<1>3. ASSUME NEW r \in Exchanges, NEW c \in Codes, NEW client \in Clients,
             NEW proof \in BOOLEAN, OAuth!Load(r, c, client, proof)
      PROVE  Exchanged'
  <2>1. /\ on' = [on EXCEPT ![r] = c] /\ code[c] # "none" /\ UNCHANGED code
        /\ \/ at' = [at EXCEPT ![r] = "loaded"] /\ honest' = honest \cup {r}
           \/ at' = [at EXCEPT ![r] = "over"] /\ honest \subseteq honest'
        /\ at[r] = "idle"
    BY <1>3 DEF OAuth!Load, OAuth!Go
  <2>. QED BY <2>1, <1>t
<1>4. ASSUME NEW r \in Exchanges, OAuth!RecordSession(r) \/ OAuth!Fail(r) PROVE Exchanged'
  BY <1>4, <1>t DEF OAuth!RecordSession, OAuth!Fail, OAuth!Go
<1>5. ASSUME NEW r \in Exchanges, OAuth!Spend(r) PROVE Exchanged'
  <2>1. at[r] = "recorded" /\ on[r] \in Codes /\ r \in honest
    BY <1>5, <1>t DEF OAuth!Spend, OAuth!Go
  <2>2. CASE code[on[r]] = "live"
    <3>1. /\ at' = [at EXCEPT ![r] = "answered"]
          /\ code' = [code EXCEPT ![on[r]] = "used"] /\ UNCHANGED <<on, honest>>
      BY <1>5, <2>2 DEF OAuth!Spend, OAuth!Go
    <3>. QED BY <2>1, <2>2, <3>1, <1>t
  <2>3. CASE code[on[r]] # "live"
    <3>1. /\ at' = [at EXCEPT ![r] = "over"]
          /\ code' = code /\ UNCHANGED <<on, honest>>
      BY <1>5, <1>t, <2>3 DEF OAuth!Spend, OAuth!Go
    <3>. QED BY <2>1, <3>1, <1>t
  <2>. QED BY <2>2, <2>3
<1>6. ASSUME NEW r \in Exchanges, NEW c \in Codes, OAuth!AskTools(r, c) PROVE Exchanged'
  <2>1. code[c] # "none"
    BY <1>6, <1>t DEF OAuth!AskTools, OAuth!HasTokens
  <2>. QED BY <1>6, <1>t, <2>1 DEF OAuth!AskTools, OAuth!Go
<1>7. ASSUME NEW r \in Exchanges, OAuth!ListTools(r) \/ OAuth!ListToolsUnknown(r) PROVE Exchanged'
  BY <1>7, <1>t DEF OAuth!ListTools, OAuth!ListToolsUnknown, OAuth!Go
<1>8. CASE UNCHANGED OAuth!vars
  BY <1>8, <1>t DEF OAuth!vars
<1>. QED BY <1>1, <1>2, <1>3, <1>4, <1>5, <1>6, <1>7, <1>8 DEF OAuth!Next

LEMMA OAuthOnRecordStep ==
  ASSUME OAuthInv, [OAuth!Next]_(OAuth!vars)
  PROVE  OnRecord'
<1> USE Registered DEF OnRecord, OsaurusAsksFirst, OAuth!OsaurusAsksFirst
<1>t. OAuth!TypeOK /\ OnRecord
      /\ \A r \in Exchanges : at[r] # "idle" => on[r] \in Codes /\ code[on[r]] # "none"
  BY DEF OAuthInv, Exchanged
<1> USE DEF OAuth!TypeOK
<1>1. ASSUME NEW c \in Codes, OAuth!Mint(c) \/ OAuth!TenMinutesPass(c) \/ OAuth!SignOut(c)
      PROVE  OnRecord'
  BY <1>1, <1>t DEF OAuth!Mint, OAuth!TenMinutesPass, OAuth!SignOut
<1>2. CASE OAuth!CleanUp
  BY <1>2, <1>t DEF OAuth!CleanUp
<1>3. ASSUME NEW r \in Exchanges, NEW c \in Codes, NEW client \in Clients,
             NEW proof \in BOOLEAN, OAuth!Load(r, c, client, proof)
      PROVE  OnRecord'
  <2>1. /\ on' = [on EXCEPT ![r] = c] /\ UNCHANGED <<alive, recorded, closed>>
        /\ \E place \in {"loaded", "over"} : at' = [at EXCEPT ![r] = place]
    BY <1>3 DEF OAuth!Load, OAuth!Go
  <2>. QED BY <2>1, <1>t
<1>4. ASSUME NEW r \in Exchanges, OAuth!RecordSession(r) PROVE OnRecord'
  BY <1>4, <1>t DEF OAuth!RecordSession, OAuth!Go
<1>5. ASSUME NEW r \in Exchanges, OAuth!Spend(r) \/ OAuth!Fail(r) PROVE OnRecord'
  BY <1>5, <1>t DEF OAuth!Spend, OAuth!Fail, OAuth!Go
<1>6. ASSUME NEW r \in Exchanges, NEW c \in Codes, OAuth!AskTools(r, c) PROVE OnRecord'
  <2>1. recorded[c] = ClientOf[c]
    BY <1>6, <1>t DEF OAuth!AskTools, OAuth!HasTokens
  <2>. QED BY <1>6, <1>t, <2>1 DEF OAuth!AskTools, OAuth!Go
<1>7. ASSUME NEW r \in Exchanges, OAuth!ListTools(r) \/ OAuth!ListToolsUnknown(r) PROVE OnRecord'
  <2>1. /\ at[r] = "listing" /\ at' = [at EXCEPT ![r] = "over"]
        /\ UNCHANGED <<alive, recorded, on>>
    BY <1>7 DEF OAuth!ListTools, OAuth!ListToolsUnknown, OAuth!Go
  <2>2. \/ closed' = closed
        \/ /\ on[r] \in alive /\ recorded[on[r]] \notin Osaurus
           /\ closed' = closed \cup {on[r]}
    BY <1>7 DEF OAuth!ListTools, OAuth!ListToolsUnknown, OAuth!OpenWorld
  <2>. QED BY <2>1, <2>2, <1>t
<1>8. CASE UNCHANGED OAuth!vars
  BY <1>8, <1>t DEF OAuth!vars
<1>. QED BY <1>1, <1>2, <1>3, <1>4, <1>5, <1>6, <1>7, <1>8 DEF OAuth!Next

LEMMA OAuthInductive ==
  (OAuth!Init => OAuthInv) /\ (OAuthInv /\ [OAuth!Next]_(OAuth!vars) => OAuthInv')
<1>1. OAuth!Init => OAuthInv
  BY Registered
     DEF OAuth!Init, OAuthInv, OAuth!TypeOK, Exchanged, TokensHandedOutOnce, OnRecord,
         OsaurusAsksFirst, OAuth!TokensHandedOutOnce, OAuth!OsaurusAsksFirst
<1>2. OAuthInv /\ [OAuth!Next]_(OAuth!vars) => OAuthInv'
  BY OAuthTypeOKStep, OAuthExchangedStep, OAuthOnRecordStep DEF OAuthInv
<1>. QED BY <1>1, <1>2

\* The tokens of a session are handed out to one request, which showed the
\* client and the verifier, however many present the code.
THEOREM OAuthTokensOnce ==
  OAuth!Spec => []TokensHandedOutOnce
<1>1. OAuthInv => TokensHandedOutOnce
  BY DEF OAuthInv, Exchanged
<1>2. (OAuth!Init => OAuthInv) /\ (OAuthInv /\ [OAuth!Next]_(OAuth!vars) => OAuthInv')
  BY OAuthInductive
<1>. QED BY <1>1, <1>2, PTL DEF OAuth!Spec

\* A living session of Osaurus is listed open-world, whatever fails between
\* the record of its client and the answer.
THEOREM OAuthOsaurusAsks ==
  OAuth!Spec => []OsaurusAsksFirst
<1>1. OAuthInv => OsaurusAsksFirst
  BY DEF OAuthInv, OnRecord
<1>2. (OAuth!Init => OAuthInv) /\ (OAuthInv /\ [OAuth!Next]_(OAuth!vars) => OAuthInv')
  BY OAuthInductive
<1>. QED BY <1>1, <1>2, PTL DEF OAuth!Spec
=============================================================================
