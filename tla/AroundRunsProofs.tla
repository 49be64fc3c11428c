--------------------------- MODULE AroundRunsProofs ---------------------------
(***************************************************************************)
(* The credit pools, for every set of users, teams and callers: types, the *)
(* bounds of a balance, what the usage records account for, and that the   *)
(* invocations of one run charge and refund once.  The schedule of a       *)
(* scout, for every zone, cron and number of ticks and requests: a minute  *)
(* is dispatched once, and an active scout has its job.  The refunds of    *)
(* actor runs that failed, for any number of rows and deliveries.          *)
(***************************************************************************)
EXTENDS AroundRuns, TLAPS

\* What a step may do to the pools and to the usage records: everything but a
\* caller's way through its transaction.
LEMMA LeastOf ==
  ASSUME NEW a \in Int, NEW b \in Int
  PROVE  Least(a, b) \in Int /\ Least(a, b) <= a /\ Least(a, b) <= b
         /\ (Least(a, b) = a \/ Least(a, b) = b)
BY DEF Least

\* The guards of a charge and of a refund only let pools with a row through.
LEMMA TypeOKStep == LedgerAssumption /\ TypeOK /\ [Next]_vars => TypeOK'
<1> SUFFICES ASSUME LedgerAssumption, TypeOK, [Next]_vars PROVE TypeOK'
  OBVIOUS
<1> USE DEF TypeOK, Places, Begun, Charging, Refunding, LedgerAssumption, Pools
<1>1. ASSUME NEW c \in Callers, Transaction(c) PROVE TypeOK'
  <2>1. ASSUME Begin(c, "idle", "charge") \/ Begin(c, "failed", "refund")
        PROVE  TypeOK'
    BY <2>1 DEF Begin, GoTo, ledger
  <2>2. ASSUME LookUp(c, paid, "charge", "chargeOrg", "running")
               \/ LookUp(c, refunded, "refund", "refundOrg", "over")
        PROVE  TypeOK'
    BY <2>2 DEF LookUp, GoTo, ledger
  <2>3. ASSUME NEW p \in Accounts, Debit(c, p), GoTo(c, "running"),
               UNCHANGED <<cap, due, granted, renewals, activeOrg, vOrg, refunded>>
        PROVE  TypeOK'
    BY <2>3 DEF Debit, GoTo
  <2>4. ASSUME NEW p \in Accounts, Credit(c, p), GoTo(c, "over"),
               UNCHANGED <<cap, due, granted, renewals, activeOrg, vOrg, paid>>
        PROVE  TypeOK'
    <3>1. Least(balance[p] + Cost[c], cap[p]) \in Int
      BY LeastOf
    <3>. QED BY <2>4, <3>1 DEF Credit, GoTo
  <2>5. CASE ChargeOrg(c)
    BY <2>5, <2>3 DEF ChargeOrg, CanPay, GoTo
  <2>6. CASE ChargeUser(c)
    BY <2>6, <2>3 DEF ChargeUser, CanPay, GoTo
  <2>7. CASE RunEnds(c)
    BY <2>7 DEF RunEnds, GoTo, ledger
  <2>8. CASE RefundOrg(c)
    BY <2>8, <2>4 DEF RefundOrg, GoTo
  <2>9. CASE RefundUser(c)
    BY <2>9, <2>4 DEF RefundUser, GoTo
  <2>. QED BY <1>1, <2>1, <2>2, <2>5, <2>6, <2>7, <2>8, <2>9 DEF Transaction
<1>2. ASSUME NEW p \in Orgs \cap Accounts, NEW newCap \in Caps, TopUp(p, newCap)
      PROVE  TypeOK'
  <2> DEFINE raise == IF newCap > cap[p] THEN newCap - cap[p] ELSE 0
             new == Least(balance[p] + raise, newCap)
  <2>1. raise \in Int /\ newCap \in Int /\ balance[p] + raise \in Int
    OBVIOUS
  <2> HIDE DEF raise
  <2>2. new \in Int
    BY <2>1, LeastOf
  <2> HIDE DEF new
  <2>3. granted' \in [Accounts -> Int]
    BY <1>2, <2>2 DEF TopUp, new, raise
  <2>4. balance' \in [Accounts -> Int] /\ cap' \in [Accounts -> Nat]
    BY <1>2, <2>1, <2>2 DEF TopUp, new, raise
  <2>5. renewals' \in 0..MaxRenewals
    BY <1>2 DEF TopUp, Renews
  <2>. QED BY <1>2, <2>3, <2>4, <2>5 DEF TopUp
<1>3. CASE MonthPasses
  BY <1>3 DEF MonthPasses, Renews
<1>4. CASE ResetExpired
  BY <1>4 DEF ResetExpired
<1>5. ASSUME NEW u \in Users, NEW o \in Orgs \cup {None}, SwitchTeam(u, o)
      PROVE  TypeOK'
  BY <1>5 DEF SwitchTeam, ledger
<1>6. CASE UNCHANGED vars
  BY <1>6 DEF vars, ledger
<1>. QED BY <1>1, <1>2, <1>3, <1>4, <1>5, <1>6 DEF Next

\* A pool starts with what its cap allows.
LEMMA CapsStart ==
  ASSUME Init
  PROVE  /\ cap \in [Accounts -> Nat] /\ balance \in [Accounts -> Int]
         /\ balance = cap /\ granted = cap
<1>1. Caps \subseteq Nat
  BY LedgerAssumption DEF LedgerAssumption
<1>2. cap \in [Accounts -> Caps]
  BY DEF Init
<1>3. cap \in [Accounts -> Nat]
  BY <1>1, <1>2
<1>4. cap \in [Accounts -> Int]
  BY <1>3
<1>. QED BY <1>3, <1>4 DEF Init

LEMMA InitTypeOK == Init => TypeOK
<1>1. LedgerAssumption
  BY LedgerAssumption
<1> SUFFICES ASSUME Init PROVE TypeOK
  OBVIOUS
<1>2. balance \in [Accounts -> Int] /\ cap \in [Accounts -> Nat]
  BY CapsStart
<1>3. /\ used \in [Accounts -> Int] /\ granted \in [Accounts -> Int]
      /\ renewals \in 0..MaxRenewals /\ due \subseteq Accounts
  BY <1>1, <1>2 DEF Init, LedgerAssumption
<1>. QED BY <1>2, <1>3 DEF Init, TypeOK, Places, Begun

\* The ledger's variables keep their types.
THEOREM LedgerTypeOK == Spec => []TypeOK
<1>1. LedgerAssumption
  BY LedgerAssumption
<1>. QED BY <1>1, InitTypeOK, TypeOKStep, PTL DEF Spec

-----------------------------------------------------------------------------
(* Balances                                                                *)

\* Only a debit, a credit, a top-up or the daily reset writes a balance.
LEMMA BalanceChanges ==
  ASSUME [Next]_vars
  PROVE  \/ UNCHANGED <<balance, cap, used, granted>>
         \/ /\ UNCHANGED <<cap, granted>>
            /\ \E c \in Callers, p \in Accounts :
                 \/ balance[p] >= Cost[c] /\ Debit(c, p)
                 \/ Credit(c, p)
         \/ \E p \in Orgs \cap Accounts, newCap \in Caps : TopUp(p, newCap)
         \/ ResetExpired
<1> USE DEF ledger
<1>1. ASSUME NEW c \in Callers, Transaction(c)
      PROVE  \/ UNCHANGED <<balance, cap, used, granted>>
             \/ /\ UNCHANGED <<cap, granted>>
                /\ \E p \in Accounts :
                     \/ balance[p] >= Cost[c] /\ Debit(c, p)
                     \/ Credit(c, p)
  <2>1. CASE ChargeOrg(c)
    BY <2>1 DEF ChargeOrg, CanPay
  <2>2. CASE ChargeUser(c)
    BY <2>2 DEF ChargeUser, CanPay
  <2>3. CASE RefundOrg(c)
    BY <2>3 DEF RefundOrg
  <2>4. CASE RefundUser(c)
    BY <2>4 DEF RefundUser
  <2>. QED BY <1>1, <2>1, <2>2, <2>3, <2>4
           DEF Transaction, Begin, LookUp, RunEnds
<1>2. CASE \E u \in Users, o \in Orgs \cup {None} : SwitchTeam(u, o)
  BY <1>2 DEF SwitchTeam
<1>3. CASE MonthPasses
  BY <1>3 DEF MonthPasses
<1>4. CASE UNCHANGED vars
  BY <1>4 DEF vars
<1>. QED BY <1>1, <1>2, <1>3, <1>4 DEF Next

LEMMA SolventStep ==
  LedgerAssumption /\ TypeOK /\ Solvent /\ [Next]_vars => Solvent'
<1> SUFFICES ASSUME LedgerAssumption, TypeOK, Solvent, [Next]_vars,
                    NEW q \in Accounts
             PROVE  0 <= balance'[q] /\ balance'[q] <= cap'[q]
  BY DEF Solvent
<1> USE DEF LedgerAssumption, TypeOK, Solvent
<1>1. CASE UNCHANGED <<balance, cap, used, granted>>
  BY <1>1
<1>2. ASSUME NEW c \in Callers, NEW p \in Accounts, UNCHANGED <<cap, granted>>,
             balance[p] >= Cost[c], Debit(c, p)
      PROVE  0 <= balance'[q] /\ balance'[q] <= cap'[q]
  BY <1>2 DEF Debit
<1>3. ASSUME NEW c \in Callers, NEW p \in Accounts, UNCHANGED <<cap, granted>>,
             Credit(c, p)
      PROVE  0 <= balance'[q] /\ balance'[q] <= cap'[q]
  BY <1>3 DEF Credit, Least
<1>4. ASSUME NEW p \in Orgs \cap Accounts, NEW newCap \in Caps, TopUp(p, newCap)
      PROVE  0 <= balance'[q] /\ balance'[q] <= cap'[q]
  BY <1>4 DEF TopUp, Least
<1>5. CASE ResetExpired
  BY <1>5 DEF ResetExpired
<1>. QED BY <1>1, <1>2, <1>3, <1>4, <1>5, BalanceChanges

\* No pool is overdrawn or above its cap, for any number of callers: two runs
\* that charge the last credits, a refund and a change of the cap all decide
\* on the balance they change.
THEOREM LedgerSolvent == Spec => []Solvent
<1>1. LedgerAssumption
  BY LedgerAssumption
<1>2. Init => Solvent
  BY CapsStart DEF Solvent
<1>. QED BY <1>1, <1>2, SolventStep, LedgerTypeOK, PTL DEF Spec

LEMMA AuditTrailStep ==
  LedgerAssumption /\ TypeOK /\ AuditTrail /\ [Next]_vars => AuditTrail'
<1> SUFFICES ASSUME LedgerAssumption, TypeOK, AuditTrail, [Next]_vars,
                    NEW q \in Accounts
             PROVE  balance'[q] + used'[q] <= granted'[q]
  BY DEF AuditTrail
<1> USE DEF LedgerAssumption, TypeOK, AuditTrail
<1>1. CASE UNCHANGED <<balance, cap, used, granted>>
  BY <1>1
<1>2. ASSUME NEW c \in Callers, NEW p \in Accounts, UNCHANGED <<cap, granted>>,
             Debit(c, p)
      PROVE  balance'[q] + used'[q] <= granted'[q]
  BY <1>2 DEF Debit
<1>3. ASSUME NEW c \in Callers, NEW p \in Accounts, UNCHANGED <<cap, granted>>,
             Credit(c, p)
      PROVE  balance'[q] + used'[q] <= granted'[q]
  BY <1>3 DEF Credit, Least
<1>4. ASSUME NEW p \in Orgs \cap Accounts, NEW newCap \in Caps, TopUp(p, newCap)
      PROVE  balance'[q] + used'[q] <= granted'[q]
  BY <1>4 DEF TopUp, Least
<1>5. CASE ResetExpired
  BY <1>5 DEF ResetExpired
<1>. QED BY <1>1, <1>2, <1>3, <1>4, <1>5, BalanceChanges

\* The usage records explain every balance: no charge or refund is filed under
\* a pool other than the one it changed.
THEOREM LedgerAuditTrail == Spec => []AuditTrail
<1>1. LedgerAssumption
  BY LedgerAssumption
<1>2. Init => AuditTrail
  BY CapsStart DEF Init, AuditTrail
<1>. QED BY <1>1, <1>2, AuditTrailStep, LedgerTypeOK, PTL DEF Spec

-----------------------------------------------------------------------------
(* Idempotency keys                                                        *)

\* The locks: of the keyed callers of one user, one is in a transaction.
Excluded ==
  \A c, d \in Keyed :
    c # d /\ UserOf[c] = UserOf[d] /\ pc[c] \in Begun => pc[d] \notin Begun

\* Behind its look-up, a caller knows that its key is not recorded.
Fresh(usage, places) ==
  \A c, d \in Keyed :
    pc[c] \in places /\ Key[c] = Key[d] => usage[d] = None

KeyInv ==
  /\ TypeOK /\ Excluded /\ KeyedOnce
  /\ Fresh(paid, Charging) /\ Fresh(refunded, Refunding)

\* What a step does to a keyed caller.  It enters a transaction when it does
\* not have to wait, it passes the look-up when its key is not recorded, and
\* it writes a usage record behind the look-up, as it leaves.
CallerSteps(c) ==
  \/ pc' = pc /\ UNCHANGED <<paid, refunded>>
  \/ /\ pc' = [pc EXCEPT ![c] = "charge"] \/ pc' = [pc EXCEPT ![c] = "refund"]
     /\ c \in Keyed => ~Waits(c)
     /\ UNCHANGED <<paid, refunded>>
  \/ /\ pc[c] = "charge" /\ ~Recorded(c, paid)
     /\ pc' = [pc EXCEPT ![c] = "chargeOrg"] /\ UNCHANGED <<paid, refunded>>
  \/ /\ pc[c] = "refund" /\ ~Recorded(c, refunded)
     /\ pc' = [pc EXCEPT ![c] = "refundOrg"] /\ UNCHANGED <<paid, refunded>>
  \/ /\ pc[c] = "chargeOrg" /\ pc' = [pc EXCEPT ![c] = "chargeUser"]
     /\ UNCHANGED <<paid, refunded>>
  \/ /\ pc[c] = "refundOrg" /\ pc' = [pc EXCEPT ![c] = "refundUser"]
     /\ UNCHANGED <<paid, refunded>>
  \/ /\ \E place \in Places \ Begun : pc' = [pc EXCEPT ![c] = place]
     /\ \/ UNCHANGED <<paid, refunded>>
        \/ /\ pc[c] \in Charging /\ UNCHANGED refunded
           /\ \E p \in Accounts : paid' = [paid EXCEPT ![c] = p]
        \/ /\ pc[c] \in Refunding /\ UNCHANGED paid
           /\ \E p \in Accounts : refunded' = [refunded EXCEPT ![c] = p]

LEMMA EveryStepIsACallers ==
  ASSUME TypeOK, [Next]_vars
  PROVE  \/ UNCHANGED <<pc, paid, refunded>>
         \/ \E c \in Callers : CallerSteps(c)
<1> USE DEF CallerSteps, At, GoTo, Places, Begun, Charging, Refunding
<1>1. ASSUME NEW c \in Callers, Transaction(c) PROVE CallerSteps(c)
  <2>1. CASE Begin(c, "idle", "charge") \/ Begin(c, "failed", "refund")
    BY <2>1 DEF Begin
  <2>2. CASE LookUp(c, paid, "charge", "chargeOrg", "running")
    BY <2>2 DEF LookUp
  <2>3. CASE LookUp(c, refunded, "refund", "refundOrg", "over")
    BY <2>3 DEF LookUp
  <2>4. CASE ChargeOrg(c)
    BY <2>4 DEF ChargeOrg, CanPay, Debit
  <2>5. CASE ChargeUser(c)
    BY <2>5 DEF ChargeUser, CanPay, Debit
  <2>6. CASE RunEnds(c)
    BY <2>6 DEF RunEnds
  <2>7. CASE RefundOrg(c)
    BY <2>7 DEF RefundOrg, Credit
  <2>8. CASE RefundUser(c)
    BY <2>8 DEF RefundUser, Credit
  <2>. QED BY <1>1, <2>1, <2>2, <2>3, <2>4, <2>5, <2>6, <2>7, <2>8
           DEF Transaction
<1>2. CASE \E p \in Orgs \cap Accounts, newCap \in Caps : TopUp(p, newCap)
  BY <1>2 DEF TopUp
<1>3. CASE \E u \in Users, o \in Orgs \cup {None} : SwitchTeam(u, o)
  BY <1>3 DEF SwitchTeam
<1>4. CASE MonthPasses \/ ResetExpired
  BY <1>4 DEF MonthPasses, ResetExpired
<1>5. CASE UNCHANGED vars
  BY <1>5 DEF vars
<1>. QED BY <1>1, <1>2, <1>3, <1>4, <1>5 DEF Next

LEMMA KeyInvStep == LedgerAssumption /\ KeyInv /\ [Next]_vars => KeyInv'
<1> SUFFICES ASSUME LedgerAssumption, KeyInv, [Next]_vars PROVE KeyInv'
  OBVIOUS
<1>1. TypeOK'
  BY TypeOKStep DEF KeyInv
<1>2. CASE UNCHANGED <<pc, paid, refunded>>
  BY <1>1, <1>2 DEF KeyInv, Excluded, Fresh, KeyedOnce
<1>3. ASSUME NEW c \in Callers, CallerSteps(c)
      PROVE  Excluded' /\ KeyedOnce'
             /\ Fresh(paid, Charging)' /\ Fresh(refunded, Refunding)'
  <2> USE DEF LedgerAssumption
  <2>0. pc \in [Callers -> Places] /\ paid \in [Callers -> Accounts \cup {None}]
        /\ refunded \in [Callers -> Accounts \cup {None}] /\ Keyed \subseteq Callers
    BY DEF KeyInv, TypeOK
  <2>1. Excluded'
    BY <1>3, <2>0 DEF KeyInv, Excluded, CallerSteps, Waits, Begun, Charging,
                      Refunding
  <2>2. Fresh(paid, Charging)'
    BY <1>3, <2>0 DEF KeyInv, Excluded, Fresh, CallerSteps, Recorded, Begun,
                      Charging, Refunding
  <2>3. Fresh(refunded, Refunding)'
    BY <1>3, <2>0 DEF KeyInv, Excluded, Fresh, CallerSteps, Recorded, Begun,
                      Charging, Refunding
  <2>4. KeyedOnce'
    BY <1>3, <2>0 DEF KeyInv, KeyedOnce, Fresh, CallerSteps
  <2>. QED BY <2>1, <2>2, <2>3, <2>4
<1>. QED BY <1>1, <1>2, <1>3, EveryStepIsACallers DEF KeyInv

\* Invocations of one run that share an idempotency key charge once and refund
\* once between them, however many there are.
THEOREM LedgerKeyedOnce == Spec => []KeyedOnce
<1>1. LedgerAssumption
  BY LedgerAssumption
<1>2. Init => Excluded /\ KeyedOnce /\ Fresh(paid, Charging)
              /\ Fresh(refunded, Refunding)
  BY <1>1 DEF Init, Excluded, KeyedOnce, Fresh, Begun, Charging, Refunding,
              LedgerAssumption
<1>3. Init => TypeOK
  BY InitTypeOK
<1>4. KeyInv => KeyedOnce
  BY DEF KeyInv
<1>5. Init => KeyInv
  BY <1>2, <1>3 DEF KeyInv
<1>. QED BY <1>1, <1>4, <1>5, KeyInvStep, PTL DEF Spec

-----------------------------------------------------------------------------
(* Schedules: what the ticks dispatch                                      *)

\* A wall-clock minute that was dispatched was so at the occurrence that it
\* resolves to, which the mark has reached.
Slots ==
  \A w \in Schedule!Walls :
    /\ dispatched[w] <= 1
    /\ dispatched[w] # 0 =>
         \E t \in Schedule!Minutes : t <= mark /\ Schedule!Resolved(w) = t

SlotInv == Schedule!TypeOK /\ Slots

LEMMA ScheduleFacts ==
  /\ End \in Nat /\ MaxRequests \in Nat /\ Overlap \in BOOLEAN
  /\ \A t \in Schedule!Minutes : /\ t \in Int /\ t # Schedule!Idle /\ Offset[t] \in Int
                                 /\ Schedule!Local(t) \in Schedule!Walls
  /\ Schedule!NoRequest.at = "none"
BY ScheduleAssumed DEF Schedule!ScheduleAssumption, Schedule!Minutes, Schedule!Idle,
   Schedule!Local, Schedule!Walls, Schedule!NoRequest

\* A request that somebody makes, as a step leaves it.
RequestRecords ==
  [at: {"read", "job", "undo"}, edit: BOOLEAN, names: SUBSET Schedule!Columns,
   toActive: BOOLEAN, toCron: Schedules, wasActive: BOOLEAN, wasCron: Schedules]

\* The requests of a user and the ticks of the job.
AskSomehow(q) ==
  \E edit, a \in BOOLEAN, names \in SUBSET Schedule!Columns, c \in Schedules :
    Schedule!Ask(q, edit, names, a, c)

OfRequest(q) ==
  \/ AskSomehow(q) \/ Schedule!WriteRow(q) \/ Schedule!LeaveJob(q)
  \/ Schedule!Schedule(q) \/ Schedule!Unschedule(q) \/ Schedule!JobCallFails(q)
  \/ Schedule!JobAnswerLost(q) \/ Schedule!Undo(q) \/ Schedule!BreakOff(q)

OfTicks ==
  \/ Schedule!MinutePasses
  \/ \E k \in Ticks :
       Schedule!TickStarts(k) \/ Schedule!TickClaims(k) \/ Schedule!TickDies(k)

LEMMA ScheduleSteps ==
  ASSUME [Schedule!Next]_(Schedule!vars)
  PROVE  \/ OfTicks \/ Schedule!AutoPause \/ UNCHANGED Schedule!vars
         \/ \E q \in Requests : OfRequest(q)
BY DEF Schedule!Next, OfTicks, OfRequest, AskSomehow

\* What a step of a request does to it: it is asked, goes on, or ends.
LEMMA RequestMoves ==
  ASSUME Schedule!TypeOK, NEW q \in Requests, OfRequest(q)
  PROVE  /\ UNCHANGED Schedule!times
         /\ \/ request' = [request EXCEPT ![q] = Schedule!NoRequest]
            \/ \E r \in RequestRecords : request' = [request EXCEPT ![q] = r]
         /\ made' \in 0..MaxRequests /\ job' \in BOOLEAN
         /\ active' \in BOOLEAN /\ cron' \in Schedules /\ owed' \in BOOLEAN
<1> USE ScheduleFacts
<1>t. /\ request \in [Requests -> {Schedule!NoRequest} \cup RequestRecords]
      /\ made \in 0..MaxRequests /\ job \in BOOLEAN /\ owed \in BOOLEAN
      /\ active \in BOOLEAN /\ cron \in Schedules
  BY DEF Schedule!TypeOK, RequestRecords
<1>1. CASE AskSomehow(q)
  <2>1. PICK edit \in BOOLEAN, a \in BOOLEAN, names \in SUBSET Schedule!Columns,
             c \in Schedules : Schedule!Ask(q, edit, names, a, c)
    BY <1>1 DEF AskSomehow
  <2> DEFINE r == [at |-> "read", edit |-> edit, names |-> names,
                   toActive |-> a, toCron |-> c,
                   wasActive |-> active, wasCron |-> cron]
  <2>2. r \in RequestRecords
    BY <1>t DEF RequestRecords
  <2>3. /\ request' = [request EXCEPT ![q] = r]
        /\ UNCHANGED <<Schedule!times, active, cron, job, owed>>
        /\ made' \in 0..MaxRequests
    BY <1>t, <2>1 DEF Schedule!Ask
  <2>. QED BY <1>t, <2>2, <2>3
<1>2. ASSUME request[q].at # "none" PROVE request[q] \in RequestRecords
  BY <1>t, <1>2
<1>3. ASSUME request[q].at # "none", NEW place \in {"job", "undo"}, Schedule!Moves(q, place)
      PROVE  \E r \in RequestRecords : request' = [request EXCEPT ![q] = r]
  <2>1. [request[q] EXCEPT !.at = place] \in RequestRecords
    BY <1>2, <1>3 DEF RequestRecords
  <2>2. request' = [request EXCEPT ![q] = [request[q] EXCEPT !.at = place]]
    BY <1>3, <1>t DEF Schedule!Moves
  <2>. QED BY <2>1, <2>2
<1>4. CASE Schedule!WriteRow(q)
  <2>1. request[q] \in RequestRecords /\ request[q].at # "none"
    BY <1>2, <1>4 DEF Schedule!WriteRow
  <2>. QED BY <1>t, <1>3, <1>4, <2>1
       DEF Schedule!WriteRow, Schedule!Writes, RequestRecords
<1>5. CASE Schedule!Schedule(q)
  <2>1. request[q].at # "none"
    BY <1>5 DEF Schedule!Schedule
  <2>. QED BY <1>t, <1>3, <1>5, <2>1 DEF Schedule!Schedule, Schedule!Ends
<1>6. CASE Schedule!Unschedule(q)
  BY <1>t, <1>6 DEF Schedule!Unschedule, Schedule!Ends
<1>7. CASE Schedule!JobCallFails(q)
  <2>1. request[q].at # "none"
    BY <1>7 DEF Schedule!JobCallFails
  <2>. QED BY <1>t, <1>3, <1>7, <2>1 DEF Schedule!JobCallFails
<1>8. CASE Schedule!Undo(q)
  <2>1. request[q] \in RequestRecords
    BY <1>2, <1>8 DEF Schedule!Undo
  <2>. QED BY <1>t, <1>8, <2>1
       DEF Schedule!Undo, Schedule!Writes, Schedule!Ends, RequestRecords
<1>9. CASE Schedule!LeaveJob(q) \/ Schedule!BreakOff(q)
  BY <1>t, <1>9 DEF Schedule!LeaveJob, Schedule!BreakOff, Schedule!Ends
<1>10. CASE Schedule!JobAnswerLost(q)
  <2>1. request[q].at # "none"
    BY <1>10 DEF Schedule!JobAnswerLost
  <2>. QED BY <1>t, <1>3, <1>10, <2>1 DEF Schedule!JobAnswerLost
<1>. QED BY <1>1, <1>4, <1>5, <1>6, <1>7, <1>8, <1>9, <1>10 DEF OfRequest

LEMMA ScheduleTypeOKStep ==
  Schedule!TypeOK /\ [Schedule!Next]_(Schedule!vars) => Schedule!TypeOK'
<1> SUFFICES ASSUME Schedule!TypeOK, [Schedule!Next]_(Schedule!vars)
             PROVE  Schedule!TypeOK'
  OBVIOUS
<1> USE ScheduleFacts
<1>1. ASSUME NEW q \in Requests, OfRequest(q) PROVE Schedule!TypeOK'
  BY <1>1, RequestMoves DEF Schedule!TypeOK, Schedule!times, RequestRecords
<1>2. CASE Schedule!MinutePasses
  BY <1>2 DEF Schedule!MinutePasses, Schedule!TypeOK, Schedule!Minutes
<1>3. ASSUME NEW k \in Ticks, Schedule!TickStarts(k) \/ Schedule!TickDies(k)
      PROVE  Schedule!TypeOK'
  BY <1>3 DEF Schedule!TickStarts, Schedule!TickDies, Schedule!TypeOK
<1>4. ASSUME NEW k \in Ticks, Schedule!TickClaims(k) PROVE Schedule!TypeOK'
  <2>1. tick[k] \in Schedule!Minutes /\ dispatched \in [Schedule!Walls -> Nat]
    BY <1>4 DEF Schedule!TickClaims, Schedule!TypeOK
  <2>2. dispatched' \in [Schedule!Walls -> Nat]
    BY <1>4, <2>1 DEF Schedule!TickClaims
  <2>. QED BY <1>4, <2>1, <2>2 DEF Schedule!TickClaims, Schedule!TypeOK
<1>5. CASE Schedule!AutoPause
  BY <1>5 DEF Schedule!AutoPause, Schedule!times, Schedule!TypeOK
<1>6. CASE UNCHANGED Schedule!vars
  BY <1>6 DEF Schedule!vars, Schedule!times, Schedule!TypeOK
<1>. QED BY <1>1, <1>2, <1>3, <1>4, <1>5, <1>6, ScheduleSteps DEF OfTicks

LEMMA ScheduleTypeOKInit == Schedule!Init => Schedule!TypeOK
<1> USE ScheduleFacts DEF Schedule!Init
<1>1. Schedule!Init => active \in BOOLEAN /\ job \in BOOLEAN /\ owed \in BOOLEAN
  OBVIOUS
<1>2. Schedule!Init => /\ clock \in Schedule!Minutes
                       /\ mark \in Schedule!Minutes \cup {Schedule!Idle}
                       /\ made \in 0..MaxRequests
  BY DEF Schedule!Minutes
<1>. QED BY <1>1, <1>2 DEF Schedule!TypeOK

LEMMA SlotsStep ==
  ASSUME SlotInv, [Schedule!Next]_(Schedule!vars)
  PROVE  Slots'
<1> USE ScheduleFacts
<1>t. Slots /\ dispatched \in [Schedule!Walls -> Nat]
      /\ mark \in Schedule!Minutes \cup {Schedule!Idle}
      /\ tick \in [Ticks -> Schedule!Minutes \cup {Schedule!Idle}]
  BY DEF SlotInv, Schedule!TypeOK
<1>1. ASSUME UNCHANGED <<mark, dispatched>> PROVE Slots'
  BY <1>1, <1>t DEF Slots
<1>2. ASSUME NEW k \in Ticks, Schedule!TickClaims(k) PROVE Slots'
  <2>1. CASE active /\ mark < tick[k] /\ Schedule!Due(tick[k])
    <3>1. PICK t \in Schedule!Minutes : t = tick[k]
      BY <1>2, <1>t DEF Schedule!TickClaims
    <3>2. PICK v \in Schedule!Walls : v = Schedule!Local(t)
      OBVIOUS
    <3>3. /\ mark < t /\ mark' = t /\ Schedule!Resolved(v) = t
          /\ dispatched' = [dispatched EXCEPT ![v] = @ + 1]
      BY <1>2, <2>1, <3>1, <3>2 DEF Schedule!TickClaims, Schedule!Due
    <3>4. mark \in Int
      BY <1>t DEF Schedule!Idle
    <3>5. dispatched[v] = 0
      BY <1>t, <3>3, <3>4 DEF Slots
    <3>6. ASSUME NEW w \in Schedule!Walls
          PROVE  /\ dispatched'[w] <= 1
                 /\ dispatched'[w] # 0 =>
                      \E u \in Schedule!Minutes : u <= t /\ Schedule!Resolved(w) = u
      <4>1. CASE w = v
        BY <1>t, <3>3, <3>5, <4>1
      <4>2. CASE w # v
        <5>1. dispatched'[w] = dispatched[w]
          BY <1>t, <3>3, <4>2
        <5>2. ASSUME NEW u \in Schedule!Minutes, u <= mark PROVE u <= t
          BY <3>3, <3>4, <5>2
        <5>. QED BY <1>t, <5>1, <5>2 DEF Slots
      <4>. QED BY <4>1, <4>2
    <3>. QED BY <3>3, <3>6 DEF Slots
  <2>2. CASE ~(active /\ mark < tick[k] /\ Schedule!Due(tick[k]))
    BY <1>1, <1>2, <2>2 DEF Schedule!TickClaims
  <2>. QED BY <2>1, <2>2
<1>3. ASSUME NEW q \in Requests, OfRequest(q) PROVE UNCHANGED <<mark, dispatched>>
  BY <1>3, RequestMoves DEF SlotInv, Schedule!times
<1>4. ASSUME NEW k \in Ticks, Schedule!TickStarts(k) \/ Schedule!TickDies(k)
      PROVE  UNCHANGED <<mark, dispatched>>
  BY <1>4 DEF Schedule!TickStarts, Schedule!TickDies
<1>5. Schedule!MinutePasses \/ Schedule!AutoPause \/ UNCHANGED Schedule!vars
      => UNCHANGED <<mark, dispatched>>
  BY DEF Schedule!MinutePasses, Schedule!AutoPause, Schedule!vars, Schedule!times
<1>. QED BY <1>1, <1>2, <1>3, <1>4, <1>5, ScheduleSteps DEF OfTicks

\* A wall-clock minute dispatches a scout at most once, for every zone,
\* schedule and number of concurrent ticks: a second tick of the minute finds
\* the mark moved, and the other occurrence of a repeated minute is not due.
THEOREM ScheduleOncePerSlot == Schedule!Spec => []OncePerSlot
<1>1. Schedule!Init => SlotInv
  BY ScheduleTypeOKInit DEF Schedule!Init, SlotInv, Slots
<1>2. SlotInv /\ [Schedule!Next]_(Schedule!vars) => SlotInv'
  BY SlotsStep, ScheduleTypeOKStep DEF SlotInv
<1>3. SlotInv => OncePerSlot
  BY DEF SlotInv, Slots, OncePerSlot, Schedule!OncePerSlot
<1>. QED BY <1>1, <1>2, <1>3, PTL DEF Schedule!Spec

-----------------------------------------------------------------------------
(* Schedules: the job of an active scout                                   *)

\* What holds of a request in progress: what it read had its job or the job was
\* owed, and an active row is what it read before it writes, and what it wrote
\* after.
Sound(r) ==
  /\ r.wasActive => job \/ owed
  /\ r.at = "read" /\ active => r.wasActive
  /\ r.at \in {"job", "undo"} /\ active => r.toActive
  /\ "is_active" \notin r.names => r.toActive = r.wasActive

JobInv ==
  /\ Schedule!TypeOK
  /\ \A p, q \in Requests :
       request[p] # Schedule!NoRequest /\ request[q] # Schedule!NoRequest => p = q
  /\ \A q \in Requests : request[q] # Schedule!NoRequest => Sound(request[q])
  /\ ActiveHasJob

\* While a request is in progress nobody else makes one or has one.
LEMMA JobOthers ==
  ASSUME JobInv, ~Overlap, NEW q \in Requests, OfRequest(q)
  PROVE  /\ \A p \in Requests \ {q} : request[p] = Schedule!NoRequest
         /\ request' \in [Requests -> {Schedule!NoRequest} \cup RequestRecords]
         /\ \A p \in Requests \ {q} : request'[p] = Schedule!NoRequest
<1> USE ScheduleFacts
<1>t. request \in [Requests -> {Schedule!NoRequest} \cup RequestRecords]
  BY DEF JobInv, Schedule!TypeOK, RequestRecords
<1>1. \A p \in Requests \ {q} : request[p] = Schedule!NoRequest
  <2>1. CASE AskSomehow(q)
    BY <2>1 DEF AskSomehow, Schedule!Ask
  <2>2. CASE request[q] # Schedule!NoRequest
    BY <2>2 DEF JobInv
  <2>3. CASE request[q] = Schedule!NoRequest /\ ~AskSomehow(q)
    BY <2>3 DEF OfRequest, Schedule!WriteRow, Schedule!Schedule, Schedule!Unschedule,
                Schedule!JobCallFails, Schedule!Undo, Schedule!LeaveJob,
                Schedule!JobAnswerLost, Schedule!BreakOff
  <2>. QED BY <2>1, <2>2, <2>3
<1>2. \/ request' = [request EXCEPT ![q] = Schedule!NoRequest]
      \/ \E r \in RequestRecords : request' = [request EXCEPT ![q] = r]
  BY RequestMoves DEF JobInv
<1>. QED BY <1>t, <1>1, <1>2

\* A request ends with a row that is active only with its job or the job owed,
\* or goes on soundly.
LEMMA RequestSound ==
  ASSUME JobInv, ~Overlap, NEW q \in Requests, OfRequest(q)
  PROVE  IF request'[q] = Schedule!NoRequest THEN active' => job' \/ owed'
                                             ELSE Sound(request[q])'
<1> USE ScheduleFacts DEF Sound
<1> DEFINE r == request[q]
<1>t. /\ request \in [Requests -> {Schedule!NoRequest} \cup RequestRecords]
      /\ job \in BOOLEAN /\ active \in BOOLEAN /\ owed \in BOOLEAN
      /\ r # Schedule!NoRequest => r \in RequestRecords /\ Sound(r)
  BY DEF JobInv, Schedule!TypeOK, RequestRecords
<1>n. \A x \in RequestRecords : x # Schedule!NoRequest
  BY DEF RequestRecords
<1>1. CASE AskSomehow(q)
  <2>1. PICK edit \in BOOLEAN, a \in BOOLEAN, names \in SUBSET Schedule!Columns,
             c \in Schedules : Schedule!Ask(q, edit, names, a, c)
    BY <1>1 DEF AskSomehow
  <2>2. r = Schedule!NoRequest
    BY <2>1 DEF Schedule!Ask
  <2>3. active => job \/ owed
    <3>1. \A p \in Requests : request[p] = Schedule!NoRequest
      BY <1>1, <2>2, JobOthers DEF OfRequest
    <3>. QED BY <3>1 DEF JobInv, ActiveHasJob, Schedule!ActiveHasJob
  <2>4. request'[q] = [at |-> "read", edit |-> edit, names |-> names,
                       toActive |-> a, toCron |-> c,
                       wasActive |-> active, wasCron |-> cron]
    BY <1>t, <2>1 DEF Schedule!Ask
  <2>5. active' = active /\ job' = job /\ owed' = owed
        /\ ("is_active" \notin names => a = active)
    BY <2>1 DEF Schedule!Ask
  <2>. QED BY <1>t, <2>3, <2>4, <2>5
<1>2. CASE Schedule!WriteRow(q)
  <2>1. /\ r.at = "read" /\ r \in RequestRecords /\ Sound(r)
        /\ job' = job /\ owed' = owed /\ request'[q] = [r EXCEPT !.at = "job"]
    BY <1>2, <1>t DEF Schedule!WriteRow, Schedule!Moves
  <2>2. active' = (IF "is_active" \in r.names THEN r.toActive ELSE active)
    BY <1>2 DEF Schedule!WriteRow, Schedule!Writes
  <2>3. active' => r.toActive
    BY <1>t, <2>1, <2>2 DEF RequestRecords
  <2>. QED BY <2>1, <2>3 DEF RequestRecords
<1>3. CASE Schedule!Schedule(q)
  <2>1. r.at = "job" /\ r \in RequestRecords /\ Sound(r) /\ active' = active
    BY <1>3, <1>t DEF Schedule!Schedule
  <2>2. \/ job' = TRUE /\ request'[q] = Schedule!NoRequest
        \/ job' = job /\ owed' = owed /\ request'[q] = [r EXCEPT !.at = "undo"]
    BY <1>3, <1>t DEF Schedule!Schedule, Schedule!Ends, Schedule!Moves
  <2>. QED BY <2>1, <2>2 DEF RequestRecords
<1>4. CASE Schedule!Unschedule(q)
  <2>1. /\ r.at = "job" /\ r \in RequestRecords /\ Sound(r) /\ active' = active
        /\ request'[q] = Schedule!NoRequest /\ Schedule!JobAction(r) = "unschedule"
    BY <1>4, <1>t DEF Schedule!Unschedule, Schedule!Ends
  <2>2. ~r.toActive
    BY <2>1 DEF Schedule!JobAction
  <2>. QED BY <2>1, <2>2
<1>5. CASE Schedule!LeaveJob(q)
  <2>1. /\ r.at = "job" /\ r \in RequestRecords /\ Sound(r)
        /\ active' = active /\ job' = job /\ owed' = owed
        /\ request'[q] = Schedule!NoRequest /\ Schedule!JobAction(r) = "none"
    BY <1>5, <1>t DEF Schedule!LeaveJob, Schedule!Ends
  <2>2. r.toActive = r.wasActive
    BY <2>1 DEF Schedule!JobAction
  <2>. QED BY <2>1, <2>2
<1>6. CASE Schedule!JobCallFails(q)
  <2>1. /\ r.at = "job" /\ r \in RequestRecords /\ Sound(r) /\ active' = active
        /\ job' = job /\ owed' = owed /\ request'[q] = [r EXCEPT !.at = "undo"]
    BY <1>6, <1>t DEF Schedule!JobCallFails, Schedule!Moves
  <2>. QED BY <2>1 DEF RequestRecords
<1>7. CASE Schedule!JobAnswerLost(q)
  <2>1. /\ r.at = "job" /\ r \in RequestRecords /\ Sound(r) /\ active' = active
        /\ (job' \/ owed') /\ request'[q] = [r EXCEPT !.at = "undo"]
    BY <1>7, <1>t DEF Schedule!JobAnswerLost, Schedule!Moves
  <2>. QED BY <2>1 DEF RequestRecords
<1>8. CASE Schedule!Undo(q)
  <2>1. /\ r.at = "undo" /\ r \in RequestRecords /\ Sound(r)
        /\ request'[q] = Schedule!NoRequest /\ job' = job /\ owed' = owed
    BY <1>8, <1>t DEF Schedule!Undo, Schedule!Ends
  <2>2. active' = (IF "is_active" \in r.names THEN r.wasActive ELSE active)
    BY <1>8 DEF Schedule!Undo, Schedule!Writes
  <2>. QED BY <2>1, <2>2
\* Before its write the row is what was read; after it an active row had its
\* job already, or was to be scheduled and the job is owed.
<1>9. CASE Schedule!BreakOff(q)
  <2>1. /\ r \in RequestRecords /\ Sound(r) /\ active' = active /\ job' = job
        /\ owed' = (owed \/ (/\ r.at # "read" /\ ~r.wasActive
                            /\ Schedule!JobAction(r) = "schedule"))
        /\ request'[q] = Schedule!NoRequest
    BY <1>9, <1>t DEF Schedule!BreakOff, Schedule!Ends
  <2>2. CASE r.wasActive
    BY <2>1, <2>2
  <2>3. CASE ~r.wasActive /\ r.at = "read"
    BY <2>1, <2>3
  <2>4. CASE ~r.wasActive /\ r.at # "read"
    <3>1. active => r.toActive
      BY <2>1, <2>4 DEF RequestRecords
    <3>2. r.toActive => Schedule!JobAction(r) = "schedule"
      BY <2>4 DEF Schedule!JobAction
    <3>. QED BY <2>1, <2>4, <3>1, <3>2
  <2>. QED BY <2>2, <2>3, <2>4
<1>. QED BY <1>1, <1>2, <1>3, <1>4, <1>5, <1>6, <1>7, <1>8, <1>9 DEF OfRequest

LEMMA JobInvStep ==
  ASSUME ~Overlap, JobInv, [Schedule!Next]_(Schedule!vars)
  PROVE  JobInv'
<1> USE DEF JobInv, ActiveHasJob, Schedule!ActiveHasJob
<1>t. Schedule!TypeOK'
  BY ScheduleTypeOKStep
<1>1. ASSUME UNCHANGED <<request, job, owed>>, active' => active PROVE JobInv'
  BY <1>t, <1>1 DEF Sound
<1>2. ASSUME NEW q \in Requests, OfRequest(q) PROVE JobInv'
  <2>1. \A p \in Requests \ {q} : request'[p] = Schedule!NoRequest
    BY <1>2, JobOthers
  <2>2. IF request'[q] = Schedule!NoRequest THEN active' => job' \/ owed'
                                            ELSE Sound(request[q])'
    BY <1>2, RequestSound
  <2>3. \A p \in Requests : request'[p] # Schedule!NoRequest => Sound(request[p])'
    BY <2>1, <2>2
  <2>. QED BY <1>t, <2>1, <2>2, <2>3
<1>3. CASE Schedule!AutoPause
  BY <1>1, <1>3 DEF Schedule!AutoPause
<1>4. CASE OfTicks \/ UNCHANGED Schedule!vars
  <2>1. UNCHANGED <<request, job, active, owed>>
    BY <1>4 DEF OfTicks, Schedule!MinutePasses, Schedule!TickStarts, Schedule!TickClaims,
                Schedule!TickDies, Schedule!vars
  <2>. QED BY <1>1, <2>1
<1>. QED BY <1>2, <1>3, <1>4, ScheduleSteps

\* When requests do not overlap, an active scout has its job between them,
\* however a pause, a resume or an edit fails half-way and is taken back, and
\* although a failing run may pause the scout at any moment; unless the last
\* call for the job did not make up for an activation that broke off behind its
\* write, or for an unschedule that committed unanswered and was taken back.
THEOREM ScheduleActiveHasJob ==
  ASSUME ~Overlap
  PROVE  Schedule!Spec => []ActiveHasJob
<1>1. Schedule!Init => JobInv
  BY ScheduleTypeOKInit
     DEF Schedule!Init, JobInv, ActiveHasJob, Schedule!ActiveHasJob
<1>2. JobInv /\ [Schedule!Next]_(Schedule!vars) => JobInv'
  BY JobInvStep
<1>3. JobInv => ActiveHasJob
  BY DEF JobInv
<1>. QED BY <1>1, <1>2, <1>3, PTL DEF Schedule!Spec

-----------------------------------------------------------------------------
(* Social scouts: refunds by failed events                                 *)

\* A row that has its actor run is out of the kickoff's hands, and deliveries
\* are about such rows only.
Linked ==
  /\ \A k \in linked : kick[k] = "over"
  /\ \A d \in Deliveries : of[d] # None => of[d] \in linked
  /\ \A d \in Deliveries : at[d] # "idle" => of[d] # None

\* One delivery at most has claimed a row and not refunded it, and the row
\* stays claimed.
Claimed ==
  /\ \A d, e \in Deliveries :
       at[d] = "event refund" /\ at[e] = "event refund" /\ of[d] = of[e] => d = e
  /\ \A d \in Deliveries : at[d] = "event refund" =>
       row[of[d]] \notin Social!Open /\ eventRefunds[of[d]] = 0
  /\ \A k \in Rows : eventRefunds[k] # 0 => k \in linked /\ row[k] \notin Social!Open
  /\ FailedEventRefundsOnce

SocialInv == Social!TypeOK /\ Linked /\ Claimed

\* The kickoff of a row, a delivery, and whoever else settles rows.
OfKickoff(k) ==
  \/ Social!Charge(k) \/ Social!Insert(k) \/ Social!StartActor(k) \/ Social!Link(k)
  \/ Social!MarkQueueFailed(k) \/ Social!RefundKickoff(k) \/ Social!KickoffDies(k)

OfDelivery(d) ==
  \/ Social!ClaimFailed(d) \/ Social!Process(d) \/ Social!MarkRunSuccess(d)
  \/ Social!Catch(d) \/ Social!RefundDelivery(d) \/ Social!DeliveryDies(d)

OfOthers ==
  \/ \E k \in Rows : Social!Sweep(k) \/ Social!HoursPass(k) \/ Social!ActorEnds(k)
  \/ Social!MarkTerminal \/ Social!RefundTerminal \/ Social!SweepEnds
  \/ Social!MarkTimeouts

LEMMA SocialSteps ==
  ASSUME [Social!Next]_(Social!vars)
  PROVE  \/ \E k \in Rows : OfKickoff(k)
         \/ \E d \in Deliveries : of[d] # None /\ OfDelivery(d)
         \/ \E d \in Deliveries, k \in Rows : Social!WebhookArrives(d, k)
         \/ Social!Poll \/ OfOthers \/ UNCHANGED Social!vars
BY DEF Social!Next, OfKickoff, OfDelivery, OfOthers

LEMMA ReceiveTyped ==
  ASSUME Social!TypeOK, NEW d \in Deliveries, NEW k \in Rows, Social!Receive(d, k)
  PROVE  /\ at' \in [Deliveries -> {"idle", "claim", "process", "success", "catch",
                                    "event refund", "refund", "over"}]
         /\ of' \in [Deliveries -> Rows \cup {None}]
BY DEF Social!TypeOK, Social!Receive, Social!Go

LEMMA RefundTyped ==
  ASSUME Social!TypeOK, NEW k \in Rows, Social!Refund(k)
  PROVE  refunds' \in [Rows -> Nat]
<1>1. refunds \in [Rows -> Nat]
  BY DEF Social!TypeOK
<1>. QED BY <1>1 DEF Social!Refund

LEMMA DeliveryRefundTyped ==
  ASSUME Social!TypeOK, NEW d \in Deliveries, of[d] # None, Social!RefundDelivery(d)
  PROVE  refunds' \in [Rows -> Nat] /\ eventRefunds' \in [Rows -> Nat]
<1>1. PICK k \in Rows : k = of[d]
  BY DEF Social!TypeOK
<1>2. refunds' \in [Rows -> Nat]
  BY <1>1, RefundTyped DEF Social!RefundDelivery
<1>3. \/ eventRefunds' = eventRefunds
      \/ eventRefunds' = [eventRefunds EXCEPT ![k] = @ + 1]
  BY <1>1 DEF Social!RefundDelivery
<1>4. eventRefunds \in [Rows -> Nat]
  BY DEF Social!TypeOK
<1>5. eventRefunds' \in [Rows -> Nat]
  BY <1>3, <1>4
<1>. QED BY <1>2, <1>5

\* Hours are counted up to the failsafe's six.
LEMMA AgeTyped ==
  ASSUME Social!TypeOK, NEW k \in Rows, Social!HoursPass(k)
  PROVE  age' \in [Rows -> 0..3]
<1>1. age \in [Rows -> 0..3]
  BY DEF Social!TypeOK
<1>. QED BY <1>1 DEF Social!HoursPass

LEMMA SocialTypeOKStep ==
  Social!TypeOK /\ [Social!Next]_(Social!vars) => Social!TypeOK'
<1> SUFFICES ASSUME Social!TypeOK, [Social!Next]_(Social!vars)
             PROVE  Social!TypeOK'
  OBVIOUS
<1> USE SocialAssumed DEF Social!TypeOK, Social!Open, Social!Ended, Social!rows,
        Social!deliveries, Social!sweeper, Social!money
<1>1. ASSUME NEW k \in Rows, OfKickoff(k) PROVE Social!TypeOK'
  <2>1. CASE Social!Charge(k)
    BY <2>1 DEF Social!Charge, Social!Step
  <2>2. CASE Social!Insert(k)
    BY <2>2, RefundTyped DEF Social!Insert, Social!Step
  <2>3. CASE Social!StartActor(k)
    BY <2>3 DEF Social!StartActor, Social!Step
  <2>4. CASE Social!Link(k)
    BY <2>4 DEF Social!Link, Social!Step
  <2>5. CASE Social!MarkQueueFailed(k)
    BY <2>5 DEF Social!MarkQueueFailed, Social!Step
  <2>6. CASE Social!RefundKickoff(k) \/ Social!KickoffDies(k)
    BY <2>6, RefundTyped DEF Social!RefundKickoff, Social!KickoffDies, Social!Step
  <2>. QED BY <1>1, <2>1, <2>2, <2>3, <2>4, <2>5, <2>6 DEF OfKickoff
<1>2. ASSUME NEW d \in Deliveries, of[d] # None, OfDelivery(d) PROVE Social!TypeOK'
  <2>0. of[d] \in Rows
    BY <1>2
  <2>1. CASE Social!ClaimFailed(d)
    BY <2>0, <2>1 DEF Social!ClaimFailed, Social!Go
  <2>2. CASE Social!Process(d)
    BY <2>0, <2>2 DEF Social!Process, Social!Go
  <2>3. CASE Social!MarkRunSuccess(d) \/ Social!DeliveryDies(d)
    BY <2>0, <2>3 DEF Social!MarkRunSuccess, Social!DeliveryDies, Social!Go
  <2>4. CASE Social!Catch(d)
    BY <2>0, <2>4 DEF Social!Catch, Social!Go
  <2>5. CASE Social!RefundDelivery(d)
    <3>1. refunds' \in [Rows -> Nat] /\ eventRefunds' \in [Rows -> Nat]
      BY <1>2, <2>5, DeliveryRefundTyped
    <3>2. \A x \in {"event refund", "refund"} : Social!Go(d, x, "over") =>
            at' \in [Deliveries -> {"idle", "claim", "process", "success", "catch",
                                    "event refund", "refund", "over"}]
      BY DEF Social!Go
    <3>. QED BY <2>5, <3>1, <3>2 DEF Social!RefundDelivery
  <2>. QED BY <1>2, <2>1, <2>2, <2>3, <2>4, <2>5 DEF OfDelivery
<1>3. ASSUME NEW d \in Deliveries, NEW k \in Rows, Social!WebhookArrives(d, k)
      PROVE  Social!TypeOK'
  BY <1>3, ReceiveTyped DEF Social!WebhookArrives
<1>4. CASE Social!Poll
  <2>1. sweep \in Rows
    BY <1>4 DEF Social!Poll
  <2>2. CASE \E d \in Deliveries : Social!Receive(d, sweep)
    <3>1. PICK d \in Deliveries, k \in Rows : k = sweep /\ Social!Receive(d, k)
      BY <2>1, <2>2
    <3>2. /\ at' \in [Deliveries -> {"idle", "claim", "process", "success", "catch",
                                     "event refund", "refund", "over"}]
          /\ of' \in [Deliveries -> Rows \cup {None}]
      BY <3>1, ReceiveTyped
    <3>. QED BY <1>4, <3>2 DEF Social!Poll
  <2>3. CASE UNCHANGED <<at, of>>
    BY <1>4, <2>3 DEF Social!Poll
  <2>. QED BY <1>4, <2>2, <2>3 DEF Social!Poll
<1>5. CASE OfOthers
  <2>1. ASSUME NEW k \in Rows, Social!Sweep(k) \/ Social!ActorEnds(k)
        PROVE  Social!TypeOK'
    BY <2>1 DEF Social!Sweep, Social!ActorEnds
  <2>6. ASSUME NEW k \in Rows, Social!HoursPass(k) PROVE Social!TypeOK'
    <3>1. age' \in [Rows -> 0..3]
      BY <2>6, AgeTyped
    <3>. QED BY <2>6, <3>1 DEF Social!HoursPass
  <2>2. CASE Social!MarkTerminal
    BY <2>2 DEF Social!MarkTerminal
  <2>3. CASE Social!RefundTerminal
    <3>2. refunds \in [Rows -> Nat]
      OBVIOUS
    <3>3. ASSUME sweep \notin Rows PROVE refunds' = refunds
      BY <2>3, <3>2, <3>3 DEF Social!RefundTerminal, Social!Refund
    <3>4. refunds' \in [Rows -> Nat]
      BY <2>3, <3>2, <3>3, RefundTyped DEF Social!RefundTerminal
    <3>. QED BY <2>3, <3>4 DEF Social!RefundTerminal
  <2>4. CASE Social!SweepEnds
    BY <2>4 DEF Social!SweepEnds
  <2>5. CASE Social!MarkTimeouts
    BY <2>5 DEF Social!MarkTimeouts
  <2>. QED BY <1>5, <2>1, <2>2, <2>3, <2>4, <2>5, <2>6 DEF OfOthers
<1>6. CASE UNCHANGED Social!vars
  BY <1>6 DEF Social!vars
<1>. QED BY <1>1, <1>2, <1>3, <1>4, <1>5, <1>6, SocialSteps

LEMMA SocialTypeOKInit == Social!Init => Social!TypeOK
BY DEF Social!Init, Social!TypeOK, Social!Open, Social!Ended

\* What a step may do to rows that have their actor run, to deliveries, and to
\* refunds by failed events.
RowsSettle ==
  /\ linked \subseteq linked'
  /\ \A k \in linked : row[k] \notin Social!Open => row'[k] \notin Social!Open
  /\ \A k \in linked : kick'[k] = "over"
  /\ \A k \in linked' : kick'[k] = "over"

\* A step that leaves the deliveries alone.
LEMMA SettleKeeps ==
  ASSUME SocialInv, RowsSettle, UNCHANGED <<at, of, eventRefunds>>
  PROVE  Linked' /\ Claimed'
<1>1. Linked'
  BY DEF SocialInv, Linked, RowsSettle
<1>2. Claimed'
  <2>1. \A d \in Deliveries : at[d] = "event refund" => of[d] \in linked
    BY DEF SocialInv, Linked
  <2>. QED BY <2>1 DEF SocialInv, Claimed, RowsSettle, FailedEventRefundsOnce,
                       Social!FailedEventRefundsOnce
<1>. QED BY <1>1, <1>2

\* A row is linked by its kickoff once, which then is over; and whoever settles
\* rows gives them a terminal status.
LEMMA OthersSettle ==
  ASSUME SocialInv,
         \/ \E k \in Rows : OfKickoff(k)
         \/ OfOthers
  PROVE  RowsSettle /\ UNCHANGED <<at, of, eventRefunds>>
<1> USE DEF RowsSettle, Social!rows, Social!deliveries, Social!sweeper, Social!money
<1>t. /\ \A k \in linked : kick[k] = "over"
      /\ row \in [Rows -> Social!Open \cup Social!Ended \cup {"none"}]
      /\ linked \subseteq Rows
      /\ kick \in [Rows -> {"idle", "charged", "inserted", "started", "failing",
                            "refunding", "over"}]
  BY DEF SocialInv, Social!TypeOK, Linked
<1>1. ASSUME NEW k \in Rows,
             \/ Social!Charge(k) \/ Social!StartActor(k) \/ Social!RefundKickoff(k)
             \/ Social!KickoffDies(k)
      PROVE  RowsSettle /\ UNCHANGED <<at, of, eventRefunds>>
  BY <1>1, <1>t DEF Social!Charge, Social!StartActor, Social!RefundKickoff,
                    Social!KickoffDies, Social!Step
<1>2. ASSUME NEW k \in Rows, Social!Insert(k) \/ Social!MarkQueueFailed(k)
      PROVE  RowsSettle /\ UNCHANGED <<at, of, eventRefunds>>
  <2>1. k \notin linked
    BY <1>2, <1>t DEF Social!Insert, Social!MarkQueueFailed, Social!Step
  <2>. QED BY <1>2, <1>t, <2>1 DEF Social!Insert, Social!MarkQueueFailed, Social!Step
<1>3. ASSUME NEW k \in Rows, Social!Link(k)
      PROVE  RowsSettle /\ UNCHANGED <<at, of, eventRefunds>>
  <2>1. k \notin linked
    BY <1>3, <1>t DEF Social!Link, Social!Step
  <2>. QED BY <1>3, <1>t, <2>1 DEF Social!Link, Social!Step
<1>4. ASSUME NEW k \in Rows,
             Social!Sweep(k) \/ Social!HoursPass(k) \/ Social!ActorEnds(k)
      PROVE  RowsSettle /\ UNCHANGED <<at, of, eventRefunds>>
  BY <1>4, <1>t DEF Social!Sweep, Social!HoursPass, Social!ActorEnds
<1>5. CASE Social!MarkTerminal
  BY <1>5, <1>t DEF Social!MarkTerminal, Social!Open
<1>6. CASE Social!RefundTerminal \/ Social!SweepEnds
  BY <1>6, <1>t DEF Social!RefundTerminal, Social!SweepEnds
<1>7. CASE Social!MarkTimeouts
  BY <1>7, <1>t DEF Social!MarkTimeouts, Social!Open
<1>. QED BY <1>1, <1>2, <1>3, <1>4, <1>5, <1>6, <1>7 DEF OfKickoff, OfOthers

\* A delivery that has found its row has not claimed it yet.
LEMMA ReceiveKeeps ==
  ASSUME SocialInv, NEW d \in Deliveries, NEW k \in Rows, Social!Receive(d, k),
         UNCHANGED <<row, linked, kick, eventRefunds>>
  PROVE  Linked' /\ Claimed'
<1>t. /\ Linked /\ Claimed
      /\ of \in [Deliveries -> Rows \cup {None}]
      /\ at \in [Deliveries -> {"idle", "claim", "process", "success", "catch",
                                "event refund", "refund", "over"}]
  BY DEF SocialInv, Social!TypeOK
<1>1. /\ k \in linked /\ k # None /\ of' = [of EXCEPT ![d] = k]
      /\ \E place \in {"claim", "process"} : at' = [at EXCEPT ![d] = place]
  BY SocialAssumed DEF Social!Receive, Social!Go
<1>2. Linked'
  BY <1>t, <1>1 DEF Linked
<1>3. Claimed'
  BY <1>t, <1>1 DEF Claimed, FailedEventRefundsOnce, Social!FailedEventRefundsOnce
<1>. QED BY <1>2, <1>3

\* A delivery claims its row, settles it, or refunds it.
LEMMA DeliveryKeeps ==
  ASSUME SocialInv, NEW d \in Deliveries, of[d] # None, OfDelivery(d)
  PROVE  Linked' /\ Claimed'
<1> USE DEF Social!rows, Social!sweeper, Social!money
<1>t. /\ Linked /\ Claimed /\ linked \subseteq Rows
      /\ of \in [Deliveries -> Rows \cup {None}]
      /\ at \in [Deliveries -> {"idle", "claim", "process", "success", "catch",
                                "event refund", "refund", "over"}]
      /\ row \in [Rows -> Social!Open \cup Social!Ended \cup {"none"}]
      /\ eventRefunds \in [Rows -> Nat]
  BY DEF SocialInv, Social!TypeOK
<1>k. PICK k \in linked : k = of[d]
  BY <1>t DEF Linked
<1>c. UNCHANGED <<of, linked, kick>>
  BY DEF OfDelivery, Social!ClaimFailed, Social!Process, Social!MarkRunSuccess,
         Social!Catch, Social!RefundDelivery, Social!DeliveryDies
<1>l. Linked'
  BY <1>t, <1>c DEF Linked, OfDelivery, Social!ClaimFailed, Social!Process,
     Social!MarkRunSuccess, Social!Catch, Social!RefundDelivery, Social!DeliveryDies,
     Social!Go
<1> USE DEF Claimed, FailedEventRefundsOnce, Social!FailedEventRefundsOnce
<1>1. CASE Social!ClaimFailed(d)
  <2>1. CASE row[k] \in Social!Open
    <3>1. /\ at' = [at EXCEPT ![d] = "event refund"]
          /\ row' = [row EXCEPT ![k] = "failed"] /\ UNCHANGED eventRefunds
      BY <1>1, <1>k, <2>1 DEF Social!ClaimFailed, Social!Go
    <3>2. eventRefunds[k] = 0 /\ \A e \in Deliveries : at[e] = "event refund" => of[e] # k
      BY <1>t, <1>k, <2>1
    <3>3. \A e \in Deliveries : at'[e] = "event refund" =>
            e = d \/ (at[e] = "event refund" /\ of[e] # k)
      BY <1>t, <3>1, <3>2
    <3>4. \A j \in Rows : row[j] \notin Social!Open => row'[j] \notin Social!Open
      BY <1>t, <3>1 DEF Social!Open
    <3>5. row'[k] \notin Social!Open
      BY <1>t, <3>1 DEF Social!Open
    <3>6. \A e, f \in Deliveries :
            at'[e] = "event refund" /\ at'[f] = "event refund" /\ of[e] = of[f] => e = f
      BY <1>t, <1>k, <3>3
    <3>7. \A e \in Deliveries : at'[e] = "event refund" =>
            row'[of[e]] \notin Social!Open /\ eventRefunds[of[e]] = 0
      BY <1>t, <1>k, <3>2, <3>3, <3>4, <3>5 DEF Linked
    <3>8. Claimed'
      BY <1>t, <1>c, <3>1, <3>4, <3>6, <3>7
    <3>. QED BY <1>l, <3>8
  <2>2. CASE row[k] \notin Social!Open
    <3>1. at' = [at EXCEPT ![d] = "over"] /\ UNCHANGED <<row, eventRefunds>>
      BY <1>1, <1>k, <2>2 DEF Social!ClaimFailed, Social!Go
    <3>. QED BY <1>t, <1>c, <1>l, <3>1
  <2>. QED BY <2>1, <2>2
<1>2. ASSUME NEW place \in {"success", "catch", "refund", "over"},
             at' = [at EXCEPT ![d] = place], UNCHANGED eventRefunds,
             \/ UNCHANGED row
             \/ \E new \in Social!Ended : row' = [row EXCEPT ![k] = new]
      PROVE  Claimed'
  <2>1. \A e \in Deliveries : at'[e] = "event refund" => at[e] = "event refund"
    BY <1>t, <1>2
  <2>2. \A j \in linked : row[j] \notin Social!Open => row'[j] \notin Social!Open
    BY <1>t, <1>2 DEF Social!Open, Social!Ended
  <2>. QED BY <1>t, <1>c, <1>2, <2>1, <2>2 DEF Linked
<1>3. CASE Social!Process(d) \/ Social!Catch(d) \/ Social!MarkRunSuccess(d)
           \/ Social!DeliveryDies(d)
  <2>1. /\ \E place \in {"success", "catch", "refund", "over"} :
             at' = [at EXCEPT ![d] = place]
        /\ UNCHANGED eventRefunds
        /\ \/ UNCHANGED row
           \/ \E new \in Social!Ended : row' = [row EXCEPT ![k] = new]
    BY <1>3, <1>k DEF Social!Process, Social!Catch, Social!MarkRunSuccess,
       Social!DeliveryDies, Social!Go, Social!Ended
  <2>. QED BY <1>l, <1>2, <2>1
<1>4. CASE Social!RefundDelivery(d)
  <2>1. CASE at[d] = "event refund"
    <3>1. /\ at' = [at EXCEPT ![d] = "over"] /\ UNCHANGED row
          /\ eventRefunds' = [eventRefunds EXCEPT ![k] = @ + 1]
      BY <1>4, <1>k, <2>1 DEF Social!RefundDelivery, Social!Go
    <3>2. /\ row[k] \notin Social!Open /\ eventRefunds[k] = 0
          /\ \A e \in Deliveries \ {d} : at[e] = "event refund" => of[e] # k
      BY <1>t, <1>k, <2>1
    <3>3. eventRefunds'[k] = 1 /\ \A j \in Rows \ {k} : eventRefunds'[j] = eventRefunds[j]
      <4>1. k \in Rows /\ eventRefunds \in [Rows -> Nat]
        BY <1>t
      <4>2. eventRefunds[k] = 0
        BY <3>2
      <4>3. eventRefunds' = [eventRefunds EXCEPT ![k] = 1]
        BY <3>1, <4>2
      <4>. QED BY <4>1, <4>3, <3>1
    <3>4. \A e \in Deliveries : at'[e] = "event refund" =>
            /\ at[e] = "event refund" /\ of[e] \in Rows \ {k}
      BY <1>t, <3>1, <3>2 DEF Linked
    <3>5. \A e, f \in Deliveries :
            at'[e] = "event refund" /\ at'[f] = "event refund" /\ of[e] = of[f] => e = f
      BY <1>t, <3>4
    <3>6. \A e \in Deliveries : at'[e] = "event refund" =>
            row[of[e]] \notin Social!Open /\ eventRefunds'[of[e]] = 0
      BY <1>t, <3>3, <3>4
    <3>7. \A j \in Rows :
            /\ eventRefunds'[j] # 0 => j \in linked /\ row[j] \notin Social!Open
            /\ eventRefunds'[j] <= 1
      <4>1. \A j \in Rows \ {k} : eventRefunds'[j] = eventRefunds[j]
                                /\ eventRefunds[j] <= 1
        BY <1>t, <3>3
      <4>2. k \in linked /\ row[k] \notin Social!Open /\ eventRefunds'[k] = 1
        BY <3>2, <3>3
      <4>3. \A j \in Rows : eventRefunds'[j] <= 1
        BY <4>1, <4>2
      <4>4. \A j \in Rows \ {k} : eventRefunds[j] # 0 =>
              j \in linked /\ row[j] \notin Social!Open
        BY <1>t
      <4>. QED BY <4>1, <4>2, <4>3, <4>4
    <3>8. Claimed'
      BY <1>c, <3>1, <3>5, <3>6, <3>7
    <3>. QED BY <1>l, <3>8
  <2>2. CASE at[d] # "event refund"
    <3>1. at' = [at EXCEPT ![d] = "over"] /\ UNCHANGED <<row, eventRefunds>>
      BY <1>4, <2>2 DEF Social!RefundDelivery, Social!Go
    <3>. QED BY <1>l, <1>2, <3>1
  <2>. QED BY <2>1, <2>2
<1>. QED BY <1>l, <1>1, <1>3, <1>4 DEF OfDelivery

LEMMA SocialInvStep == SocialInv /\ [Social!Next]_(Social!vars) => SocialInv'
<1> SUFFICES ASSUME SocialInv, [Social!Next]_(Social!vars) PROVE SocialInv'
  OBVIOUS
<1>0. Social!TypeOK'
  BY SocialTypeOKStep DEF SocialInv
<1>s. ASSUME UNCHANGED <<row, linked, kick, at, of, eventRefunds>>
      PROVE  Linked' /\ Claimed'
  <2>1. RowsSettle
    BY <1>s DEF RowsSettle, SocialInv, Linked
  <2>. QED BY <1>s, <2>1, SettleKeeps
<1>1. ASSUME (\E k \in Rows : OfKickoff(k)) \/ OfOthers PROVE Linked' /\ Claimed'
  BY <1>1, OthersSettle, SettleKeeps
<1>2. ASSUME NEW d \in Deliveries, NEW k \in Rows, Social!WebhookArrives(d, k)
      PROVE  Linked' /\ Claimed'
  BY <1>2, ReceiveKeeps DEF Social!WebhookArrives, Social!rows, Social!money
<1>3. CASE Social!Poll
  <2>1. UNCHANGED <<row, linked, kick, eventRefunds>>
    BY <1>3 DEF Social!Poll, Social!rows, Social!money
  <2>2. CASE \E d \in Deliveries, k \in Rows : Social!Receive(d, k)
    <3>1. PICK d \in Deliveries, k \in Rows : Social!Receive(d, k)
      BY <2>2
    <3>. QED BY <1>0, <2>1, <3>1, ReceiveKeeps DEF SocialInv
  <2>3. CASE UNCHANGED <<at, of>>
    BY <1>0, <2>1, <2>3, <1>s DEF SocialInv
  <2>4. sweep \in Rows
    BY <1>3 DEF Social!Poll, SocialInv, Social!TypeOK
  <2>. QED BY <1>3, <2>2, <2>3, <2>4 DEF Social!Poll, Social!deliveries
<1>4. CASE UNCHANGED Social!vars
  BY <1>0, <1>4, <1>s
     DEF Social!vars, Social!rows, Social!deliveries, Social!money, SocialInv
<1>. QED BY <1>0, <1>1, <1>2, <1>3, <1>4, SocialSteps, DeliveryKeeps DEF SocialInv

\* However many deliveries report that an actor run failed, at once or again,
\* and whatever the reconciler, the failsafe and the kickoff do meanwhile, the
\* callback refunds the charge of that run at most once.
THEOREM SocialEventRefundsOnce == Social!Spec => []FailedEventRefundsOnce
<1>1. Social!Init => SocialInv
  BY SocialTypeOKInit
     DEF Social!Init, SocialInv, Linked, Claimed, FailedEventRefundsOnce,
         Social!FailedEventRefundsOnce
<1>2. SocialInv => FailedEventRefundsOnce
  BY DEF SocialInv, Claimed
<1>. QED BY <1>1, <1>2, SocialInvStep, PTL DEF Social!Spec
=============================================================================
