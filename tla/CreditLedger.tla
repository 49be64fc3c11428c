---------------------------- MODULE CreditLedger ----------------------------
(***************************************************************************)
(* Credits: a pool per user and one per team, charged before a scout runs  *)
(* and refunded when the run fails.                                        *)
(*                                                                         *)
(* A charge is a transaction of several statements: it reads which team is *)
(* active, tries the team's pool, and falls back to the user's own.  Other *)
(* charges, the billing provider and the daily reset come in between.  A   *)
(* statement that changes a pool waits for the pool's row and sees its     *)
(* latest balance; the transaction then only writes its usage record and   *)
(* commits, so the two are one action here.                                *)
(***************************************************************************)
EXTENDS Integers

CONSTANTS
  Users, Orgs,     \* owners of pools
  None,            \* no team, or no pool
  Accounts,        \* the pools that have a row
  Callers,         \* invocations that charge, and may refund
  UserOf,          \* the user a caller acts for
  Cost,            \* what a caller charges
  Keyed,           \* callers that charge under an idempotency key
  Key,             \* ... which is shared by the invocations of one run
  Caps,            \* monthly caps the billing provider may set
  MaxRenewals      \* bound: how often months pass and caps change

LedgerAssumption ==
  /\ None \notin Users \cup Orgs
  /\ Users \cap Orgs = {}
  /\ Accounts \subseteq Users \cup Orgs
  /\ Keyed \subseteq Callers
  /\ UserOf \in [Callers -> Users]
  /\ Cost \in [Callers -> Nat \ {0}]
  /\ \A c, d \in Keyed : Key[c] = Key[d] => UserOf[c] = UserOf[d]
  /\ Caps \subseteq Nat
  /\ MaxRenewals \in Nat

ASSUME LedgerAssumption

VARIABLES
  balance,      \* credit_accounts.balance
  cap,          \* credit_accounts.monthly_cap
  due,          \* pools whose update_on has passed
  activeOrg,    \* user_preferences.active_org_id
  pc,           \* where each caller stands
  vOrg,         \* the team a transaction read
  paid,         \* usage record of a caller's charge: the pool, or None
  refunded,     \* usage record of a caller's refund: the pool, or None
  used,         \* usage_records summed over a pool
  granted,      \* history: what a pool was ever given
  renewals      \* how often a month passed or a cap changed

ledger == <<balance, cap, due, used, granted, renewals>>
vars == <<ledger, activeOrg, pc, vOrg, paid, refunded>>

Pools == Users \cup Orgs

\* A caller is in a transaction in all but the first and the last three.
Charging == {"chargeOrg", "chargeUser"}
Refunding == {"refundOrg", "refundUser"}
Begun == {"charge", "refund"} \cup Charging \cup Refunding
Places == Begun \cup {"idle", "refused", "running", "failed", "over"}

TypeOK ==
  /\ balance \in [Accounts -> Int] /\ cap \in [Accounts -> Nat]
  /\ due \subseteq Accounts
  /\ activeOrg \in [Users -> Orgs \cup {None}]
  /\ pc \in [Callers -> Places]
  /\ vOrg \in [Callers -> Orgs \cup {None}]
  /\ paid \in [Callers -> Accounts \cup {None}]
  /\ refunded \in [Callers -> Accounts \cup {None}]
  /\ used \in [Accounts -> Int] /\ granted \in [Accounts -> Int]
  /\ renewals \in 0..MaxRenewals

Init ==
  /\ cap \in [Accounts -> Caps] /\ balance = cap
  /\ due = {}
  /\ activeOrg \in [Users -> Orgs \cup {None}]
  /\ pc = [c \in Callers |-> "idle"]
  /\ vOrg = [c \in Callers |-> None]
  /\ paid = [c \in Callers |-> None]
  /\ refunded = [c \in Callers |-> None]
  /\ used = [p \in Accounts |-> 0]
  /\ granted = balance
  /\ renewals = 0

-----------------------------------------------------------------------------
(* The transactions                                                        *)

Least(a, b) == IF a <= b THEN a ELSE b

At(c, place) == pc[c] = place
GoTo(c, place) == pc' = [pc EXCEPT ![c] = place]

\* The advisory locks of the keyed variants: the key's and the user's.  A
\* caller has them from its look-up to its commit.
Waits(c) ==
  \E d \in Keyed \ {c} : UserOf[d] = UserOf[c] /\ pc[d] \in Begun

\* The usage record that carries the caller's key.
Recorded(c, usage) ==
  c \in Keyed /\ \E d \in Keyed : Key[d] = Key[c] /\ usage[d] # None

\* mutant of Begin: looks the key up before it takes the locks
BeginUnlocked(c, from, to) ==
  At(c, from) /\ GoTo(c, to)
  /\ UNCHANGED <<ledger, activeOrg, vOrg, paid, refunded>>

\* decrement_credits or refund_credits is called; the keyed variants first
\* wait for their locks.
Begin(c, from, to) ==
  /\ At(c, from)
  /\ c \in Keyed => ~Waits(c)
  /\ GoTo(c, to)
  /\ UNCHANGED <<ledger, activeOrg, vOrg, paid, refunded>>

\* A recorded key answers at once; otherwise the active team is read.
LookUp(c, usage, from, to, done) ==
  /\ At(c, from)
  /\ \/ Recorded(c, usage) /\ GoTo(c, done) /\ UNCHANGED vOrg
     \/ /\ ~Recorded(c, usage) /\ GoTo(c, to)
        /\ vOrg' = [vOrg EXCEPT ![c] = activeOrg[UserOf[c]]]
  /\ UNCHANGED <<ledger, activeOrg, paid, refunded>>

\* UPDATE credit_accounts ... WHERE balance >= cost, and the usage record.
CanPay(c, p) == p \in Accounts /\ balance[p] >= Cost[c]

\* mutant of Debit: the record names the team although the user's pool paid
DebitMisfiled(c, p) ==
  /\ balance' = [balance EXCEPT ![p] = @ - Cost[c]]
  /\ paid' = [paid EXCEPT ![c] = p]
  /\ used' = [used EXCEPT ![IF vOrg[c] \in Accounts THEN vOrg[c] ELSE p] =
                             @ + Cost[c]]

Debit(c, p) ==
  /\ balance' = [balance EXCEPT ![p] = @ - Cost[c]]
  /\ paid' = [paid EXCEPT ![c] = p]
  /\ used' = [used EXCEPT ![p] = @ + Cost[c]]

ChargeOrg(c) ==
  /\ At(c, "chargeOrg")
  /\ \/ CanPay(c, vOrg[c]) /\ Debit(c, vOrg[c]) /\ GoTo(c, "running")
     \/ /\ ~CanPay(c, vOrg[c]) /\ GoTo(c, "chargeUser")
        /\ UNCHANGED <<balance, used, paid>>
  /\ UNCHANGED <<cap, due, granted, renewals, activeOrg, vOrg, refunded>>

\* mutant of ChargeUser: the balance is not compared with the cost again
ChargeUserUnchecked(c) ==
  /\ At(c, "chargeUser")
  /\ LET p == UserOf[c] IN
     \/ /\ p \in Accounts /\ balance[p] > 0 /\ Debit(c, p) /\ GoTo(c, "running")
     \/ /\ ~(p \in Accounts /\ balance[p] > 0) /\ GoTo(c, "refused")
        /\ UNCHANGED <<balance, used, paid>>
  /\ UNCHANGED <<cap, due, granted, renewals, activeOrg, vOrg, refunded>>

\* The transaction raises insufficient_credits if this pool cannot pay.
ChargeUser(c) ==
  /\ At(c, "chargeUser")
  /\ LET p == UserOf[c] IN
     \/ CanPay(c, p) /\ Debit(c, p) /\ GoTo(c, "running")
     \/ /\ ~CanPay(c, p) /\ GoTo(c, "refused")
        /\ UNCHANGED <<balance, used, paid>>
  /\ UNCHANGED <<cap, due, granted, renewals, activeOrg, vOrg, refunded>>

\* The refund stops at the cap, its usage record does not.
Credit(c, p) ==
  /\ balance' = [balance EXCEPT ![p] = Least(@ + Cost[c], cap[p])]
  /\ refunded' = [refunded EXCEPT ![c] = p]
  /\ used' = [used EXCEPT ![p] = @ - Cost[c]]

RefundOrg(c) ==
  /\ At(c, "refundOrg")
  /\ \/ vOrg[c] \in Accounts /\ Credit(c, vOrg[c]) /\ GoTo(c, "over")
     \/ /\ vOrg[c] \notin Accounts /\ GoTo(c, "refundUser")
        /\ UNCHANGED <<balance, used, refunded>>
  /\ UNCHANGED <<cap, due, granted, renewals, activeOrg, vOrg, paid>>

\* Without an account to refund into nothing happens.
RefundUser(c) ==
  /\ At(c, "refundUser") /\ GoTo(c, "over")
  /\ LET p == UserOf[c] IN
     \/ p \in Accounts /\ Credit(c, p)
     \/ p \notin Accounts /\ UNCHANGED <<balance, used, refunded>>
  /\ UNCHANGED <<cap, due, granted, renewals, activeOrg, vOrg, paid>>

\* The run that was charged succeeds and is over, or fails.
RunEnds(c) ==
  /\ At(c, "running")
  /\ GoTo(c, "failed") \/ GoTo(c, "over")
  /\ UNCHANGED <<ledger, activeOrg, vOrg, paid, refunded>>

Transaction(c) ==
  \/ Begin(c, "idle", "charge")
  \/ LookUp(c, paid, "charge", "chargeOrg", "running")
  \/ ChargeOrg(c) \/ ChargeUser(c)
  \/ RunEnds(c)
  \/ Begin(c, "failed", "refund")
  \/ LookUp(c, refunded, "refund", "refundOrg", "over")
  \/ RefundOrg(c) \/ RefundUser(c)

-----------------------------------------------------------------------------
(* The billing provider and the daily cron                                 *)

Renews == renewals < MaxRenewals /\ renewals' = renewals + 1

\* topup_team_credits: an upgrade adds the difference, a downgrade clips.
TopUp(p, newCap) ==
  LET raise == IF newCap > cap[p] THEN newCap - cap[p] ELSE 0
      new   == Least(balance[p] + raise, newCap)
  IN
  /\ Renews
  /\ balance' = [balance EXCEPT ![p] = new]
  /\ cap' = [cap EXCEPT ![p] = newCap]
  /\ granted' = [granted EXCEPT ![p] =
                   IF new > balance[p] THEN @ + (new - balance[p]) ELSE @]
  /\ UNCHANGED <<due, used, activeOrg, pc, vOrg, paid, refunded>>

MonthPasses ==
  /\ due = {} /\ due' = Accounts /\ Renews
  /\ UNCHANGED <<balance, cap, used, granted, activeOrg, pc, vOrg, paid, refunded>>

\* reset_expired_credits
ResetExpired ==
  /\ due # {} /\ due' = {}
  /\ balance' = [p \in Accounts |-> IF p \in due THEN cap[p] ELSE balance[p]]
  /\ granted' = [p \in Accounts |->
       IF p \in due THEN granted[p] + (cap[p] - balance[p]) ELSE granted[p]]
  /\ UNCHANGED <<cap, used, renewals, activeOrg, pc, vOrg, paid, refunded>>

\* A user joins, leaves or changes the team.
SwitchTeam(u, o) ==
  /\ activeOrg[u] # o /\ activeOrg' = [activeOrg EXCEPT ![u] = o]
  /\ UNCHANGED <<ledger, pc, vOrg, paid, refunded>>

Next ==
  \/ \E c \in Callers : Transaction(c)
  \/ \E p \in Orgs \cap Accounts, newCap \in Caps : TopUp(p, newCap)
  \/ MonthPasses \/ ResetExpired
  \/ \E u \in Users, o \in Orgs \cup {None} : SwitchTeam(u, o)

Spec == Init /\ [][Next]_vars

-----------------------------------------------------------------------------
(* Properties                                                              *)

\* A pool is never overdrawn and never above its monthly cap, whoever charges
\* and refunds it at the same time: each statement of decrement_credits and
\* refund_credits decides on the balance it changes.
Solvent == \A p \in Accounts : 0 <= balance[p] /\ balance[p] <= cap[p]

\* The usage records of a pool explain its balance: what was charged to it and
\* what is left is no more than what it was given.
AuditTrail == \A p \in Accounts : balance[p] + used[p] <= granted[p]

\* Invocations that share an idempotency key charge and refund once between
\* them.
KeyedOnce ==
  \A c, d \in Keyed : Key[c] = Key[d] /\ c # d =>
    /\ paid[c] = None \/ paid[d] = None
    /\ refunded[c] = None \/ refunded[d] = None
=============================================================================
