------------------------- MODULE PageWorkflowProofs -------------------------
(***************************************************************************)
(* A Page run on the workflow backend, for any number of invocations:      *)
(* types, its bill, and, when an invocation ends within its lease, that    *)
(* alerts and refunds agree with the end of the run.                       *)
(***************************************************************************)
EXTENDS PageWorkflow, TLAPS

-----------------------------------------------------------------------------
(* The bill                                                                *)

BillTyped == charges \in 0..1 /\ refunds \in 0..1

\* Only a keyed charge and a keyed refund write the usage records of the run.
LEMMA BillChanges ==
  ASSUME [Next]_vars
  PROVE  \/ UNCHANGED <<charges, refunds>>
         \/ charges' \in {charges, 1} /\ UNCHANGED refunds
         \/ RefundOnce /\ UNCHANGED charges
<1> USE DEF bill, runVars, rowVars, jobVars, procVars
<1>1. ASSUME NEW w \in Workers, Advance(w)
      PROVE  \/ UNCHANGED <<charges, refunds>>
             \/ charges' \in {charges, 1} /\ UNCHANGED refunds
             \/ RefundOnce /\ UNCHANGED charges
  <2>1. CASE Charge(w)
    BY <2>1 DEF Charge
  <2>2. CASE Refund(w)
    BY <2>2 DEF Refund
  <2>. QED BY <1>1, <2>1, <2>2 DEF Advance, CheckRun, ClaimRun, ScrapeRoot, PayRoot,
              PrepareChildren, PayChild, RunPipeline, MarkSuccess, PersistCandidates,
              Notify, Park, MarkError, Finalize, Close
<1>2. CASE QueueStep
  <2>1. CASE ReconcileWaiting
    BY <2>1 DEF ReconcileWaiting
  <2>. QED BY <1>2, <2>1 DEF QueueStep, RowLapses, SettleCall, DropCall,
              ClaimRow, Resume, ResumeNotified
<1>3. CASE JobStep \/ LeaseLapses \/ GrowsStale \/ \E w \in Workers : WorkerDies(w)
  BY <1>3 DEF JobStep, JobSettles, PaidCallLapses, LeaseLapses, GrowsStale, WorkerDies
<1>4. CASE UNCHANGED vars
  BY <1>4 DEF vars
<1>. QED BY <1>1, <1>2, <1>3, <1>4 DEF Next

\* However often a run is delivered, resumed, leased again and reconciled, its
\* charge and its refund are recorded once, and no refund without a charge.
THEOREM PageBilledOnce == Spec => []BilledOnce
<1> DEFINE Inv == BillTyped /\ BilledOnce
<1>1. Init => Inv
  BY DEF Init, BillTyped, BilledOnce
<1>2. Inv /\ [Next]_vars => Inv'
  <2> SUFFICES ASSUME Inv, [Next]_vars PROVE Inv'
    OBVIOUS
  <2> USE DEF BillTyped, BilledOnce
  <2>1. CASE UNCHANGED <<charges, refunds>>
    BY <2>1
  <2>2. CASE charges' \in {charges, 1} /\ UNCHANGED refunds
    BY <2>2
  <2>3. CASE RefundOnce /\ UNCHANGED charges
    BY <2>3 DEF RefundOnce
  <2>. QED BY <2>1, <2>2, <2>3, BillChanges
<1>3. Inv => BilledOnce
  OBVIOUS
<1>. QED BY <1>1, <1>2, <1>3, PTL DEF Spec

-----------------------------------------------------------------------------
(* The lease                                                               *)

\* Where an invocation relies on the lease of the run.
Working == {"charge", "root", "payroot", "children", "paychild", "run", "success",
            "after", "notify", "park", "error", "refund"}

Typed == pc \in [Workers -> Steps] /\ status \in Statuses /\ refunds \in 0..1

Exclusive == \A w \in Workers : pc[w] \in Working => holder = w /\ ~lapsed

\* What an invocation has written of the run is still there when it goes on.
Written == \A w \in Workers :
  /\ pc[w] \in {"after", "notify"} => status = "success"
  /\ pc[w] = "refund" => status = "error"

\* Who is alerted, or refunded, is told of the end of the run.
Alerted == alerted => status = "success" /\ \A w \in Workers : pc[w] \notin Working
Refunded == refunds > 0 =>
              status = "error" /\ \A w \in Workers : pc[w] \notin Working \ {"refund"}

LeaseInv == Typed /\ Exclusive /\ Written /\ Alerted /\ Refunded

\* An invocation that has the lease works alone.
LEMMA Alone ==
  ASSUME LeaseInv, NEW w \in Workers, pc[w] \in Working
  PROVE  /\ ~LeaseFree /\ holder = w /\ ~lapsed
         /\ \A v \in Workers : v # w => pc[v] \notin Working
BY PageAssumption DEF LeaseInv, Exclusive, LeaseFree, PageAssumption

\* It moves on without touching lease and bill, and may end the run.
LEMMA MovesOn ==
  ASSUME LeaseInv, NEW w \in Workers, pc[w] \in Working \ {"refund"},
         NEW step \in Steps, pc' = [pc EXCEPT ![w] = step],
         status' \in Statuses,
         step \in {"after", "notify"} => status' = "success",
         step = "refund" => status' = "error",
         UNCHANGED <<holder, lapsed, refunds>>,
         \/ UNCHANGED alerted
         \/ step = "final" /\ status' = "success" /\ alerted' \in {alerted, TRUE}
  PROVE  LeaseInv'
<1>1. \A v \in Workers : v # w => pc'[v] = pc[v] /\ pc[v] \notin Working
  BY Alone DEF LeaseInv, Typed
<1>2. pc'[w] = step /\ pc' \in [Workers -> Steps]
  BY DEF LeaseInv, Typed
<1>3. holder = w /\ ~lapsed /\ ~alerted
  BY Alone DEF LeaseInv, Alerted
<1>4. refunds = 0
  BY DEF LeaseInv, Refunded, Typed
<1>5. Exclusive' /\ Written' /\ Typed'
  BY <1>1, <1>2, <1>3 DEF LeaseInv, Exclusive, Written, Typed, Working
<1>6. Alerted'
  BY <1>1, <1>2, <1>3 DEF Alerted, Working
<1>7. Refunded'
  BY <1>4 DEF Refunded
<1>. QED BY <1>5, <1>6, <1>7 DEF LeaseInv

\* So does an invocation that has no lease any more, or none yet.
LEMMA OffDuty ==
  ASSUME LeaseInv, NEW w \in Workers, pc[w] \notin Working,
         NEW step \in Steps \ Working, pc' = [pc EXCEPT ![w] = step],
         UNCHANGED <<status, refunds, alerted>>,
         \/ UNCHANGED <<holder, lapsed>>
         \/ holder = w /\ holder' = None /\ lapsed' = FALSE
  PROVE  LeaseInv'
<1>1. \A v \in Workers : pc'[v] \in Working => pc'[v] = pc[v] /\ v # w
  BY DEF LeaseInv, Typed
<1>2. pc' \in [Workers -> Steps]
  BY DEF LeaseInv, Typed
<1>3. Exclusive'
  BY <1>1 DEF LeaseInv, Exclusive
<1>4. Written' /\ Alerted' /\ Refunded' /\ Typed'
  BY <1>1, <1>2 DEF LeaseInv, Written, Alerted, Refunded, Typed, Working
<1>. QED BY <1>3, <1>4 DEF LeaseInv

\* Nobody else writes a run that is over, or gives its credits back, except
\* the reconciler that finds no lease.
LEMMA OthersKeep ==
  ASSUME LeaseInv, pc' = pc, UNCHANGED alerted,
         \/ UNCHANGED <<status, refunds, holder, lapsed>>
         \/ ~Ended /\ status' = "error" /\ UNCHANGED <<refunds, holder, lapsed>>
         \/ /\ ~Ended /\ status' = "error" /\ LeaseFree /\ refunds' \in 0..1
            /\ holder' = None /\ lapsed' = FALSE
  PROVE  LeaseInv'
<1>1. CASE UNCHANGED <<status, refunds, holder, lapsed>>
  BY <1>1 DEF LeaseInv, Typed, Exclusive, Written, Alerted, Refunded
<1>2. CASE ~Ended /\ status' = "error" /\ UNCHANGED <<refunds, holder, lapsed>>
  BY <1>2 DEF LeaseInv, Typed, Exclusive, Written, Alerted, Refunded, Ended, Statuses
<1>3. CASE /\ ~Ended /\ status' = "error" /\ LeaseFree /\ refunds' \in 0..1
           /\ holder' = None /\ lapsed' = FALSE
  <2>1. \A w \in Workers : pc[w] \notin Working
    BY <1>3, Alone
  <2>2. "after" \in Working /\ "notify" \in Working /\ "refund" \in Working
    BY DEF Working
  <2>. QED BY <1>3, <2>1, <2>2 DEF LeaseInv, Typed, Exclusive, Written, Alerted, Refunded,
              Ended, Statuses
<1>. QED BY <1>1, <1>2, <1>3

LEMMA AdvanceKeeps ==
  ASSUME LeaseInv, NEW w \in Workers, Advance(w)
  PROVE  LeaseInv'
<1>p. /\ pc \in [Workers -> Steps] /\ status \in Statuses /\ refunds \in 0..1
      /\ Written
  BY DEF LeaseInv, Typed
<1> USE DEF Working, Steps, Statuses, At, GoTo, Ends, Returns, runVars, rowVars, jobVars,
            bill
<1>1. CASE CheckRun(w)
  BY <1>1, OffDuty DEF CheckRun
<1>2. CASE ClaimRun(w)
  <2>1. CASE ~Ended /\ LeaseFree
    <3>1. \A v \in Workers : pc[v] \notin Working
      BY <2>1, Alone
    <3>2. /\ holder' = w /\ lapsed' = FALSE /\ UNCHANGED <<status, refunds, alerted>>
          /\ \E step \in {"root", "charge"} : pc' = [pc EXCEPT ![w] = step]
      BY <1>2, <2>1 DEF ClaimRun
    <3>3. ~alerted /\ ~(refunds > 0)
      BY <2>1 DEF LeaseInv, Alerted, Refunded, Ended
    <3>4. Exclusive' /\ Written' /\ Typed'
      BY <1>p, <3>1, <3>2 DEF Exclusive, Written, Typed
    <3>5. Alerted' /\ Refunded'
      BY <3>2, <3>3 DEF Alerted, Refunded
    <3>. QED BY <3>4, <3>5 DEF LeaseInv
  <2>2. CASE ~(~Ended /\ LeaseFree)
    BY <1>2, <2>2, OffDuty DEF ClaimRun
  <2>. QED BY <2>1, <2>2
<1>3. CASE Charge(w)
  <2>1. /\ pc[w] = "charge" /\ UNCHANGED <<holder, lapsed, refunds, alerted>>
        /\ status' \in Statuses
        /\ \E step \in {"root", "final"} : pc' = [pc EXCEPT ![w] = step]
    BY <1>3, <1>p DEF Charge
  <2>. QED BY <2>1, MovesOn
<1>4. CASE ScrapeRoot(w) \/ PayRoot(w)
  <2>1. /\ pc[w] \in {"root", "payroot"}
        /\ UNCHANGED <<status, holder, lapsed, refunds, alerted>>
    BY <1>4 DEF ScrapeRoot, PayRoot
  <2>2. \E step \in {"payroot", "park", "success", "children", "error"} :
          pc' = [pc EXCEPT ![w] = step]
    BY <1>4 DEF ScrapeRoot, PayRoot, Pay
  <2>. QED BY <1>p, <2>1, <2>2, MovesOn
<1>5. CASE PrepareChildren(w) \/ PayChild(w)
  <2>1. /\ pc[w] \in {"children", "paychild"}
        /\ UNCHANGED <<status, holder, lapsed, refunds, alerted>>
    BY <1>5 DEF PrepareChildren, PayChild
  <2>2. \E step \in {"paychild", "park", "run", "error"} : pc' = [pc EXCEPT ![w] = step]
    BY <1>5 DEF PrepareChildren, PayChild, Pay
  <2>. QED BY <1>p, <2>1, <2>2, MovesOn
<1>6. CASE RunPipeline(w)
  <2>1. /\ pc[w] = "run" /\ UNCHANGED <<status, holder, lapsed, refunds, alerted>>
        /\ \E step \in {"success", "error"} : pc' = [pc EXCEPT ![w] = step]
    BY <1>6 DEF RunPipeline
  <2>. QED BY <1>p, <2>1, MovesOn
<1>7. CASE MarkSuccess(w)
  <2>1. /\ pc[w] = "success" /\ status' = "success"
        /\ UNCHANGED <<holder, lapsed, refunds, alerted>>
        /\ \E step \in {"after", "final"} : pc' = [pc EXCEPT ![w] = step]
    BY <1>7 DEF MarkSuccess
  <2>. QED BY <2>1, MovesOn
<1>8. CASE PersistCandidates(w)
  <2>1. /\ pc[w] = "after" /\ UNCHANGED <<status, holder, lapsed, refunds, alerted>>
        /\ \E step \in {"notify", "error"} : pc' = [pc EXCEPT ![w] = step]
    BY <1>8 DEF PersistCandidates
  <2>2. status = "success"
    BY <1>p, <2>1 DEF Written
  <2>. QED BY <1>p, <2>1, <2>2, MovesOn
<1>9. CASE Notify(w)
  <2>1. /\ pc[w] = "notify" /\ UNCHANGED <<status, holder, lapsed, refunds>>
        /\ alerted' \in {alerted, TRUE} /\ pc' = [pc EXCEPT ![w] = "final"]
    BY <1>9 DEF Notify
  <2>2. status = "success"
    BY <1>p, <2>1 DEF Written
  <2>. QED BY <1>p, <2>1, <2>2, MovesOn
<1>10. CASE Park(w)
  <2>1. /\ pc[w] = "park" /\ pc' = [pc EXCEPT ![w] = "final"]
        /\ UNCHANGED <<status, refunds, alerted>>
        /\ \/ UNCHANGED <<holder, lapsed>>
           \/ holder' = None /\ lapsed' = FALSE
    BY <1>10 DEF Park
  <2>2. \A v \in Workers : v # w => pc[v] \notin Working
    BY <2>1, Alone
  <2>3. \A v \in Workers : pc'[v] \notin Working
    BY <1>p, <2>1, <2>2
  <2>4. Exclusive' /\ Written' /\ Typed'
    BY <1>p, <2>1, <2>3 DEF Exclusive, Written, Typed
  <2>5. Alerted' /\ Refunded'
    BY <2>1, <2>3 DEF LeaseInv, Alerted, Refunded
  <2>. QED BY <2>4, <2>5 DEF LeaseInv
<1>11. CASE MarkError(w)
  <2>1. /\ pc[w] = "error" /\ status' = "error"
        /\ UNCHANGED <<holder, lapsed, refunds, alerted>>
        /\ \E step \in {"refund", "final"} : pc' = [pc EXCEPT ![w] = step]
    BY <1>11 DEF MarkError
  <2>. QED BY <2>1, MovesOn
<1>12. CASE Refund(w)
  <2>1. /\ pc[w] = "refund" /\ pc' = [pc EXCEPT ![w] = "final"]
        /\ UNCHANGED <<status, holder, lapsed, alerted>> /\ refunds' \in 0..1
    BY <1>p, <1>12 DEF Refund, RefundOnce
  <2>2. \A v \in Workers : v # w => pc[v] \notin Working
    BY <2>1, Alone
  <2>3. \A v \in Workers : pc'[v] \notin Working
    BY <1>p, <2>1, <2>2
  <2>4. status = "error"
    BY <1>p, <2>1 DEF Written
  <2>5. Exclusive' /\ Written' /\ Typed'
    BY <1>p, <2>1, <2>3 DEF Exclusive, Written, Typed
  <2>6. Alerted' /\ Refunded'
    BY <2>1, <2>3, <2>4 DEF LeaseInv, Alerted, Refunded
  <2>. QED BY <2>5, <2>6 DEF LeaseInv
<1>13. CASE Finalize(w)
  <2>1. /\ pc[w] = "final" /\ UNCHANGED <<status, refunds, alerted>>
        /\ \E step \in {"close", "idle"} : pc' = [pc EXCEPT ![w] = step]
        /\ \/ UNCHANGED <<holder, lapsed>>
           \/ holder = w /\ holder' = None /\ lapsed' = FALSE
    BY <1>13 DEF Finalize, ReleasesLease
  <2>. QED BY <2>1, OffDuty
<1>14. CASE Close(w)
  BY <1>14, OffDuty DEF Close
<1>. QED BY <1>1, <1>2, <1>3, <1>4, <1>5, <1>6, <1>7, <1>8, <1>9, <1>10, <1>11, <1>12,
            <1>13, <1>14 DEF Advance

LEMMA LeaseInvStep ==
  ASSUME Overlap = FALSE
  PROVE  LeaseInv /\ [Next]_vars => LeaseInv'
<1> SUFFICES ASSUME LeaseInv, [Next]_vars PROVE LeaseInv'
  OBVIOUS
<1>p. pc \in [Workers -> Steps] /\ refunds \in 0..1
  BY DEF LeaseInv, Typed
<1> USE DEF runVars, rowVars, jobVars, procVars, bill
<1>s. ASSUME NEW w \in Workers, Starts(w), UNCHANGED <<runVars, bill>>
      PROVE  LeaseInv'
  <2>1. pc[w] \notin Working /\ "check" \in Steps \ Working
    BY <1>s DEF Starts, Working, Steps
  <2>. QED BY <1>s, <2>1, OffDuty DEF Starts
<1>1. CASE RowLapses \/ SettleCall \/ DropCall
  <2>1. pc' = pc /\ UNCHANGED <<holder, lapsed, refunds, alerted>>
    BY <1>1 DEF RowLapses, SettleCall, DropCall
  <2>2. UNCHANGED status \/ (~Ended /\ status' = "error")
    BY <1>1 DEF RowLapses, SettleCall, DropCall
  <2>. QED BY <2>1, <2>2, OthersKeep
<1>2. CASE ReconcileWaiting
  <2>1. pc' = pc /\ UNCHANGED alerted /\ refunds' \in 0..1
    BY <1>2, <1>p DEF ReconcileWaiting, RefundOnce
  <2>2. \/ UNCHANGED <<status, holder, lapsed, refunds>>
        \/ /\ ~Ended /\ status' = "error" /\ LeaseFree
           /\ holder' = None /\ lapsed' = FALSE
    BY <1>2 DEF ReconcileWaiting, Stalled
  <2>. QED BY <2>1, <2>2, OthersKeep
<1>3. ASSUME NEW w \in Workers, ClaimRow(w) \/ Resume(w) \/ ResumeNotified(w)
      PROVE  LeaseInv'
  <2>1. UNCHANGED <<runVars, bill>> /\ (Starts(w) \/ UNCHANGED pc)
    BY <1>3 DEF ClaimRow, Resume, ResumeNotified
  <2>2. CASE Starts(w)
    BY <2>1, <2>2, <1>s
  <2>3. CASE UNCHANGED pc
    BY <2>1, <2>3, OthersKeep
  <2>. QED BY <2>1, <2>2, <2>3
<1>4. CASE JobStep \/ GrowsStale \/ UNCHANGED vars
  <2>1. UNCHANGED <<pc, status, holder, lapsed, refunds, alerted>>
    BY <1>4 DEF JobStep, JobSettles, PaidCallLapses, GrowsStale, vars
  <2>. QED BY <2>1, OthersKeep
<1>5. CASE LeaseLapses
  <2>1. /\ UNCHANGED <<pc, status, holder, refunds, alerted>>
        /\ ~Holding(holder) /\ lapsed' = TRUE
    BY <1>5 DEF LeaseLapses
  <2>2. \A w \in Workers : pc[w] \notin Working
    BY <2>1, Alone DEF Holding, Working
  <2>. QED BY <2>1, <2>2
           DEF LeaseInv, Typed, Exclusive, Written, Alerted, Refunded
<1>6. ASSUME NEW w \in Workers, WorkerDies(w) PROVE LeaseInv'
  <2>1. /\ pc' = [pc EXCEPT ![w] = "idle"]
        /\ UNCHANGED <<status, holder, lapsed, refunds, alerted>>
    BY <1>6 DEF WorkerDies
  <2>2. \A v \in Workers : pc'[v] = pc[v] \/ pc'[v] = "idle"
    BY <1>p, <2>1
  <2>3. "idle" \notin Working /\ "idle" \in Steps
    BY DEF Working, Steps
  <2>4. Exclusive' /\ Alerted' /\ Refunded'
    BY <2>1, <2>2, <2>3 DEF LeaseInv, Exclusive, Alerted, Refunded
  <2>5. Typed' /\ Written'
    BY <1>p, <2>1, <2>2, <2>3 DEF LeaseInv, Typed, Written
  <2>. QED BY <2>4, <2>5 DEF LeaseInv
<1>. QED BY <1>1, <1>2, <1>3, <1>4, <1>5, <1>6, AdvanceKeeps DEF Next, QueueStep

LEMMA LeaseInvInit == Init => LeaseInv
BY DEF Init, LeaseInv, Typed, Exclusive, Written, Alerted, Refunded, Working, Steps,
       Statuses

\* As long as invocations end within their lease, nobody is alerted of a run
\* that is not, or does not stay, a success.
THEOREM PageAlertedOfSuccess ==
  ASSUME Overlap = FALSE
  PROVE  Spec => []AlertedOfSuccess
<1>1. LeaseInv => AlertedOfSuccess
  BY DEF LeaseInv, Alerted, AlertedOfSuccess
<1>2. LeaseInv /\ [Next]_vars => LeaseInv'
  BY LeaseInvStep
<1>. QED BY <1>1, <1>2, LeaseInvInit, PTL DEF Spec

\* Nor is a success ever refunded, by the reconciler or by another invocation.
THEOREM PageSuccessIsPaid ==
  ASSUME Overlap = FALSE
  PROVE  Spec => []SuccessIsPaid
<1>1. LeaseInv => SuccessIsPaid
  BY DEF LeaseInv, Refunded, SuccessIsPaid, Typed
<1>2. LeaseInv /\ [Next]_vars => LeaseInv'
  BY LeaseInvStep
<1>. QED BY <1>1, <1>2, LeaseInvInit, PTL DEF Spec
=============================================================================
