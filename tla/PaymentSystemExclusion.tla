----------------------- MODULE PaymentSystemExclusion -----------------------
(***************************************************************************)
(* Machine-checked proof of "exactly one worker processes a payment": with *)
(* one sweeper, and claims that do not outlast STALE_PROCESSING_MS, no two *)
(* workers are ever between claim and settle of a payment, and a sweep     *)
(* only recovers stale claims, whatever crashes, whatever transactions or  *)
(* handlers fail, whatever job locks are lost and whatever the callbacks   *)
(* say.  Either assumption is needed: see the runs slow_worker and         *)
(* two_sweeps.                                                             *)
(***************************************************************************)
EXTENDS PaymentSystemProofs

OneSweeper == \A s, z \in Sweepers : s = z

PromptClaims == "slow_claim" \notin Faults

(* Somebody is between claim and settle of p. *)
Busy(p) == \E w \in Workers : InFlight(w) /\ calls[w].payment = p

IsStale(row) == row.status = PROCESSING /\ row.processing_started_at = "stale"

(* What a sweep still has to go through. *)
Pending(s) == sweeps[s].rows \ {sweeps[s].row}

(* A row that no worker may claim, and none is working on unless it has    *)
(* been settled.                                                           *)
Unclaimable(row) == row.status \in {SUCCESS, FAILED} \/ IsStale(row)

(* A row's part: nobody works on a payment that can be claimed, or on a    *)
(* stale one; who works on a PROCESSING row has claimed it as it is now.   *)
RowExclusion(p) ==
  /\ payments[p].status \in {NONE, PENDING} => ~Busy(p)
  /\ IsStale(payments[p]) => ~Busy(p)
  /\ payments[p].status = PROCESSING =>
       \A w \in Workers :
         InFlight(w) /\ calls[w].payment = p => calls[w].attempt = payments[p].attempts

(* A sweep's part: what it has read as stale has not been claimed since.   *)
SweepExclusion(s) ==
  /\ sweeps[s].pc = "recover" => sweeps[s].row = NoPayment
  /\ \A p \in Pending(s) : Unclaimable(payments[p])

ExclusionInv ==
  /\ ExclusiveProcessing
  /\ \A p \in Payments : RowExclusion(p)
  /\ \A s \in Sweepers : SweepExclusion(s)

(* Calls end or go on, and none gets past its claim. *)
CallsShrink ==
  \A w \in Workers : InFlight(w)' => /\ InFlight(w)
                                     /\ calls'[w].payment = calls[w].payment
                                     /\ calls'[w].attempt = calls[w].attempt

(* Sweeps go on with what they have, or begin. *)
SweepsShrink ==
  \A s \in Sweepers :
    /\ (sweeps[s].pc = "recover" => sweeps[s].row = NoPayment)'
    /\ Pending(s)' \subseteq Pending(s) \cup findStale

(* No new call in flight, no second worker.                                *)
LEMMA ShrinkingCalls ==
  ASSUME ExclusionInv, CallsShrink
  PROVE  /\ ExclusiveProcessing'
         /\ \A p \in Payments : Busy(p)' => Busy(p)
BY DEF ExclusionInv, ExclusiveProcessing, CallsShrink, Busy

(* Steps that leave the table alone and start nothing.                     *)
LEMMA QuietExclusion ==
  ASSUME ExclusionInv, CallsShrink, SweepsShrink, UNCHANGED payments
  PROVE  ExclusionInv'
<1>1. \A p \in Payments : RowExclusion(p)'
  BY ShrinkingCalls DEF ExclusionInv, RowExclusion, CallsShrink
<1>2. \A s \in Sweepers : SweepExclusion(s)'
  BY DEF ExclusionInv, SweepExclusion, SweepsShrink, findStale, Unclaimable, IsStale
<1>3. QED
  BY <1>1, <1>2, ShrinkingCalls DEF ExclusionInv

(* Steps that write one row: what a sweep has still to go through must not *)
(* have become claimable, and who still works on it must have claimed it.  *)
LEMMA RowWrite ==
  ASSUME SystemInv, ExclusionInv, CallsShrink, SweepsShrink,
         NEW p \in Payments, NEW row, payments' = [payments EXCEPT ![p] = row],
         row.status \in {NONE, PENDING} => ~Busy(p)',
         IsStale(row) => ~Busy(p)',
         row.status = PROCESSING => row.attempts = payments[p].attempts \/ ~Busy(p)',
         row.status = PROCESSING => payments[p].status = PROCESSING \/ ~Busy(p)',
         \A s \in Sweepers : p \in Pending(s)' => Unclaimable(row)
  PROVE  ExclusionInv'
<1>1. payments'[p] = row /\ \A q \in Payments \ {p} : payments'[q] = payments[q]
  BY DEF SystemInv, BudgetInv, TypeOK
<1>2. RowExclusion(p)'
  BY <1>1 DEF ExclusionInv, RowExclusion, CallsShrink, Busy
<1>3. \A q \in Payments \ {p} : RowExclusion(q)'
  BY <1>1, ShrinkingCalls DEF ExclusionInv, RowExclusion, CallsShrink
<1>4. ASSUME NEW s \in Sweepers
      PROVE  SweepExclusion(s)'
  <2>1. \A q \in Pending(s) \cup findStale : Unclaimable(payments[q]) /\ q \in Payments
    BY DEF ExclusionInv, SweepExclusion, Pending, findStale, Unclaimable, IsStale,
           SystemInv, ProcessInv, Sweep
  <2>2. QED
    BY <1>1, <2>1 DEF SweepExclusion, SweepsShrink
<1>5. QED
  BY <1>2, <1>3, <1>4, ShrinkingCalls DEF ExclusionInv
----------------------------------------------------------------------------
(* Sweeps.                                                                 *)

(* The loop goes on, without p.                                            *)
LEMMA NextRowShrinks ==
  ASSUME SystemInv, NEW s \in Sweepers, NEW p, NextRow(s, p),
         sweeps[s].pc # "recover" => p = sweeps[s].row,
         \A z \in Sweepers : sweeps[z].pc = "recover" => sweeps[z].row = NoPayment
  PROVE  SweepsShrink /\ p \notin Pending(s)'
<1> DEFINE rows == sweeps[s].rows \ {p}
           sweep == IF rows = {} THEN NoSweep
                      ELSE [NoSweep EXCEPT !.pc = "recover", !.rows = rows]
<1>1. sweep.rows = rows /\ sweep.row = NoPayment
  BY DEF NoSweep
<1>2. sweeps'[s] = sweep /\ \A z \in Sweepers \ {s} : sweeps'[z] = sweeps[z]
  BY DEF NextRow, SystemInv, ProcessInv
<1>3. NoPayment \notin sweeps[s].rows
  BY PaymentServiceAssumption DEF SystemInv, ProcessInv, Sweep
<1> HIDE DEF sweep
<1>4. Pending(s)' \subseteq Pending(s) /\ p \notin Pending(s)'
  BY <1>1, <1>2, <1>3 DEF Pending
<1>5. QED
  BY <1>1, <1>2, <1>4 DEF SweepsShrink, Pending

(* A recovery that releases its row has its row out of the way of the only *)
(* sweep there is; nobody works on it, for it is stale.                    *)
LEMMA RecoveryExclusion ==
  ASSUME OneSweeper, SystemInv, ExclusionInv, NEW s \in Sweepers, NEW p \in Payments,
         SweepRecovers(s, p)
  PROVE  IsStale(payments[p]) /\ ExclusionInv'
<1> DEFINE row == RecoveredRow(payments[p])
<1>1. sweeps[s].row = NoPayment /\ p \in Pending(s)
  BY PaymentServiceAssumption DEF SweepRecovers, ExclusionInv, SweepExclusion, Pending
<1>2. IsStale(payments[p])
  BY <1>1 DEF ExclusionInv, SweepExclusion, Unclaimable, SweepRecovers, RecoverStale,
              PROCESSING, SUCCESS, FAILED
<1>3. ~Busy(p) /\ CallsShrink /\ ~Busy(p)'
  BY <1>2 DEF ExclusionInv, RowExclusion, CallsShrink, InFlight, Busy, SweepRecovers,
              RecoverStale
<1>4. payments' = [payments EXCEPT ![p] = row]
  BY DEF SweepRecovers, RecoverStale
<1>5. row.status \in {PENDING, FAILED} /\ payments'[p] = row
  BY <1>4, RowStatus DEF SystemInv, BudgetInv, TypeOK
<1>6. SweepsShrink /\ (p \in Pending(s)' => row.status = FAILED)
  <2>1. CASE NextRow(s, p)
    <3>1. SweepsShrink /\ p \notin Pending(s)'
      BY <2>1, NextRowShrinks DEF ExclusionInv, SweepExclusion, SweepRecovers
    <3>2. QED
      BY <3>1
  <2>2. CASE ~NextRow(s, p)
    <3> DEFINE sweep == [sweeps[s] EXCEPT !.pc = "remove", !.row = p]
    <3>1. sweep.pc = "remove" /\ sweep.row = p /\ sweep.rows = sweeps[s].rows
      BY DEF SystemInv, ProcessInv, Sweep
    <3>2. sweeps'[s] = sweep
      BY <2>2 DEF SweepRecovers, SystemInv, ProcessInv
    <3> HIDE DEF sweep
    <3>3. p \notin Pending(s)' /\ Pending(s)' \subseteq Pending(s)
      BY <1>1, <3>1, <3>2, PaymentServiceAssumption
      DEF Pending, SystemInv, ProcessInv, Sweep
    <3>4. SweepsShrink
      BY <3>1, <3>2, <3>3 DEF SweepsShrink, OneSweeper
    <3>5. QED
      BY <3>3, <3>4
  <2>3. QED
    BY <2>1, <2>2
<1>7. \A z \in Sweepers : p \in Pending(z)' => Unclaimable(row)
  BY <1>6 DEF OneSweeper, Unclaimable
<1>8. ExclusionInv'
  <2> HIDE DEF row
  <2>1. row.status # PROCESSING /\ ~IsStale(row)
    BY <1>5 DEF IsStale, PENDING, PROCESSING, FAILED
  <2>2. QED
    BY <1>3, <1>4, <1>6, <1>7, <2>1, RowWrite
<1>9. QED
  BY <1>2, <1>8

(* Every step of a sweep.                                                  *)
LEMMA SweepStepExclusion ==
  ASSUME OneSweeper, SystemInv, ExclusionInv, NEW s \in Sweepers,
         SweepStep(s) \/ SweepCrashes(s)
  PROVE  ExclusionInv'
<1>1. ASSUME NEW p \in Payments, SweepRecovers(s, p)
      PROVE  ExclusionInv'
  BY <1>1, RecoveryExclusion
<1>2. \A z \in Sweepers : sweeps[z].pc = "recover" => sweeps[z].row = NoPayment
  BY DEF ExclusionInv, SweepExclusion
<1>3. ASSUME SweepsShrink, UNCHANGED <<payments, calls>>
      PROVE  ExclusionInv'
  BY <1>3, QuietExclusion DEF CallsShrink, InFlight
<1>4. ASSUME NEW p \in Payments, SweepSkips(s, p)
      PROVE  ExclusionInv'
  BY <1>2, <1>3, <1>4, NextRowShrinks DEF SweepSkips, service
<1>5. CASE SweepEnqueues(s)
  BY <1>2, <1>3, <1>5, NextRowShrinks DEF SweepEnqueues, service
<1>6. CASE SweepRemoves(s)
  <2>1. /\ sweeps'[s].pc = "enqueue" /\ Pending(s)' = Pending(s)
        /\ \A z \in Sweepers \ {s} : sweeps'[z] = sweeps[z]
    BY <1>6 DEF SweepRemoves, Pending, SystemInv, ProcessInv, Sweep
  <2>2. QED
    BY <1>2, <1>3, <1>6, <2>1 DEF SweepsShrink, SweepRemoves, Pending, service
<1>7. CASE SweepBegins(s)
  <2>1. /\ sweeps'[s].rows = findStale /\ sweeps'[s].row = NoPayment
        /\ \A z \in Sweepers \ {s} : sweeps'[z] = sweeps[z]
    BY <1>7 DEF SweepBegins, NoSweep, SystemInv, ProcessInv
  <2>2. QED
    BY <1>2, <1>3, <1>7, <2>1 DEF SweepsShrink, SweepBegins, Pending, service
<1>8. CASE SweepCrashes(s)
  <2>1. /\ sweeps'[s].rows = {} /\ sweeps'[s].row = NoPayment
        /\ \A z \in Sweepers \ {s} : sweeps'[z] = sweeps[z]
    BY <1>8 DEF SweepCrashes, NoSweep, SystemInv, ProcessInv
  <2>2. QED
    BY <1>2, <1>3, <1>8, <2>1 DEF SweepsShrink, SweepCrashes, Pending, service
<1>9. QED
  BY <1>1, <1>4, <1>5, <1>6, <1>7, <1>8 DEF SweepStep
----------------------------------------------------------------------------
(* Calls.                                                                  *)

(* A call that moves to another step keeps its payment and its attempt.    *)
LEMMA GotoShrinks ==
  ASSUME SystemInv, NEW w \in Workers, NEW pc, Goto(w, pc),
         pc \in {"charge", "charging", "settle"} => InFlight(w)
  PROVE  /\ CallsShrink
         /\ pc \notin {"charge", "charging", "settle"} => ~InFlight(w)'
BY DEF SystemInv, BudgetInv, TypeOK, Goto, Call, CallsShrink, InFlight

(* A claim: nobody was at work on the row, and no sweep has it in hand.    *)
LEMMA ClaimExclusion ==
  ASSUME SystemInv, ExclusionInv, NEW w \in Workers, ClaimWon(w),
         UNCHANGED sweeps
  PROVE  ExclusionInv'
<1>p. PICK p \in Payments : p = calls[w].payment
  BY DEF ClaimWon, SystemInv, BudgetInv, CallsInv
<1>row. PICK row : row = ClaimedRow(payments[p])
  OBVIOUS
<1>1. payments[p] \in Row /\ payments[p].status = PENDING
  BY <1>p DEF ClaimWon, Claimable, SystemInv, BudgetInv, TypeOK
<1>2. ~Busy(p)
  BY <1>1 DEF ExclusionInv, RowExclusion
<1>3. \A s \in Sweepers : p \notin Pending(s)
  BY <1>1 DEF ExclusionInv, SweepExclusion, Unclaimable, IsStale,
              PENDING, PROCESSING, SUCCESS, FAILED
<1>4. /\ row.status = PROCESSING /\ row.processing_started_at = "fresh"
      /\ row.attempts = payments[p].attempts + 1
  BY <1>row, <1>1 DEF ClaimedRow, Row
<1>5. payments'[p] = row /\ \A q \in Payments \ {p} : payments'[q] = payments[q]
  BY <1>p, <1>row DEF ClaimWon, SystemInv, BudgetInv, TypeOK
<1>6. /\ calls'[w].payment = p /\ calls'[w].attempt = payments[p].attempts + 1
      /\ \A v \in Workers \ {w} : calls'[v] = calls[v]
  BY <1>p DEF ClaimWon, SystemInv, BudgetInv, TypeOK, Call
<1>7. ExclusiveProcessing'
  BY <1>2, <1>6 DEF ExclusionInv, ExclusiveProcessing, InFlight, Busy
<1>8. RowExclusion(p)'
  BY <1>2, <1>4, <1>5, <1>6
  DEF RowExclusion, Busy, InFlight, IsStale, NONE, PENDING, PROCESSING
<1>9. ASSUME NEW q \in Payments \ {p}
      PROVE  RowExclusion(q)'
  BY <1>5, <1>6, <1>9 DEF ExclusionInv, RowExclusion, Busy, InFlight
<1>10. ASSUME NEW s \in Sweepers
       PROVE  SweepExclusion(s)'
  <2>1. Pending(s)' \subseteq Payments \ {p} /\ Pending(s)' = Pending(s)
    BY <1>3 DEF Pending, SystemInv, ProcessInv, Sweep
  <2>2. QED
    BY <1>5, <2>1 DEF ExclusionInv, SweepExclusion
<1>11. QED
  BY <1>7, <1>8, <1>9, <1>10 DEF ExclusionInv

(* A settle, whether it is seen or not: its worker was the only one at     *)
(* work on the row, which no sweep has in hand as stale.                   *)
LEMMA SettleExclusion ==
  ASSUME SystemInv, ExclusionInv, NEW w \in Workers, calls[w].pc = "settle",
         Settleable(payments[calls[w].payment]),
         payments' = [payments EXCEPT
           ![calls[w].payment] = SettledRow(@, calls[w].outcome)],
         NEW pc \in {"returned", "threw"}, Goto(w, pc), UNCHANGED sweeps
  PROVE  ExclusionInv'
<1>p. PICK p \in Payments : p = calls[w].payment
  BY DEF SystemInv, BudgetInv, CallsInv
<1>row. PICK row : row = SettledRow(payments[p], calls[w].outcome)
  OBVIOUS
<1>1. InFlight(w)
  BY DEF InFlight
<1>2. CallsShrink /\ ~InFlight(w)'
  BY GotoShrinks
<1>3. ~Busy(p)'
  BY <1>p, <1>1, <1>2 DEF ExclusionInv, ExclusiveProcessing, Busy, CallsShrink
<1>4. payments[p].status = PROCESSING /\ ~IsStale(payments[p])
  BY <1>p, <1>1 DEF Settleable, ExclusionInv, RowExclusion, Busy
<1>5. \A s \in Sweepers : p \notin Pending(s)
  BY <1>4 DEF ExclusionInv, SweepExclusion, Unclaimable, PROCESSING, SUCCESS, FAILED
<1>6. SweepsShrink /\ \A s \in Sweepers : p \notin Pending(s)'
  BY <1>5 DEF SweepsShrink, Pending, ExclusionInv, SweepExclusion
<1>7. payments' = [payments EXCEPT ![p] = row]
  BY <1>p, <1>row
<1>8. QED
  BY <1>2, <1>3, <1>4, <1>6, <1>7, RowWrite

(* Every step of a worker.                                                 *)
LEMMA CallStepExclusion ==
  ASSUME SystemInv, ExclusionInv, NEW w \in Workers,
         \/ \E p \in Payments : TakeJob(w, p)
         \/ RunCall(w) \/ JobCompleted(w) \/ JobFailed(w) \/ CallFault(w)
  PROVE  ExclusionInv'
<1>1. UNCHANGED sweeps
  BY DEF TakeJob, RunCall, JobCompleted, JobFailed, CallFault
<1>2. SweepsShrink
  BY <1>1 DEF ExclusionInv, SweepExclusion, SweepsShrink, Pending
<1>3. ASSUME CallsShrink, UNCHANGED payments
      PROVE  ExclusionInv'
  BY <1>2, <1>3, QuietExclusion
<1>4. ASSUME NEW p \in Payments, TakeJob(w, p)
      PROVE  ExclusionInv'
  BY <1>3, <1>4 DEF TakeJob, StartProcess, Idle, CallsShrink, InFlight,
                    SystemInv, BudgetInv, TypeOK
<1>5. CASE Finish(w) \/ Crash(w)
  BY <1>3, <1>5 DEF Finish, Crash, Idle, CallsShrink, InFlight,
                    SystemInv, BudgetInv, TypeOK
<1>6. CASE ClaimRefused(w) \/ BeginCharge(w) \/ SettleNoop(w) \/ Rollback(w)
  <2>1. \E pc : Goto(w, pc) /\ (pc \in {"charge", "charging", "settle"} => InFlight(w))
    BY <1>6 DEF ClaimRefused, BeginCharge, SettleNoop, Rollback, InFlight
  <2>2. UNCHANGED payments
    BY <1>6 DEF ClaimRefused, BeginCharge, SettleNoop, Rollback
  <2>3. QED
    BY <1>3, <2>1, <2>2, GotoShrinks
<1>7. ASSUME NEW outcome \in Outcome, EndCharge(w, outcome)
      PROVE  ExclusionInv'
  <2>1. /\ calls'[w].payment = calls[w].payment /\ calls'[w].attempt = calls[w].attempt
        /\ InFlight(w) /\ \A v \in Workers \ {w} : calls'[v] = calls[v]
    BY <1>7 DEF EndCharge, InFlight, SystemInv, BudgetInv, TypeOK, Call
  <2>2. CallsShrink
    BY <2>1 DEF CallsShrink, InFlight
  <2>3. QED
    BY <1>3, <1>7, <2>2 DEF EndCharge
<1>8. CASE ClaimWon(w)
  BY <1>1, <1>8, ClaimExclusion
<1>9. CASE Settle(w)
  <2>1. \E pc \in {"returned", "threw"} : Goto(w, pc)
    BY <1>9 DEF Settle
  <2>2. QED
    BY <1>1, <1>9, <2>1, SettleExclusion DEF Settle
<1>10. CASE AckLost(w) /\ calls[w].pc = "settle"
  BY <1>1, <1>10, SettleExclusion DEF AckLost
<1>11. CASE AckLost(w) /\ calls[w].pc # "settle"
  <2>p. PICK p \in Payments : p = calls[w].payment
    BY <1>11 DEF AckLost, SystemInv, BudgetInv, CallsInv
  <2>row. PICK row : row = ClaimedRow(payments[p])
    OBVIOUS
  <2>1. payments[p].status = PENDING /\ payments' = [payments EXCEPT ![p] = row]
    BY <1>11, <2>p, <2>row DEF AckLost, Claimable
  <2>2. CallsShrink
    BY <1>11, GotoShrinks DEF AckLost
  <2>3. ~Busy(p)'
    BY <2>1, <2>2, ShrinkingCalls DEF ExclusionInv, RowExclusion
  <2>4. \A s \in Sweepers : p \notin Pending(s)'
    BY <1>1, <2>1 DEF ExclusionInv, SweepExclusion, Unclaimable, IsStale, Pending,
                      PENDING, PROCESSING, SUCCESS, FAILED
  <2>5. QED
    BY <1>2, <2>1, <2>2, <2>3, <2>4, RowWrite
<1>12. QED
  BY <1>4, <1>5, <1>6, <1>7, <1>8, <1>9, <1>10, <1>11
  DEF RunCall, JobCompleted, JobFailed, CallFault
----------------------------------------------------------------------------
(* The other writers.                                                      *)

(* A row that is settled, whoever does it, is out of every claim's reach.  *)
LEMMA SettlingExclusion ==
  ASSUME SystemInv, ExclusionInv, UNCHANGED calls, UNCHANGED sweeps,
         NEW p \in Payments, NEW row,
         payments' = [payments EXCEPT ![p] = row],
         row.status = SUCCESS \/ row.status = FAILED
  PROVE  ExclusionInv'
<1>1. CallsShrink /\ SweepsShrink
  BY DEF CallsShrink, InFlight, SweepsShrink, Pending, ExclusionInv, SweepExclusion
<1>2. row.status \notin {NONE, PENDING, PROCESSING} /\ Unclaimable(row) /\ ~IsStale(row)
  BY DEF Unclaimable, IsStale, NONE, PENDING, PROCESSING, SUCCESS, FAILED
<1>3. QED
  BY <1>1, <1>2, RowWrite

(* A claim grows stale unattended: nobody works on its row.                *)
LEMMA AgingExclusion ==
  ASSUME PromptClaims, SystemInv, ExclusionInv, NEW p \in Payments, ClaimAges(p)
  PROVE  ExclusionInv'
<1>1. PICK row : row = [payments[p] EXCEPT !.processing_started_at = "stale"]
  OBVIOUS
<1>2. /\ payments[p].status = PROCESSING /\ UNCHANGED <<calls, sweeps>>
      /\ payments' = [payments EXCEPT ![p] = row]
  BY <1>1 DEF ClaimAges, BecomeStale
<1>3. row.attempts = payments[p].attempts /\ IsStale(row)
  BY <1>1, <1>2 DEF SystemInv, BudgetInv, TypeOK, Row, IsStale
<1>4. CallsShrink /\ SweepsShrink
  BY <1>2 DEF CallsShrink, InFlight, SweepsShrink, Pending, ExclusionInv, SweepExclusion
<1>5. ~Busy(p)
  BY <1>2 DEF ClaimAges, PromptClaims, Fault, Attended, Busy, ExclusionInv, RowExclusion
<1>6. ~Busy(p)'
  BY <1>4, <1>5, ShrinkingCalls
<1>7. QED
  BY <1>2, <1>3, <1>4, <1>6, RowWrite DEF Unclaimable

(* Every other step that is about one payment.                             *)
LEMMA PaymentStepExclusion ==
  ASSUME PromptClaims, SystemInv, ExclusionInv, NEW p \in Payments,
         \/ Initiate(p) \/ EnqueueNew(p) \/ RequestLost(p) \/ OnFailed(p)
         \/ OnFailedLost(p) \/ LockExpires(p) \/ JobTimer(p) \/ ClaimAges(p)
         \/ Callback(p)
  PROVE  ExclusionInv'
<1>1. ASSUME UNCHANGED <<payments, calls, sweeps>>
      PROVE  ExclusionInv'
  BY <1>1, QuietExclusion
  DEF CallsShrink, InFlight, SweepsShrink, Pending, ExclusionInv, SweepExclusion
<1>2. CASE EnqueueNew(p) \/ RequestLost(p) \/ OnFailedLost(p) \/ LockExpires(p) \/ JobTimer(p)
  BY <1>1, <1>2 DEF EnqueueNew, RequestLost, OnFailedLost, LockExpires, JobTimer, service
<1>3. ASSUME FailPayment(p), UNCHANGED sweeps
      PROVE  ExclusionInv'
  <2>1. PICK row : row = [payments[p] EXCEPT !.status = FAILED]
    OBVIOUS
  <2>2. (row.status = SUCCESS \/ row.status = FAILED) /\ payments' = [payments EXCEPT ![p] = row]
    BY <1>3, <2>1 DEF FailPayment, SystemInv, BudgetInv, TypeOK, Row
  <2>3. UNCHANGED calls /\ UNCHANGED sweeps
    BY <1>3 DEF FailPayment
  <2>4. QED
    BY <2>2, <2>3, SettlingExclusion
<1>4. CASE OnFailed(p)
  BY <1>1, <1>3, <1>4 DEF OnFailed, service
<1>5. CASE Callback(p)
  <2>1. UNCHANGED calls /\ UNCHANGED sweeps
    BY <1>5 DEF Callback, handleWebhook, WebhookApplied, WebhookIgnored
  <2>2. ASSUME NEW target \in {SUCCESS, FAILED}, NEW hasRef,
               payments' = [payments EXCEPT ![p] = WebhookRow(@, target, hasRef)]
        PROVE  ExclusionInv'
    <3>1. PICK row : row = WebhookRow(payments[p], target, hasRef)
      OBVIOUS
    <3>2. (row.status = SUCCESS \/ row.status = FAILED) /\ payments' = [payments EXCEPT ![p] = row]
      BY <2>2, <3>1, RowStatus DEF SystemInv, BudgetInv, TypeOK
    <3>3. QED
      BY <2>1, <3>2, SettlingExclusion
  <2>3. QED
    BY <1>1, <1>5, <2>1, <2>2 DEF Callback, handleWebhook, WebhookApplied, WebhookIgnored
<1>6. CASE ClaimAges(p)
  BY <1>6, AgingExclusion
<1>7. CASE Initiate(p)
  <2>1. payments[p].status = NONE
    BY <1>7 DEF Initiate, Create, Exists
  <2>2. CallsShrink /\ SweepsShrink
    BY <1>7 DEF Initiate, Create, CallsShrink, InFlight, SweepsShrink, Pending,
                ExclusionInv, SweepExclusion
  <2>3. ~Busy(p)'
    BY <2>1, <2>2, ShrinkingCalls DEF ExclusionInv, RowExclusion
  <2>4. \A s \in Sweepers : p \notin Pending(s)'
    BY <1>7, <2>1 DEF Initiate, ExclusionInv, SweepExclusion, Unclaimable, IsStale, Pending,
                      NONE, PROCESSING, SUCCESS, FAILED
  <2>5. payments' = [payments EXCEPT ![p] = NewRow]
    BY <1>7 DEF Initiate, Create
  <2>6. QED
    BY <2>2, <2>3, <2>4, <2>5, RowWrite
<1>8. QED
  BY <1>2, <1>4, <1>5, <1>6, <1>7

(* Every step preserves the invariant.                                     *)
LEMMA ExclusionStep ==
  ASSUME OneSweeper, PromptClaims, SystemInv, ExclusionInv, [SystemNext]_system
  PROVE  ExclusionInv'
<1>1. ASSUME UNCHANGED <<payments, calls, sweeps>>
      PROVE  ExclusionInv'
  BY <1>1, QuietExclusion
  DEF CallsShrink, InFlight, SweepsShrink, Pending, ExclusionInv, SweepExclusion
<1>2. CASE Signal \/ WorkerClosed \/ Start
  BY <1>1, <1>2 DEF Signal, WorkerClosed, Start, service
<1>3. CASE Exit
  BY <1>1, <1>3, ExitIsQuiet DEF Exit
<1>4. QED
  BY <1>1, <1>2, <1>3, PaymentStepExclusion, CallStepExclusion, SweepStepExclusion
  DEF SystemNext, system

(* It holds at the start.                                                  *)
LEMMA ExclusionInit ==
  ASSUME SystemInit
  PROVE  ExclusionInv
BY DEF SystemInit, Init, ExclusionInv, ExclusiveProcessing, RowExclusion, SweepExclusion,
       InFlight, Busy, Pending, Idle, NoSweep, IsStale, NoRow, NONE, PROCESSING

(* Exactly one worker processes a payment, under all faults but a claim    *)
(* that outlasts STALE_PROCESSING_MS, and with one sweeper: although the   *)
(* queue may hand a job to two workers, whose claims and settles then race *)
(* with the sweep, the failed handler and the callbacks.                   *)
THEOREM OneWorkerPerPayment ==
  ASSUME OneSweeper, PromptClaims
  PROVE  SystemSpec => []ExclusiveProcessing
<1>1. SystemInit => ExclusionInv
  BY ExclusionInit
<1>2. SystemInv /\ ExclusionInv /\ [SystemNext]_system => ExclusionInv'
  BY ExclusionStep
<1>3. ExclusionInv => ExclusiveProcessing
  BY DEF ExclusionInv
<1>4. QED
  BY <1>1, <1>2, <1>3, SystemInvariant, PTL DEF SystemSpec

(* Under the same assumptions a sweep never releases a claim that is not   *)
(* stale, although recoverStalePayment does not look at its age again.     *)
THEOREM SweepsTakeStaleClaims ==
  ASSUME OneSweeper, PromptClaims
  PROVE  SystemSpec => OnlyStaleRecovered
<1>1. SystemInit => ExclusionInv
  BY ExclusionInit
<1>2. SystemInv /\ ExclusionInv /\ [SystemNext]_system => ExclusionInv'
  BY ExclusionStep
<1>3. SystemInv /\ ExclusionInv /\ [SystemNext]_system =>
        [\A s \in Sweepers, p \in Payments :
           SweepRecovers(s, p) => payments[p].processing_started_at = "stale"]_system
  BY RecoveryExclusion DEF IsStale
<1>4. QED
  BY <1>1, <1>2, <1>3, SystemInvariant, PTL DEF SystemSpec, OnlyStaleRecovered

=============================================================================
