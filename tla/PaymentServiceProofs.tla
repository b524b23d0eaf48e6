----------------------- MODULE PaymentServiceProofs -----------------------
(***************************************************************************)
(* Machine-checked proofs of the properties of PaymentService, for any     *)
(* number of payments, workers and callbacks and any budget of attempts.   *)
(***************************************************************************)
EXTENDS PaymentService, TLAPS

(* What the transactions make of a row is a row. *)
LEMMA RowTypes ==
  ASSUME NEW row \in Row
  PROVE  /\ NewRow \in Row /\ NoRow \in Row
         /\ ClaimedRow(row) \in Row
         /\ ReleasedRow(row) \in Row
         /\ RecoveredRow(row) \in Row
         /\ \A outcome : SettledRow(row, outcome) \in Row
         /\ \A hasRef : \A target \in {SUCCESS, FAILED} :
              WebhookRow(row, target, hasRef) \in Row
<1> USE DEF Row, ePaymentStatus, PENDING, PROCESSING, SUCCESS, FAILED, NONE
<1>1. NewRow \in Row /\ NoRow \in Row
  BY DEF NewRow, NoRow
<1>2. ClaimedRow(row) \in Row
  <2>1. row.attempts + 1 \in Nat
    OBVIOUS
  <2>2. [row EXCEPT !.attempts = @ + 1] \in Row
    BY <2>1
  <2>3. QED
    BY <2>1 DEF ClaimedRow
<1>3. ReleasedRow(row) \in Row
  BY DEF ReleasedRow
<1>4. RecoveredRow(row) \in Row
  BY <1>3 DEF RecoveredRow
<1>5. ASSUME NEW outcome PROVE SettledRow(row, outcome) \in Row
  BY <1>3 DEF SettledRow
<1>6. ASSUME NEW hasRef, NEW target \in {SUCCESS, FAILED}
      PROVE  WebhookRow(row, target, hasRef) \in Row
  BY DEF WebhookRow
<1>7. QED
  BY <1>1, <1>2, <1>3, <1>4, <1>5, <1>6

(* None but a claim changes the attempts, and a claim adds one. *)
LEMMA RowAttempts ==
  ASSUME NEW row \in Row
  PROVE  /\ NewRow.attempts = 0
         /\ ClaimedRow(row).attempts = row.attempts + 1
         /\ ReleasedRow(row).attempts = row.attempts
         /\ RecoveredRow(row).attempts = row.attempts
         /\ \A outcome : SettledRow(row, outcome).attempts = row.attempts
         /\ \A target, hasRef : WebhookRow(row, target, hasRef).attempts = row.attempts
BY DEF Row, NewRow, NoRow, ClaimedRow, ReleasedRow, RecoveredRow, SettledRow, WebhookRow

(* Each returns a row to PENDING only while attempts are left. *)
LEMMA RowStatus ==
  ASSUME NEW row \in Row
  PROVE  /\ NewRow.status = PENDING
         /\ ClaimedRow(row).status = PROCESSING
         /\ ReleasedRow(row).status = PENDING
         /\ \/ RecoveredRow(row).status = PENDING /\ AttemptsLeft(row)
            \/ RecoveredRow(row).status = FAILED
         /\ \A outcome :
              \/ SettledRow(row, outcome).status = PENDING /\ AttemptsLeft(row)
              \/ SettledRow(row, outcome).status = FAILED
              \/ SettledRow(row, outcome).status = SUCCESS /\ Succeeded(outcome)
         /\ \A hasRef : \A target \in {SUCCESS, FAILED} :
              WebhookRow(row, target, hasRef).status = target
BY DEF Row, NewRow, NoRow, ClaimedRow, ReleasedRow, RecoveredRow, SettledRow, WebhookRow,
       SUCCESS, FAILED

----------------------------------------------------------------------------
(* The budget. *)

(* A worker that is past its claim holds an attempt that its payment has   *)
(* counted; a payment without a row has counted none.                      *)
CallsInv ==
  \A w \in Workers :
    /\ calls[w].pc # "idle" => calls[w].payment \in Payments
    /\ InFlight(w) => calls[w].attempt \in 1..payments[calls[w].payment].attempts

NoRowNoAttempts ==
  \A p \in Payments : ~Exists(p) => payments[p].attempts = 0

BudgetInv == TypeOK /\ CallsInv /\ NoRowNoAttempts /\ AttemptsWithinBudget

(* The table's part of the invariant does not look at a row's other        *)
(* columns: a transaction that keeps the attempts of an existing row, and  *)
(* returns it to PENDING only with attempts left, preserves it.            *)
LEMMA BudgetRewrite ==
  ASSUME BudgetInv, NEW p \in Payments, NEW row \in Row,
         row.status # NONE, row.attempts = payments[p].attempts,
         row.status = PENDING => AttemptsLeft(row),
         payments' = [payments EXCEPT ![p] = row], UNCHANGED charged
  PROVE  /\ payments' \in [Payments -> Row]
         /\ \A q \in Payments : payments'[q].attempts = payments[q].attempts
         /\ NoRowNoAttempts'
         /\ AttemptsWithinBudget'
<1> USE DEF BudgetInv
<1>1. payments' \in [Payments -> Row]
  BY DEF TypeOK
<1>2. \A q \in Payments : payments'[q].attempts = payments[q].attempts
  BY DEF TypeOK
<1>3. NoRowNoAttempts'
  BY <1>2 DEF NoRowNoAttempts, Exists, TypeOK
<1>4. AttemptsWithinBudget'
  BY <1>2 DEF AttemptsWithinBudget, AttemptsLeft, TypeOK
<1>5. QED
  BY <1>1, <1>2, <1>3, <1>4

(* A worker that moves on without a claim keeps its payment and attempt,   *)
(* and is in flight only if it was: the calls' part is preserved when no   *)
(* payment has counted fewer attempts.                                     *)
LEMMA BudgetCalls ==
  ASSUME BudgetInv,
         payments' \in [Payments -> Row],
         \A q \in Payments : payments'[q].attempts = payments[q].attempts,
         calls' \in [Workers -> Call],
         \A w \in Workers :
           /\ calls'[w].pc # "idle" =>
                calls'[w].payment \in Payments
           /\ InFlight(w)' =>
                /\ InFlight(w)
                /\ calls'[w].payment = calls[w].payment
                /\ calls'[w].attempt = calls[w].attempt
  PROVE  CallsInv'
BY DEF BudgetInv, CallsInv, InFlight

(* A worker that moves to another step of the same call. *)
LEMMA BudgetGoto ==
  ASSUME BudgetInv, NEW w \in Workers, calls[w].pc # "idle",
         payments' \in [Payments -> Row],
         \A q \in Payments : payments'[q].attempts = payments[q].attempts,
         NEW pc \in {"charging", "settle", "returned", "threw"},
         Goto(w, pc),
         pc \in {"charging", "settle"} => InFlight(w)
  PROVE  calls' \in [Workers -> Call] /\ CallsInv'
<1>1. calls' \in [Workers -> Call]
  BY DEF BudgetInv, TypeOK, Goto, Call
<1>2. CallsInv'
  BY <1>1 DEF BudgetInv, CallsInv, InFlight, Goto, TypeOK, Call
<1>3. QED
  BY <1>1, <1>2

(* Nothing is counted and nobody works at the start.                       *)
LEMMA BudgetInit ==
  ASSUME Init PROVE BudgetInv
<1> USE DEF Init
<1>1. TypeOK
  BY DEF TypeOK, Row, NoRow, Event, NoEvent, Call, Idle, NONE
<1>2. CallsInv
  BY DEF CallsInv, InFlight, Idle
<1>3. NoRowNoAttempts
  BY DEF NoRowNoAttempts, NoRow
<1>4. AttemptsWithinBudget
  BY PaymentServiceAssumption
  DEF AttemptsWithinBudget, AttemptsLeft, NoRow, NONE, PENDING
<1>5. QED
  BY <1>1, <1>2, <1>3, <1>4 DEF BudgetInv

(* A claim takes the attempt that its PENDING row has left. *)
LEMMA BudgetClaim ==
  ASSUME BudgetInv, NEW w \in Workers,
         NEW p \in Payments, p = calls[w].payment,
         calls[w].pc = "claim", Claimable(payments[p]),
         payments' = [payments EXCEPT ![p] = ClaimedRow(@)],
         UNCHANGED charged
  PROVE  /\ payments' \in [Payments -> Row]
         /\ \A q \in Payments : payments'[q].attempts >= payments[q].attempts
         /\ payments'[p].attempts = payments[p].attempts + 1
         /\ NoRowNoAttempts'
         /\ AttemptsWithinBudget'
<1> USE DEF BudgetInv
<1> DEFINE row == ClaimedRow(payments[p])
<1>1. payments[p] \in Row /\ AttemptsLeft(payments[p])
  BY DEF TypeOK, AttemptsWithinBudget, Claimable
<1>2. row \in Row /\ row.attempts = payments[p].attempts + 1 /\ row.status = PROCESSING
  BY <1>1, RowTypes, RowAttempts, RowStatus
<1>3. payments' = [payments EXCEPT ![p] = row]
  OBVIOUS
<1> HIDE DEF row
<1>4. payments' \in [Payments -> Row]
  BY <1>2, <1>3 DEF TypeOK
<1>5. payments'[p] = row /\ \A q \in Payments : q # p => payments'[q] = payments[q]
  BY <1>3 DEF TypeOK
<1>6. \A q \in Payments : payments'[q].attempts >= payments[q].attempts
  BY <1>2, <1>5, <1>1 DEF TypeOK, Row
<1>7. NoRowNoAttempts'
  BY <1>2, <1>5 DEF NoRowNoAttempts, Exists, PROCESSING, NONE
<1>8. AttemptsWithinBudget'
  <2> SUFFICES ASSUME NEW q \in Payments
               PROVE  /\ payments'[q].attempts <= MAX_PAYMENT_ATTEMPTS
                      /\ payments'[q].status = PENDING => AttemptsLeft(payments'[q])
                      /\ charged[q] \subseteq 1..payments'[q].attempts
    BY DEF AttemptsWithinBudget
  <2>1. CASE q # p
    BY <2>1, <1>5 DEF AttemptsWithinBudget
  <2>2. CASE q = p
    <3>1. payments[p].attempts \in Nat /\ MAX_PAYMENT_ATTEMPTS \in Nat
      BY <1>1, PaymentServiceAssumption DEF Row
    <3>2. charged[p] \subseteq 1..payments[p].attempts
      BY DEF AttemptsWithinBudget
    <3>3. QED
      BY <2>2, <1>1, <1>2, <1>5, <3>1, <3>2 DEF AttemptsLeft, PROCESSING, PENDING
  <2>3. QED
    BY <2>1, <2>2
<1>9. QED
  BY <1>2, <1>4, <1>5, <1>6, <1>7, <1>8

(* Every step of the engine preserves the budget's invariant.              *)
LEMMA BudgetStep ==
  ASSUME BudgetInv, [Next]_vars PROVE BudgetInv'
<1> USE DEF BudgetInv
<1>1. ASSUME NEW w \in Workers, NEW p \in Payments, StartProcess(w, p)
      PROVE  BudgetInv'
  <2>1. calls' \in [Workers -> Call] /\ CallsInv'
    BY <1>1 DEF StartProcess, Idle, TypeOK, Call, CallsInv, InFlight
  <2>2. QED
    BY <1>1, <2>1 DEF StartProcess, TypeOK, NoRowNoAttempts, Exists,
                      AttemptsWithinBudget, AttemptsLeft
<1>2. ASSUME NEW w \in Workers, ClaimWon(w)
      PROVE  BudgetInv'
  <2> DEFINE p == calls[w].payment
  <2>1. p \in Payments /\ calls[w].pc = "claim" /\ Claimable(payments[p])
    BY <1>2 DEF ClaimWon, CallsInv
  <2>2. /\ payments' \in [Payments -> Row]
        /\ \A q \in Payments : payments'[q].attempts >= payments[q].attempts
        /\ payments'[p].attempts = payments[p].attempts + 1
        /\ NoRowNoAttempts'
        /\ AttemptsWithinBudget'
    BY <1>2, <2>1, BudgetClaim DEF ClaimWon
  <2>3. payments[p].attempts \in Nat
    BY <2>1 DEF TypeOK, Row
  <2>4. /\ calls' \in [Workers -> Call]
        /\ \A v \in Workers : v # w => calls'[v] = calls[v]
        /\ calls'[w].payment = p
        /\ calls'[w].attempt = payments[p].attempts + 1
    <3>1. payments[p].attempts + 1 \in Nat
      BY <2>3
    <3>2. QED
      BY <1>2, <3>1 DEF ClaimWon, TypeOK, Call
  <2>5. TypeOK'
    BY <1>2, <2>2, <2>4 DEF ClaimWon, TypeOK
  <2>6. CallsInv'
    <3> SUFFICES ASSUME NEW v \in Workers
                 PROVE  /\ calls'[v].pc # "idle" => calls'[v].payment \in Payments
                        /\ InFlight(v)' =>
                             calls'[v].attempt \in 1..payments'[calls'[v].payment].attempts
      BY DEF CallsInv
    <3>1. CASE v = w
      BY <3>1, <2>1, <2>2, <2>3, <2>4
    <3>2. CASE v # w
      <4>1. calls'[v] = calls[v]
        BY <3>2, <2>4
      <4>2. calls[v].pc # "idle" => calls[v].payment \in Payments
        BY DEF CallsInv
      <4>3. ASSUME InFlight(v)
            PROVE  calls[v].attempt \in 1..payments'[calls[v].payment].attempts
        <5>1. calls[v].payment \in Payments
          BY <4>2, <4>3 DEF InFlight
        <5>2. calls[v].attempt \in 1..payments[calls[v].payment].attempts
          BY <4>3 DEF CallsInv
        <5>3. payments[calls[v].payment].attempts \in Nat
          BY <5>1 DEF TypeOK, Row
        <5>4. payments'[calls[v].payment].attempts \in Nat
          BY <5>1, <2>2 DEF Row
        <5>5. payments'[calls[v].payment].attempts >= payments[calls[v].payment].attempts
          BY <5>1, <2>2
        <5>6. QED
          BY <5>2, <5>3, <5>4, <5>5
      <4>4. QED
        BY <4>1, <4>2, <4>3 DEF InFlight
    <3>3. QED
      BY <3>1, <3>2
  <2>7. QED
    BY <2>2, <2>5, <2>6
<1>3. ASSUME NEW w \in Workers, ClaimRefused(w) \/ SettleNoop(w) \/ Rollback(w)
      PROVE  BudgetInv'
  <2>1. PICK pc \in {"returned", "threw"} : Goto(w, pc)
    BY <1>3 DEF ClaimRefused, SettleNoop, Rollback
  <2>2. calls[w].pc # "idle" /\ UNCHANGED <<payments, events, charged, confirmed>>
    BY <1>3 DEF ClaimRefused, SettleNoop, Rollback
  <2>3. calls' \in [Workers -> Call] /\ CallsInv'
    BY <2>1, <2>2, BudgetGoto DEF TypeOK
  <2>4. QED
    BY <2>2, <2>3 DEF TypeOK, NoRowNoAttempts, Exists, AttemptsWithinBudget, AttemptsLeft
<1>4. ASSUME NEW w \in Workers, BeginCharge(w)
      PROVE  BudgetInv'
  <2> DEFINE p == calls[w].payment
  <2>1. p \in Payments /\ calls[w].attempt \in 1..payments[p].attempts
    BY <1>4 DEF BeginCharge, CallsInv, InFlight
  <2>2. calls' \in [Workers -> Call] /\ CallsInv'
    BY <1>4, BudgetGoto DEF BeginCharge, InFlight, TypeOK
  <2>3. /\ payments[p].attempts \in Nat /\ MAX_PAYMENT_ATTEMPTS \in Nat
        /\ payments[p].attempts <= MAX_PAYMENT_ATTEMPTS
    BY <2>1, PaymentServiceAssumption DEF TypeOK, Row, AttemptsWithinBudget
  <2>4. charged' = [charged EXCEPT ![p] = @ \cup {calls[w].attempt}]
    BY <1>4 DEF BeginCharge
  <2>5. TypeOK'
    BY <1>4, <2>1, <2>2, <2>3, <2>4 DEF BeginCharge, TypeOK
  <2>6. AttemptsWithinBudget'
    BY <1>4, <2>1, <2>4 DEF BeginCharge, TypeOK, AttemptsWithinBudget, AttemptsLeft
  <2>7. NoRowNoAttempts'
    BY <1>4 DEF BeginCharge, NoRowNoAttempts, Exists
  <2>8. QED
    BY <2>2, <2>5, <2>6, <2>7
<1>5. ASSUME NEW w \in Workers, NEW outcome \in Outcome, EndCharge(w, outcome)
      PROVE  BudgetInv'
  <2>1. calls' \in [Workers -> Call] /\ CallsInv'
    BY <1>5 DEF EndCharge, TypeOK, Call, CallsInv, InFlight
  <2>2. calls[w].payment \in Payments
    BY <1>5 DEF EndCharge, CallsInv
  <2>3. QED
    BY <1>5, <2>1, <2>2
    DEF EndCharge, TypeOK, NoRowNoAttempts, Exists, AttemptsWithinBudget, AttemptsLeft
<1>6. ASSUME NEW w \in Workers, calls[w].pc = "settle", Settleable(payments[calls[w].payment]),
             payments' = [payments EXCEPT ![calls[w].payment] =
                            SettledRow(@, calls[w].outcome)],
             NEW pc \in {"returned", "threw"}, Goto(w, pc),
             UNCHANGED <<events, charged, confirmed>>
      PROVE  BudgetInv'
  <2> DEFINE p == calls[w].payment
             row == SettledRow(payments[p], calls[w].outcome)
  <2>1. p \in Payments /\ payments[p] \in Row
    BY <1>6 DEF CallsInv, TypeOK
  <2>2. /\ row \in Row /\ row.attempts = payments[p].attempts
        /\ row.status # NONE
        /\ row.status = PENDING => AttemptsLeft(payments[p])
    <3>1. row \in Row /\ row.attempts = payments[p].attempts
      BY <2>1, RowTypes, RowAttempts
    <3>2. \/ row.status = PENDING /\ AttemptsLeft(payments[p])
          \/ row.status \in {FAILED, SUCCESS}
      BY <2>1, RowStatus
    <3>3. QED
      BY <3>1, <3>2 DEF PENDING, FAILED, SUCCESS, NONE
  <2>3. row.status = PENDING => AttemptsLeft(row)
    BY <2>2 DEF AttemptsLeft
  <2>4. payments' = [payments EXCEPT ![p] = row]
    BY <1>6
  <2> HIDE DEF row
  <2>5. /\ payments' \in [Payments -> Row]
        /\ \A q \in Payments : payments'[q].attempts = payments[q].attempts
        /\ NoRowNoAttempts'
        /\ AttemptsWithinBudget'
    BY <1>6, <2>1, <2>2, <2>3, <2>4, BudgetRewrite
  <2>6. calls' \in [Workers -> Call] /\ CallsInv'
    BY <1>6, <2>5, BudgetGoto
  <2>7. QED
    BY <1>6, <2>5, <2>6 DEF TypeOK
<1>7. ASSUME NEW w \in Workers, Settle(w)
      PROVE  BudgetInv'
  BY <1>6, <1>7 DEF Settle
<1>8. ASSUME NEW w \in Workers, Finish(w) \/ Crash(w)
      PROVE  BudgetInv'
  <2>1. calls' \in [Workers -> Call] /\ CallsInv'
    BY <1>8 DEF Finish, Crash, Idle, TypeOK, Call, CallsInv, InFlight
  <2>2. QED
    BY <1>8, <2>1 DEF Finish, Crash, TypeOK, NoRowNoAttempts, Exists,
                      AttemptsWithinBudget, AttemptsLeft
<1>9. ASSUME NEW w \in Workers, AckLost(w)
      PROVE  BudgetInv'
  <2> DEFINE p == calls[w].payment
  <2>1. CASE calls[w].pc = "claim"
    <3>1. p \in Payments /\ Claimable(payments[p])
      BY <1>9, <2>1 DEF AckLost, CallsInv
    <3>2. payments' = [payments EXCEPT ![p] = ClaimedRow(@)]
      BY <1>9, <2>1 DEF AckLost
    <3>3. /\ payments' \in [Payments -> Row]
          /\ \A q \in Payments : payments'[q].attempts >= payments[q].attempts
          /\ NoRowNoAttempts'
          /\ AttemptsWithinBudget'
      BY <1>9, <2>1, <3>1, <3>2, BudgetClaim DEF AckLost
    <3>4. /\ calls' \in [Workers -> Call]
          /\ \A v \in Workers : v # w => calls'[v] = calls[v]
          /\ calls'[w].payment = p /\ ~InFlight(w)'
      BY <1>9 DEF AckLost, Goto, TypeOK, Call, InFlight
    <3>5. CallsInv'
      <4> SUFFICES ASSUME NEW v \in Workers, v # w, InFlight(v)
                   PROVE  calls[v].attempt \in 1..payments'[calls[v].payment].attempts
        BY <3>1, <3>4 DEF CallsInv, InFlight
      <4>1. /\ calls[v].payment \in Payments
            /\ calls[v].attempt \in 1..payments[calls[v].payment].attempts
        BY DEF CallsInv, InFlight
      <4>2. /\ payments[calls[v].payment].attempts \in Nat
            /\ payments'[calls[v].payment].attempts \in Nat
        BY <3>3, <4>1 DEF TypeOK, Row
      <4>3. QED
        BY <3>3, <4>1, <4>2
    <3>6. QED
      BY <1>9, <3>3, <3>4, <3>5 DEF AckLost, TypeOK
  <2>2. CASE calls[w].pc # "claim"
    BY <1>6, <1>9, <2>2 DEF AckLost
  <2>3. QED
    BY <2>1, <2>2
<1>10. ASSUME NEW p \in Payments, NEW row \in Row,
              payments' = [payments EXCEPT ![p] = row],
              row.status # NONE, row.attempts = payments[p].attempts,
              row.status = PENDING => AttemptsLeft(row),
              UNCHANGED <<calls, charged, confirmed>>, events' \in [Events -> Event]
       PROVE  BudgetInv'
  <2>1. /\ payments' \in [Payments -> Row]
        /\ \A q \in Payments : payments'[q].attempts = payments[q].attempts
        /\ NoRowNoAttempts'
        /\ AttemptsWithinBudget'
    BY <1>10, BudgetRewrite
  <2>2. CallsInv'
    BY <1>10, <2>1 DEF CallsInv, InFlight
  <2>3. QED
    BY <1>10, <2>1, <2>2 DEF TypeOK
<1>11. ASSUME NEW p \in Payments, PaymentStep(p)
       PROVE  BudgetInv'
  <2> USE DEF PENDING, PROCESSING, SUCCESS, FAILED, NONE
  <2>0. payments[p] \in Row
    BY DEF TypeOK
  <2>1. CASE Create(p)
    <3>1. NewRow \in Row /\ NewRow.status = PENDING /\ NewRow.attempts = 0
      BY <2>0, RowTypes, RowStatus, RowAttempts
    <3>2. payments[p].attempts = 0
      BY <2>1 DEF Create, NoRowNoAttempts
    <3>3. AttemptsLeft(NewRow)
      BY <3>1, PaymentServiceAssumption DEF AttemptsLeft
    <3>4. QED
      BY <1>10, <2>1, <3>1, <3>2, <3>3 DEF Create, TypeOK
  <2>2. CASE BecomeStale(p)
    <3> DEFINE row == [payments[p] EXCEPT !.processing_started_at = "stale"]
    <3>1. /\ row \in Row /\ row.status = payments[p].status
          /\ row.attempts = payments[p].attempts
      BY <2>0 DEF Row
    <3>2. payments' = [payments EXCEPT ![p] = row] /\ row.status = PROCESSING
      BY <2>2, <3>1 DEF BecomeStale
    <3> HIDE DEF row
    <3>3. QED
      BY <1>10, <2>2, <3>1, <3>2 DEF BecomeStale, TypeOK
  <2>3. CASE RecoverStale(p)
    <3> DEFINE row == RecoveredRow(payments[p])
    <3>1. /\ row \in Row /\ row.attempts = payments[p].attempts
          /\ row.status # NONE
          /\ row.status = PENDING => AttemptsLeft(row)
      BY <2>0, RowTypes, RowAttempts, RowStatus DEF AttemptsLeft
    <3>2. payments' = [payments EXCEPT ![p] = row]
      BY <2>3 DEF RecoverStale
    <3> HIDE DEF row
    <3>3. QED
      BY <1>10, <2>3, <3>1, <3>2 DEF RecoverStale, TypeOK
  <2>4. CASE FailPayment(p)
    <3> DEFINE row == [payments[p] EXCEPT !.status = FAILED]
    <3>1. /\ row \in Row /\ row.status = FAILED
          /\ row.attempts = payments[p].attempts
      BY <2>0 DEF Row, ePaymentStatus
    <3>2. payments' = [payments EXCEPT ![p] = row]
      BY <2>4 DEF FailPayment
    <3> HIDE DEF row
    <3>3. QED
      BY <1>10, <2>4, <3>1, <3>2 DEF FailPayment, TypeOK
  <2>5. ASSUME NEW e \in Events, NEW target \in {SUCCESS, FAILED},
               NEW hasRef \in BOOLEAN, WebhookApplied(e, p, target, hasRef)
        PROVE  BudgetInv'
    <3> DEFINE row == WebhookRow(payments[p], target, hasRef)
    <3>1. row \in Row
      BY <2>0, RowTypes
    <3>2. row.attempts = payments[p].attempts
      BY <2>0 DEF WebhookRow, Row
    <3>3. row.status = target
      BY <2>0 DEF WebhookRow, Row
    <3>4. payments' = [payments EXCEPT ![p] = row]
      BY <2>5 DEF WebhookApplied
    <3> HIDE DEF row
    <3>5. events' \in [Events -> Event]
      BY <2>5 DEF WebhookApplied, TypeOK, Event
    <3>6. QED
      BY <1>10, <2>5, <3>1, <3>2, <3>3, <3>4, <3>5 DEF WebhookApplied
  <2>6. ASSUME NEW e \in Events, NEW target \in {SUCCESS, FAILED},
               WebhookIgnored(e, p, target)
        PROVE  BudgetInv'
    BY <2>6 DEF WebhookIgnored, TypeOK, Event, CallsInv, InFlight, NoRowNoAttempts,
                Exists, AttemptsWithinBudget, AttemptsLeft
  <2>7. QED
    BY <1>11, <2>1, <2>2, <2>3, <2>4, <2>5, <2>6 DEF PaymentStep, handleWebhook
<1>12. CASE UNCHANGED vars
  BY <1>12 DEF vars, TypeOK, CallsInv, InFlight, NoRowNoAttempts, Exists,
               AttemptsWithinBudget, AttemptsLeft
<1>13. QED
  BY <1>1, <1>2, <1>3, <1>4, <1>5, <1>7, <1>8, <1>9, <1>11, <1>12
  DEF Next, WorkerStep

(* The budget's invariant: types, counted attempts of the calls past their *)
(* claim, no attempts without a row, and the budget itself.                *)
THEOREM BudgetInvariant == Spec => []BudgetInv
<1>1. Init => BudgetInv
  BY BudgetInit
<1>2. BudgetInv /\ [Next]_vars => BudgetInv'
  BY BudgetStep
<1>3. QED
  BY <1>1, <1>2, PTL DEF Spec

(* Every variable keeps its type: the columns of a row, the steps of a     *)
(* call, and the charged attempts, which are never beyond the budget.      *)
THEOREM TypeCorrect == Spec => []TypeOK
<1>1. BudgetInv => TypeOK
  BY DEF BudgetInv
<1>2. QED
  BY <1>1, BudgetInvariant, PTL

(* Attempts are bounded by MAX_PAYMENT_ATTEMPTS, a PENDING payment has one *)
(* left and the gateway is only called for a counted attempt, whatever the *)
(* interleaving of workers, recoveries, crashes and callbacks.             *)
THEOREM WithinBudget == Spec => []AttemptsWithinBudget
<1>1. BudgetInv => AttemptsWithinBudget
  BY DEF BudgetInv
<1>2. QED
  BY <1>1, BudgetInvariant, PTL

----------------------------------------------------------------------------
(* One charge per attempt. *)

(* Nobody charges and nobody claims: calls go on, end or die. *)
LEMMA ChargeQuiet ==
  ASSUME OneChargePerAttempt, UNCHANGED charged,
         \A w \in Workers :
           /\ calls'[w].pc = "charge" => calls[w].pc = "charge"
           /\ InFlight(w)' =>
                /\ InFlight(w)
                /\ calls'[w].payment = calls[w].payment
                /\ calls'[w].attempt = calls[w].attempt
  PROVE  OneChargePerAttempt'
BY DEF OneChargePerAttempt, InFlight

(* A claim's attempt is beyond all that its payment has counted, and so    *)
(* beyond all that are charged or in flight.                               *)
LEMMA ChargeClaim ==
  ASSUME BudgetInv, OneChargePerAttempt, NEW w \in Workers, ClaimWon(w)
  PROVE  OneChargePerAttempt'
<1> DEFINE p == calls[w].payment
           n == payments[p].attempts
<1>1. p \in Payments /\ n \in Nat
  BY DEF ClaimWon, BudgetInv, CallsInv, TypeOK, Row
<1>2. /\ calls'[w].payment = p /\ calls'[w].attempt = n + 1
      /\ \A v \in Workers : v # w => calls'[v] = calls[v]
      /\ charged' = charged
  BY DEF ClaimWon, BudgetInv, TypeOK, Call
<1>3. n + 1 \notin charged[p]
  BY <1>1 DEF BudgetInv, AttemptsWithinBudget
<1>4. \A v \in Workers : InFlight(v) /\ calls[v].payment = p => calls[v].attempt # n + 1
  BY <1>1 DEF BudgetInv, CallsInv
<1> HIDE DEF n
<1>5. \A v \in Workers : v # w => InFlight(v)' = InFlight(v)
  BY <1>2 DEF InFlight
<1>6. ASSUME NEW v \in Workers, calls'[v].pc = "charge"
      PROVE  calls'[v].attempt \notin charged'[calls'[v].payment]
  BY <1>2, <1>3, <1>6 DEF OneChargePerAttempt
<1>7. ASSUME NEW u \in Workers, NEW v \in Workers, u # v, InFlight(u)', InFlight(v)',
             calls'[u].payment = calls'[v].payment
      PROVE  calls'[u].attempt # calls'[v].attempt
  <2>1. CASE u = w
    BY <1>2, <1>4, <1>5, <1>7, <2>1
  <2>2. CASE v = w
    BY <1>2, <1>4, <1>5, <1>7, <2>2
  <2>3. CASE u # w /\ v # w
    BY <1>2, <1>5, <1>7, <2>3 DEF OneChargePerAttempt
  <2>4. QED
    BY <2>1, <2>2, <2>3
<1>8. QED
  BY <1>6, <1>7 DEF OneChargePerAttempt

(* A charge spends its own attempt, which no other call holds. *)
LEMMA ChargeBegin ==
  ASSUME BudgetInv, OneChargePerAttempt, NEW w \in Workers, BeginCharge(w)
  PROVE  OneChargePerAttempt'
<1> DEFINE p == calls[w].payment
<1>1. /\ calls'[w].pc = "charging" /\ InFlight(w)
      /\ calls'[w].payment = p /\ calls'[w].attempt = calls[w].attempt
      /\ \A v \in Workers : v # w => calls'[v] = calls[v]
  BY DEF BeginCharge, Goto, BudgetInv, TypeOK, Call, InFlight
<1>2. /\ p \in Payments
      /\ charged' = [charged EXCEPT ![p] = @ \cup {calls[w].attempt}]
  BY DEF BeginCharge, BudgetInv, CallsInv
<1>3. ASSUME NEW v \in Workers, calls'[v].pc = "charge"
      PROVE  calls'[v].attempt \notin charged'[calls'[v].payment]
  <2>1. v # w /\ calls'[v] = calls[v] /\ InFlight(v) /\ calls[v].payment \in Payments
    BY <1>1, <1>3 DEF InFlight, BudgetInv, CallsInv
  <2>2. calls[v].attempt \notin charged[calls[v].payment]
    BY <1>3, <2>1 DEF OneChargePerAttempt
  <2>3. calls[v].payment = p => calls[v].attempt # calls[w].attempt
    BY <1>1, <2>1 DEF OneChargePerAttempt
  <2>4. QED
    BY <1>2, <2>1, <2>2, <2>3 DEF BudgetInv, TypeOK
<1>4. \A v \in Workers :
        InFlight(v)' => /\ InFlight(v)
                        /\ calls'[v].payment = calls[v].payment
                        /\ calls'[v].attempt = calls[v].attempt
  BY <1>1 DEF InFlight
<1>5. QED
  BY <1>3, <1>4 DEF OneChargePerAttempt

(* No step of the engine lets an attempt be charged twice: only a claim and *)
(* the start of a charge matter, and a step of a payment's other writers   *)
(* touches neither calls nor charges.                                      *)
LEMMA ChargeStep ==
  ASSUME BudgetInv, OneChargePerAttempt, [Next]_vars
  PROVE  OneChargePerAttempt'
<1>1. ASSUME NEW w \in Workers, NEW p \in Payments, StartProcess(w, p)
      PROVE  OneChargePerAttempt'
  BY <1>1, ChargeQuiet DEF StartProcess, Idle, BudgetInv, TypeOK, InFlight
<1>2. ASSUME NEW w \in Workers,
             \/ ClaimRefused(w) \/ SettleNoop(w) \/ Settle(w) \/ Rollback(w) \/ AckLost(w)
      PROVE  OneChargePerAttempt'
  <2>1. PICK pc \in {"returned", "threw"} : Goto(w, pc)
    BY <1>2 DEF ClaimRefused, SettleNoop, Settle, Rollback, AckLost
  <2>2. UNCHANGED charged
    BY <1>2 DEF ClaimRefused, SettleNoop, Settle, Rollback, AckLost
  <2>3. QED
    BY <2>1, <2>2, ChargeQuiet DEF Goto, BudgetInv, TypeOK, Call, InFlight
<1>3. ASSUME NEW w \in Workers, NEW outcome \in Outcome, EndCharge(w, outcome)
      PROVE  OneChargePerAttempt'
  BY <1>3, ChargeQuiet DEF EndCharge, BudgetInv, TypeOK, Call, InFlight
<1>4. ASSUME NEW w \in Workers, Finish(w) \/ Crash(w)
      PROVE  OneChargePerAttempt'
  BY <1>4, ChargeQuiet DEF Finish, Crash, Idle, BudgetInv, TypeOK, InFlight
<1>5. ASSUME UNCHANGED <<calls, charged>>
      PROVE  OneChargePerAttempt'
  BY <1>5 DEF OneChargePerAttempt, InFlight
<1>6. ASSUME NEW p \in Payments, PaymentStep(p)
      PROVE  OneChargePerAttempt'
  BY <1>5, <1>6 DEF PaymentStep, Create, BecomeStale, RecoverStale, FailPayment,
                    handleWebhook, WebhookApplied, WebhookIgnored
<1>7. QED
  BY <1>1, <1>2, <1>3, <1>4, <1>5, <1>6, ChargeClaim, ChargeBegin
  DEF Next, WorkerStep, vars

(* Each claimed attempt reaches the gateway at most once, whatever number  *)
(* of workers, recoveries and crashes there are.                           *)
THEOREM ChargedOnce == Spec => []OneChargePerAttempt
<1>1. Init => OneChargePerAttempt
  BY DEF Init, OneChargePerAttempt, InFlight, Idle
<1>2. BudgetInv /\ OneChargePerAttempt /\ [Next]_vars => OneChargePerAttempt'
  BY ChargeStep
<1>3. QED
  BY <1>1, <1>2, BudgetInvariant, PTL DEF Spec

----------------------------------------------------------------------------
(* What a step does to the table. *)

(* The moves of a row: all that the transactions may make of it. *)
RowMove(p, row) ==
  LET old == payments[p] IN
  \/ old.status = NONE /\ row = NewRow
  \/ Claimable(old) /\ row = ClaimedRow(old)
  \/ /\ Settleable(old)
     /\ \E w \in Workers : /\ calls[w].pc = "settle"
                           /\ calls[w].payment = p
                           /\ row = SettledRow(old, calls[w].outcome)
  \/ old.status = PROCESSING /\ row = [old EXCEPT !.processing_started_at = "stale"]
  \/ old.status = PROCESSING /\ row = RecoveredRow(old)
  \/ canTransition(old.status, FAILED) /\ row = [old EXCEPT !.status = FAILED]
  \/ \E target \in {SUCCESS, FAILED}, hasRef \in BOOLEAN :
       canTransition(old.status, target) /\ row = WebhookRow(old, target, hasRef)

(* A step changes at most one row, by one of these moves. *)
LEMMA TableStep ==
  ASSUME BudgetInv, [Next]_vars
  PROVE  \/ UNCHANGED payments
         \/ \E p \in Payments : \E row :
              RowMove(p, row) /\ payments' = [payments EXCEPT ![p] = row]
<1>1. ASSUME NEW w \in Workers, WorkerStep(w)
      PROVE  \/ UNCHANGED payments
             \/ \E p \in Payments : \E row :
                  RowMove(p, row) /\ payments' = [payments EXCEPT ![p] = row]
  <2> DEFINE p == calls[w].payment
  <2>1. calls[w].pc # "idle" => p \in Payments
    BY DEF BudgetInv, CallsInv
  <2>2. CASE ClaimWon(w)
    <3>1. RowMove(p, ClaimedRow(payments[p]))
      BY <2>2 DEF ClaimWon, RowMove
    <3>2. payments' = [payments EXCEPT ![p] = ClaimedRow(payments[p])]
      BY <2>2 DEF ClaimWon
    <3>3. QED
      BY <2>1, <2>2, <3>1, <3>2 DEF ClaimWon
  <2>3. ASSUME calls[w].pc = "settle", Settleable(payments[p]),
               payments' = [payments EXCEPT ![p] = SettledRow(@, calls[w].outcome)]
        PROVE  \E q \in Payments : \E row :
                 RowMove(q, row) /\ payments' = [payments EXCEPT ![q] = row]
    <3>1. RowMove(p, SettledRow(payments[p], calls[w].outcome))
      BY <2>3 DEF RowMove
    <3>2. payments' = [payments EXCEPT ![p] = SettledRow(payments[p], calls[w].outcome)]
      BY <2>3
    <3>3. QED
      BY <2>1, <2>3, <3>1, <3>2
  <2>4. CASE Settle(w)
    BY <2>3, <2>4 DEF Settle
  <2>5. CASE AckLost(w)
    <3>1. CASE calls[w].pc = "claim"
      <4>1. RowMove(p, ClaimedRow(payments[p]))
        BY <2>5, <3>1 DEF AckLost, RowMove
      <4>2. payments' = [payments EXCEPT ![p] = ClaimedRow(payments[p])]
        BY <2>5, <3>1 DEF AckLost
      <4>3. QED
        BY <2>1, <3>1, <4>1, <4>2
    <3>2. CASE calls[w].pc # "claim"
      BY <2>3, <2>5, <3>2 DEF AckLost
    <3>3. QED
      BY <3>1, <3>2
  <2>6. CASE ~(ClaimWon(w) \/ Settle(w) \/ AckLost(w))
    BY <1>1, <2>6 DEF WorkerStep, StartProcess, ClaimRefused, BeginCharge, EndCharge,
                      SettleNoop, Finish, Rollback, Crash
  <2>7. QED
    BY <2>2, <2>4, <2>5, <2>6
<1>2. ASSUME NEW p \in Payments, PaymentStep(p)
      PROVE  \/ UNCHANGED payments
             \/ \E row : RowMove(p, row) /\ payments' = [payments EXCEPT ![p] = row]
  <2>1. CASE Create(p)
    BY <2>1 DEF Create, Exists, RowMove
  <2>2. CASE BecomeStale(p)
    <3>1. RowMove(p, [payments[p] EXCEPT !.processing_started_at = "stale"])
      BY <2>2 DEF BecomeStale, RowMove
    <3>2. QED
      BY <2>2, <3>1 DEF BecomeStale
  <2>3. CASE RecoverStale(p)
    <3>1. RowMove(p, RecoveredRow(payments[p]))
      BY <2>3 DEF RecoverStale, RowMove
    <3>2. payments' = [payments EXCEPT ![p] = RecoveredRow(payments[p])]
      BY <2>3 DEF RecoverStale
    <3>3. QED
      BY <3>1, <3>2
  <2>4. CASE FailPayment(p)
    <3>1. RowMove(p, [payments[p] EXCEPT !.status = FAILED])
      BY <2>4 DEF FailPayment, RowMove
    <3>2. QED
      BY <2>4, <3>1 DEF FailPayment
  <2>5. ASSUME NEW e \in Events, NEW target \in {SUCCESS, FAILED},
               NEW hasRef \in BOOLEAN, WebhookApplied(e, p, target, hasRef)
        PROVE  \E row : RowMove(p, row) /\ payments' = [payments EXCEPT ![p] = row]
    <3>1. RowMove(p, WebhookRow(payments[p], target, hasRef))
      BY <2>5 DEF WebhookApplied, RowMove
    <3>2. payments' = [payments EXCEPT ![p] = WebhookRow(payments[p], target, hasRef)]
      BY <2>5 DEF WebhookApplied
    <3>3. QED
      BY <3>1, <3>2
  <2>6. ASSUME NEW e \in Events, NEW target \in {SUCCESS, FAILED},
               WebhookIgnored(e, p, target)
        PROVE  UNCHANGED payments
    BY <2>6 DEF WebhookIgnored
  <2>7. QED
    BY <1>2, <2>1, <2>2, <2>3, <2>4, <2>5, <2>6 DEF PaymentStep, handleWebhook
<1>3. QED
  BY <1>1, <1>2 DEF Next, vars

(* No move starts from a settled row. *)
LEMMA SettledRowsStay ==
  ASSUME BudgetInv, NEW p \in Payments, NEW row, RowMove(p, row)
  PROVE  ~isTerminal(payments[p].status)
BY DEF RowMove, Claimable, Settleable, isTerminal, canTransition, transitions,
       ePaymentStatus, PENDING, PROCESSING, SUCCESS, FAILED, NONE

(* A settled row keeps every column, whoever steps. *)
THEOREM SettledRowsFrozen == Spec => TerminalRowsFrozen
<1>1. BudgetInv /\ [Next]_vars =>
        [\A p \in Payments :
           isTerminal(payments[p].status) => payments'[p] = payments[p]]_vars
  <2> SUFFICES ASSUME BudgetInv, [Next]_vars, NEW p \in Payments,
                      isTerminal(payments[p].status)
               PROVE  payments'[p] = payments[p]
    OBVIOUS
  <2>1. CASE UNCHANGED payments
    BY <2>1
  <2>2. ASSUME NEW q \in Payments, NEW row, RowMove(q, row),
               payments' = [payments EXCEPT ![q] = row]
        PROVE  payments'[p] = payments[p]
    <3>1. q # p
      BY <2>2, SettledRowsStay
    <3>2. QED
      BY <2>2, <3>1 DEF BudgetInv, TypeOK
  <2>3. QED
    BY <2>1, <2>2, TableStep
<1>2. QED
  BY <1>1, BudgetInvariant, PTL DEF Spec, TerminalRowsFrozen

(* Every PROCESSING row carries a processing_started_at, so every claim    *)
(* that is abandoned can be found by a sweep.                              *)
THEOREM ClaimsAreSweepable == Spec => []SweepableClaims
<1>1. Init => SweepableClaims
  BY DEF Init, SweepableClaims, NoRow, NONE, PROCESSING
<1>2. BudgetInv /\ SweepableClaims /\ [Next]_vars => SweepableClaims'
  <2> SUFFICES ASSUME BudgetInv, SweepableClaims, [Next]_vars
               PROVE  SweepableClaims'
    OBVIOUS
  <2>1. CASE UNCHANGED payments
    BY <2>1 DEF SweepableClaims
  <2>2. ASSUME NEW q \in Payments, NEW row, RowMove(q, row),
               payments' = [payments EXCEPT ![q] = row]
        PROVE  SweepableClaims'
    <3>1. payments[q] \in Row
      BY DEF BudgetInv, TypeOK
    <3>2. row.status = PROCESSING => row.processing_started_at # "null"
      BY <2>2, <3>1
      DEF RowMove, Row, NewRow, NoRow, ClaimedRow, SettledRow, ReleasedRow, RecoveredRow,
          WebhookRow, PENDING, PROCESSING, SUCCESS, FAILED
    <3>3. QED
      BY <2>2, <3>2 DEF SweepableClaims, BudgetInv, TypeOK
  <2>3. QED
    BY <2>1, <2>2, TableStep
<1>3. QED
  BY <1>1, <1>2, BudgetInvariant, PTL DEF Spec

----------------------------------------------------------------------------
(* The engine implements the lifecycle. *)

(* A move of a row is a step of the lifecycle, or only ages the claim. *)
LEMMA MoveImplements ==
  ASSUME BudgetInv, NEW p \in Payments, NEW row, RowMove(p, row),
         payments' = [payments EXCEPT ![p] = row]
  PROVE  [Lifecycle!Next]_(Lifecycle!vars)
<1> USE DEF Lifecycle!NONE, Lifecycle!PENDING, Lifecycle!PROCESSING,
           Lifecycle!SUCCESS, Lifecycle!FAILED,
           NONE, PENDING, PROCESSING, SUCCESS, FAILED
<1> DEFINE old == payments[p]
<1>1. old \in Row /\ payments \in [Payments -> Row]
  BY DEF BudgetInv, TypeOK
<1>2. /\ [q \in Payments |-> payments'[q].status] =
           [[q \in Payments |-> payments[q].status] EXCEPT ![p] = row.status]
      /\ [q \in Payments |-> payments'[q].attempts] =
           [[q \in Payments |-> payments[q].attempts] EXCEPT ![p] = row.attempts]
  BY <1>1
<1>3. row.attempts = old.attempts =>
        [q \in Payments |-> payments'[q].attempts] =
          [q \in Payments |-> payments[q].attempts]
  BY <1>1, <1>2
<1>4. old.status = PENDING => old.attempts < MAX_PAYMENT_ATTEMPTS
  BY DEF BudgetInv, AttemptsWithinBudget, AttemptsLeft
<1>5. old.status = NONE => old.attempts = 0
  BY DEF BudgetInv, NoRowNoAttempts, Exists
<1>6. CASE old.status = NONE /\ row = NewRow
  <2>1. row.status = PENDING /\ row.attempts = old.attempts
    BY <1>5, <1>6 DEF NewRow, NoRow
  <2>2. Lifecycle!Create(p)
    BY <1>2, <1>3, <1>6, <2>1 DEF Lifecycle!Create
  <2>3. QED
    BY <2>2 DEF Lifecycle!Next
<1>7. CASE Claimable(old) /\ row = ClaimedRow(old)
  <2>1. row.status = PROCESSING /\ row.attempts = old.attempts + 1
    BY <1>1, <1>7, RowStatus, RowAttempts
  <2>2. Lifecycle!Attempt(p)
    BY <1>2, <1>4, <1>7, <2>1 DEF Lifecycle!Attempt, Claimable
  <2>3. QED
    BY <2>2 DEF Lifecycle!Next
<1>8. ASSUME old.status = PROCESSING, row.attempts = old.attempts,
             \/ row.status = PENDING /\ AttemptsLeft(old)
             \/ row.status \in {SUCCESS, FAILED}
             \/ row.status = old.status
      PROVE  [Lifecycle!Next]_(Lifecycle!vars)
  <2>1. CASE row.status = PENDING /\ AttemptsLeft(old)
    <3>1. Lifecycle!Release(p)
      BY <1>2, <1>3, <1>8, <2>1 DEF Lifecycle!Release, AttemptsLeft
    <3>2. QED
      BY <3>1 DEF Lifecycle!Next
  <2>2. CASE row.status \in {SUCCESS, FAILED}
    <3>1. Lifecycle!Settle(p, row.status)
      BY <1>2, <1>3, <1>8, <2>2 DEF Lifecycle!Settle
    <3>2. QED
      BY <2>2, <3>1 DEF Lifecycle!Next
  <2>3. CASE row.status = old.status
    BY <1>1, <1>2, <1>3, <1>8, <2>3 DEF Lifecycle!vars
  <2>4. QED
    BY <1>8, <2>1, <2>2, <2>3
<1>9. ASSUME NEW outcome, Settleable(old), row = SettledRow(old, outcome)
      PROVE  [Lifecycle!Next]_(Lifecycle!vars)
  <2>1. row.attempts = old.attempts
    BY <1>1, <1>9, RowAttempts
  <2>2. \/ row.status = PENDING /\ AttemptsLeft(old)
        \/ row.status \in {SUCCESS, FAILED}
    BY <1>1, <1>9, RowStatus
  <2>3. QED
    BY <1>8, <1>9, <2>1, <2>2 DEF Settleable
<1>10. CASE old.status = PROCESSING /\ row = [old EXCEPT !.processing_started_at = "stale"]
  <2>1. row.attempts = old.attempts /\ row.status = old.status
    BY <1>1, <1>10 DEF Row
  <2>2. QED
    BY <1>8, <1>10, <2>1
<1>11. CASE old.status = PROCESSING /\ row = RecoveredRow(old)
  <2>1. row.attempts = old.attempts
    BY <1>1, <1>11, RowAttempts
  <2>2. \/ row.status = PENDING /\ AttemptsLeft(old)
        \/ row.status = FAILED
    BY <1>1, <1>11, RowStatus
  <2>3. QED
    BY <1>8, <1>11, <2>1, <2>2
<1>12. ASSUME NEW target \in {SUCCESS, FAILED}, canTransition(old.status, target),
              row.status = target, row.attempts = old.attempts
       PROVE  [Lifecycle!Next]_(Lifecycle!vars)
  <2>1. old.status \in {PENDING, PROCESSING}
    BY <1>12 DEF canTransition, transitions, ePaymentStatus,
                 PENDING, PROCESSING, SUCCESS, FAILED
  <2>2. Lifecycle!Settle(p, target)
    BY <1>2, <1>3, <1>12, <2>1 DEF Lifecycle!Settle
  <2>3. QED
    BY <2>2 DEF Lifecycle!Next
<1>13. CASE canTransition(old.status, FAILED) /\ row = [old EXCEPT !.status = FAILED]
  <2>1. row.status = FAILED /\ row.attempts = old.attempts
    BY <1>1, <1>13 DEF Row
  <2>2. QED
    BY <1>12, <1>13, <2>1
<1>14. ASSUME NEW target \in {SUCCESS, FAILED}, NEW hasRef \in BOOLEAN,
              canTransition(old.status, target), row = WebhookRow(old, target, hasRef)
       PROVE  [Lifecycle!Next]_(Lifecycle!vars)
  <2>1. row.status = target /\ row.attempts = old.attempts
    BY <1>1, <1>14 DEF WebhookRow, Row
  <2>2. QED
    BY <1>12, <1>14, <2>1
<1>15. QED
  BY <1>6, <1>7, <1>9, <1>10, <1>11, <1>13, <1>14 DEF RowMove

(* The engine implements the lifecycle it promises: whatever workers,      *)
(* recoveries, callbacks and crashes do, a payment only makes the moves of *)
(* PaymentLifecycle.                                                       *)
THEOREM EngineImplementsLifecycle == Spec => ImplementsLifecycle
<1>1. Init => Lifecycle!Init
  BY DEF Init, Lifecycle!Init, NoRow, NONE, Lifecycle!NONE
<1>2. BudgetInv /\ [Next]_vars => [Lifecycle!Next]_(Lifecycle!vars)
  <2> SUFFICES ASSUME BudgetInv, [Next]_vars
               PROVE  [Lifecycle!Next]_(Lifecycle!vars)
    OBVIOUS
  <2>1. CASE UNCHANGED payments
    BY <2>1 DEF Lifecycle!vars
  <2>2. QED
    BY <2>1, TableStep, MoveImplements
<1>3. QED
  BY <1>1, <1>2, BudgetInvariant, PTL DEF Spec, ImplementsLifecycle, Lifecycle!Spec

----------------------------------------------------------------------------
(* Settlement: where a SUCCESS comes from, and what callbacks decide. *)

(* An answer of success is remembered, and only SUCCESS rows carry a       *)
(* reference.                                                              *)
ConfirmedCalls ==
  \A w \in Workers :
    calls[w].pc = "settle" /\ Succeeded(calls[w].outcome) =>
      calls[w].payment \in confirmed

ReferencesAreSettled ==
  \A p \in Payments :
    payments[p].status # SUCCESS => payments[p].provider_ref = "null"

(* A recorded callback names a payment and reports a final status. *)
EventsAreComplete ==
  \A e \in Events :
    events[e].status # "none" =>
      /\ events[e].payment \in Payments
      /\ events[e].reported \in {SUCCESS, FAILED}

SettlementInv ==
  /\ ConfirmedCalls /\ ReferencesAreSettled /\ EventsAreComplete
  /\ NoFalseSuccess /\ ProcessedEventDecides /\ IgnoredEventIsMoot

(* Nothing is confirmed, settled or recorded at the start.                 *)
LEMMA SettlementInit ==
  ASSUME Init PROVE SettlementInv
BY DEF Init, SettlementInv, ConfirmedCalls, ReferencesAreSettled, EventsAreComplete,
       NoFalseSuccess, ProcessedEventDecides, IgnoredEventIsMoot,
       Idle, NoRow, NoEvent, NONE, SUCCESS

(* The moves other than a callback's: they reach SUCCESS only with a       *)
(* confirmed answer, and leave no reference on an unsettled row.           *)
LEMMA SettlementRow ==
  ASSUME BudgetInv, SettlementInv, UNCHANGED events,
         confirmed \subseteq confirmed',
         NEW p \in Payments, NEW row \in Row, ~isTerminal(payments[p].status),
         payments' = [payments EXCEPT ![p] = row],
         row.status = SUCCESS => row.provider_ref = "gateway" /\ p \in confirmed',
         row.status # SUCCESS => row.provider_ref = "null"
  PROVE  /\ ReferencesAreSettled' /\ EventsAreComplete'
         /\ NoFalseSuccess' /\ ProcessedEventDecides' /\ IgnoredEventIsMoot'
<1> USE DEF SettlementInv
<1>1. payments'[p] = row /\ \A q \in Payments : q # p => payments'[q] = payments[q]
  BY DEF BudgetInv, TypeOK
<1>2. ReferencesAreSettled'
  BY <1>1 DEF ReferencesAreSettled
<1>3. EventsAreComplete'
  BY DEF EventsAreComplete
<1>4. NoFalseSuccess'
  BY <1>1 DEF NoFalseSuccess
<1>5. \A e \in Events : events[e].status \in {"processed", "ignored"} => events[e].payment # p
  <2> SUFFICES ASSUME NEW e \in Events, events[e].status \in {"processed", "ignored"},
                      events[e].payment = p
               PROVE  isTerminal(payments[p].status)
    OBVIOUS
  <2>1. CASE events[e].status = "processed"
    BY <2>1 DEF ProcessedEventDecides, EventsAreComplete, isTerminal, transitions,
                ePaymentStatus, PENDING, PROCESSING, SUCCESS, FAILED
  <2>2. CASE events[e].status = "ignored"
    BY <2>2 DEF IgnoredEventIsMoot
  <2>3. QED
    BY <2>1, <2>2
<1>6. ProcessedEventDecides'
  BY <1>1, <1>5 DEF ProcessedEventDecides, EventsAreComplete
<1>7. IgnoredEventIsMoot'
  BY <1>1, <1>5 DEF IgnoredEventIsMoot, EventsAreComplete
<1>8. QED
  BY <1>2, <1>3, <1>4, <1>6, <1>7

(* A callback that is applied is the only one that ever decides its        *)
(* payment, since until then the payment was not settled.                  *)
LEMMA SettlementApplied ==
  ASSUME BudgetInv, SettlementInv, NEW e \in Events, NEW p \in Payments,
         NEW target \in {SUCCESS, FAILED}, NEW hasRef \in BOOLEAN,
         WebhookApplied(e, p, target, hasRef)
  PROVE  SettlementInv'
<1> USE DEF SettlementInv
<1> DEFINE row == WebhookRow(payments[p], target, hasRef)
           event == [payment |-> p, reported |-> target, status |-> "processed"]
<1>1. /\ events[e].status = "none"
      /\ canTransition(payments[p].status, target)
      /\ UNCHANGED <<calls, confirmed>>
  BY DEF WebhookApplied
<1>2. payments'[p] = row /\ \A q \in Payments : q # p => payments'[q] = payments[q]
  BY DEF WebhookApplied, BudgetInv, TypeOK
<1>3. events'[e] = event /\ \A f \in Events : f # e => events'[f] = events[f]
  BY DEF WebhookApplied, BudgetInv, TypeOK
<1>4. ~isTerminal(payments[p].status) /\ payments[p].status # SUCCESS
  BY <1>1 DEF canTransition, isTerminal, transitions, ePaymentStatus,
              PENDING, PROCESSING, SUCCESS, FAILED
<1>5. payments[p] \in Row /\ payments[p].provider_ref = "null"
  BY <1>4 DEF ReferencesAreSettled, BudgetInv, TypeOK
<1>6. /\ row.status = target
      /\ row.provider_ref # "gateway"
      /\ target = FAILED => row.provider_ref = "null"
  BY <1>5 DEF WebhookRow, Row, SUCCESS, FAILED
<1> HIDE DEF row
<1>7. ConfirmedCalls'
  BY <1>1 DEF ConfirmedCalls
<1>8. ReferencesAreSettled'
  BY <1>2, <1>6 DEF ReferencesAreSettled, SUCCESS, FAILED
<1>9. EventsAreComplete'
  BY <1>3 DEF EventsAreComplete
<1>10. NoFalseSuccess'
  <2> SUFFICES ASSUME NEW q \in Payments, payments'[q].status = SUCCESS
               PROVE  IF payments'[q].provider_ref = "gateway"
                        THEN q \in confirmed'
                        ELSE \E f \in Events :
                               events'[f] = [payment |-> q, reported |-> SUCCESS,
                                             status |-> "processed"]
    BY DEF NoFalseSuccess
  <2>1. CASE q = p
    BY <1>2, <1>3, <1>6, <2>1
  <2>2. CASE q # p
    BY <1>1, <1>2, <1>3, <2>2 DEF NoFalseSuccess
  <2>3. QED
    BY <2>1, <2>2
<1>11. \A f \in Events : events[f].status \in {"processed", "ignored"} => events[f].payment # p
  <2> SUFFICES ASSUME NEW f \in Events, events[f].status \in {"processed", "ignored"},
                      events[f].payment = p
               PROVE  isTerminal(payments[p].status)
    BY <1>4
  <2>1. CASE events[f].status = "processed"
    BY <2>1 DEF ProcessedEventDecides, EventsAreComplete, isTerminal, transitions,
                ePaymentStatus, PENDING, PROCESSING, SUCCESS, FAILED
  <2>2. CASE events[f].status = "ignored"
    BY <2>2 DEF IgnoredEventIsMoot
  <2>3. QED
    BY <2>1, <2>2
<1>12. ProcessedEventDecides'
  <2> SUFFICES ASSUME NEW f \in Events, events'[f].status = "processed"
               PROVE  /\ payments'[events'[f].payment].status = events'[f].reported
                      /\ \A g \in Events :
                           events'[g].status = "processed" /\ events'[g].payment = events'[f].payment
                           => g = f
    BY DEF ProcessedEventDecides
  <2>1. CASE f = e
    BY <1>2, <1>3, <1>6, <1>11, <2>1
  <2>2. CASE f # e
    <3>1. events'[f] = events[f] /\ events[f].payment # p /\ events[f].payment \in Payments
      BY <1>3, <1>11, <2>2 DEF EventsAreComplete
    <3>2. QED
      BY <1>2, <1>3, <3>1 DEF ProcessedEventDecides
  <2>3. QED
    BY <2>1, <2>2
<1>13. IgnoredEventIsMoot'
  BY <1>2, <1>3, <1>11 DEF IgnoredEventIsMoot, EventsAreComplete
<1>14. QED
  BY <1>7, <1>8, <1>9, <1>10, <1>12, <1>13

(* A callback is ignored because its payment is settled already. *)
LEMMA SettlementIgnored ==
  ASSUME BudgetInv, SettlementInv, NEW e \in Events, NEW p \in Payments,
         NEW target \in {SUCCESS, FAILED}, WebhookIgnored(e, p, target)
  PROVE  SettlementInv'
<1> USE DEF SettlementInv
<1>1. UNCHANGED <<payments, calls, confirmed>> /\ events[e].status = "none"
  BY DEF WebhookIgnored
<1>2. /\ events'[e] = [payment |-> p, reported |-> target, status |-> "ignored"]
      /\ \A f \in Events : f # e => events'[f] = events[f]
  BY DEF WebhookIgnored, BudgetInv, TypeOK
<1>3. isTerminal(payments[p].status)
  <2>1. payments[p].status \in ePaymentStatus /\ ~canTransition(payments[p].status, target)
    BY DEF WebhookIgnored, Exists, BudgetInv, TypeOK, Row
  <2>2. QED
    BY <2>1 DEF canTransition, isTerminal, transitions, ePaymentStatus,
                PENDING, PROCESSING, SUCCESS, FAILED
<1>4. ConfirmedCalls' /\ ReferencesAreSettled'
  BY <1>1 DEF ConfirmedCalls, ReferencesAreSettled
<1>5. EventsAreComplete'
  BY <1>2 DEF EventsAreComplete
<1>6. NoFalseSuccess'
  <2> SUFFICES ASSUME NEW q \in Payments, payments[q].status = SUCCESS,
                      payments[q].provider_ref # "gateway"
               PROVE  \E f \in Events :
                        events'[f] = [payment |-> q, reported |-> SUCCESS,
                                      status |-> "processed"]
    BY <1>1 DEF NoFalseSuccess
  <2>1. PICK f \in Events :
          events[f] = [payment |-> q, reported |-> SUCCESS, status |-> "processed"]
    BY DEF NoFalseSuccess
  <2>2. events'[f] = events[f]
    BY <1>1, <1>2, <2>1
  <2>3. QED
    BY <2>1, <2>2
<1>7. ProcessedEventDecides'
  BY <1>1, <1>2 DEF ProcessedEventDecides
<1>8. IgnoredEventIsMoot'
  BY <1>1, <1>2, <1>3 DEF IgnoredEventIsMoot
<1>9. QED
  BY <1>4, <1>5, <1>6, <1>7, <1>8

(* Every step of the engine preserves the settlement's invariant.          *)
LEMMA SettlementStep ==
  ASSUME BudgetInv, BudgetInv', SettlementInv, [Next]_vars
  PROVE  SettlementInv'
<1> USE DEF SettlementInv
<1>1. ASSUME UNCHANGED <<payments, events>>, confirmed \subseteq confirmed', ConfirmedCalls'
      PROVE  SettlementInv'
  BY <1>1 DEF ReferencesAreSettled, EventsAreComplete, NoFalseSuccess,
              ProcessedEventDecides, IgnoredEventIsMoot
<1>2. ASSUME NEW w \in Workers, NEW p \in Payments, StartProcess(w, p)
      PROVE  SettlementInv'
  BY <1>1, <1>2 DEF StartProcess, Idle, ConfirmedCalls, BudgetInv, TypeOK
<1>3. ASSUME NEW w \in Workers,
             \/ ClaimRefused(w) \/ BeginCharge(w) \/ SettleNoop(w) \/ Rollback(w)
             \/ Finish(w) \/ Crash(w)
      PROVE  SettlementInv'
  <2>1. /\ UNCHANGED <<payments, events, confirmed>>
        /\ \A v \in Workers : v # w => calls'[v] = calls[v]
        /\ calls'[w].pc # "settle"
    BY <1>3 DEF ClaimRefused, BeginCharge, SettleNoop, Rollback, Finish, Crash, Idle,
                Goto, BudgetInv, TypeOK, Call
  <2>2. QED
    BY <1>1, <2>1 DEF ConfirmedCalls
<1>4. ASSUME NEW w \in Workers, NEW outcome \in Outcome, EndCharge(w, outcome)
      PROVE  SettlementInv'
  <2>1. /\ UNCHANGED <<payments, events>> /\ confirmed \subseteq confirmed'
        /\ \A v \in Workers : v # w => calls'[v] = calls[v]
        /\ calls'[w].payment = calls[w].payment /\ calls'[w].outcome = outcome
        /\ Succeeded(outcome) => calls[w].payment \in confirmed'
    BY <1>4 DEF EndCharge, BudgetInv, TypeOK, Call, Succeeded
  <2>2. ConfirmedCalls'
    BY <2>1 DEF ConfirmedCalls
  <2>3. QED
    BY <1>1, <2>1, <2>2
<1>5. ASSUME NEW p \in Payments, NEW row, payments' = [payments EXCEPT ![p] = row],
             UNCHANGED <<events, confirmed>>, ConfirmedCalls',
             ~isTerminal(payments[p].status),
             row.status = SUCCESS => row.provider_ref = "gateway" /\ p \in confirmed,
             row.status # SUCCESS => row.provider_ref = "null"
      PROVE  SettlementInv'
  <2>1. row \in Row
    BY <1>5 DEF BudgetInv, TypeOK
  <2>2. QED
    BY <1>5, <2>1, SettlementRow
<1>6. ASSUME NEW p \in Payments, ~isTerminal(payments[p].status)
      PROVE  payments[p] \in Row /\ payments[p].status # SUCCESS
             /\ payments[p].provider_ref = "null"
  BY <1>6 DEF ReferencesAreSettled, BudgetInv, TypeOK, isTerminal, transitions,
              ePaymentStatus, PENDING, PROCESSING, SUCCESS, FAILED
<1>7. ASSUME NEW p \in Payments,
             payments[p].status \in {NONE, PENDING, PROCESSING}
      PROVE  ~isTerminal(payments[p].status)
  BY <1>7 DEF isTerminal, transitions, ePaymentStatus,
              NONE, PENDING, PROCESSING, SUCCESS, FAILED
<1>8. ASSUME NEW w \in Workers, NEW p \in Payments, p = calls[w].payment,
             Claimable(payments[p]),
             payments' = [payments EXCEPT ![p] = ClaimedRow(@)],
             UNCHANGED <<events, confirmed>>, ConfirmedCalls'
      PROVE  SettlementInv'
  <2> DEFINE row == ClaimedRow(payments[p])
  <2>1. ~isTerminal(payments[p].status)
    BY <1>7, <1>8 DEF Claimable
  <2>2. row.status # SUCCESS /\ row.provider_ref = "null"
    BY <1>6, <2>1 DEF ClaimedRow, Row, PROCESSING, SUCCESS
  <2>3. payments' = [payments EXCEPT ![p] = row]
    BY <1>8
  <2> HIDE DEF row
  <2>4. QED
    BY <1>5, <1>8, <2>1, <2>2, <2>3
<1>9. ASSUME NEW w \in Workers, NEW p \in Payments, p = calls[w].payment,
             calls[w].pc = "settle", Settleable(payments[p]),
             payments' = [payments EXCEPT ![p] = SettledRow(@, calls[w].outcome)],
             UNCHANGED <<events, confirmed>>, ConfirmedCalls'
      PROVE  SettlementInv'
  <2> DEFINE row == SettledRow(payments[p], calls[w].outcome)
  <2>1. ~isTerminal(payments[p].status)
    BY <1>7, <1>9 DEF Settleable
  <2>2. /\ row.status = SUCCESS =>
             row.provider_ref = "gateway" /\ Succeeded(calls[w].outcome)
        /\ row.status # SUCCESS => row.provider_ref = "null"
    BY <1>6, <2>1 DEF SettledRow, ReleasedRow, Row, PENDING, SUCCESS, FAILED
  <2>3. Succeeded(calls[w].outcome) => p \in confirmed
    BY <1>9 DEF ConfirmedCalls
  <2>4. payments' = [payments EXCEPT ![p] = row]
    BY <1>9
  <2> HIDE DEF row
  <2>5. QED
    BY <1>5, <1>9, <2>1, <2>2, <2>3, <2>4
<1>10. ASSUME NEW w \in Workers, ClaimWon(w) \/ Settle(w) \/ AckLost(w)
       PROVE  SettlementInv'
  <2> DEFINE p == calls[w].payment
  <2>1. p \in Payments /\ UNCHANGED <<events, confirmed>>
    BY <1>10 DEF ClaimWon, Settle, AckLost, BudgetInv, CallsInv
  <2>2. /\ \A v \in Workers : v # w => calls'[v] = calls[v]
        /\ calls'[w].pc # "settle"
    BY <1>10 DEF ClaimWon, Settle, AckLost, Goto, BudgetInv, TypeOK, Call
  <2>3. ConfirmedCalls'
    BY <2>1, <2>2 DEF ConfirmedCalls
  <2>4. CASE calls[w].pc = "claim"
    BY <1>8, <1>10, <2>1, <2>3, <2>4 DEF ClaimWon, Settle, AckLost
  <2>5. CASE calls[w].pc = "settle"
    BY <1>9, <1>10, <2>1, <2>3, <2>5 DEF ClaimWon, Settle, AckLost
  <2>6. QED
    BY <1>10, <2>4, <2>5 DEF ClaimWon, Settle, AckLost
<1>11. ASSUME NEW p \in Payments,
              Create(p) \/ BecomeStale(p) \/ RecoverStale(p) \/ FailPayment(p)
       PROVE  SettlementInv'
  <2>1. UNCHANGED <<events, calls, confirmed>> /\ payments \in [Payments -> Row]
    BY <1>11 DEF Create, BecomeStale, RecoverStale, FailPayment, BudgetInv, TypeOK
  <2>2. ConfirmedCalls'
    BY <2>1 DEF ConfirmedCalls
  <2>3. ~isTerminal(payments[p].status)
    BY <1>11 DEF Create, Exists, BecomeStale, RecoverStale, FailPayment,
                 canTransition, isTerminal, transitions, ePaymentStatus,
                 NONE, PENDING, PROCESSING, SUCCESS, FAILED
  <2>4. payments[p] \in Row /\ payments[p].status # SUCCESS /\ payments[p].provider_ref = "null"
    BY <1>6, <2>3
  <2>5. CASE Create(p)
    BY <1>5, <2>1, <2>2, <2>3, <2>5 DEF Create, NewRow, NoRow, PENDING, SUCCESS
  <2>6. CASE BecomeStale(p)
    <3> DEFINE row == [payments[p] EXCEPT !.processing_started_at = "stale"]
    <3>1. row.status # SUCCESS /\ row.provider_ref = "null"
      BY <2>4 DEF Row
    <3>2. payments' = [payments EXCEPT ![p] = row]
      BY <2>6 DEF BecomeStale
    <3> HIDE DEF row
    <3>3. QED
      BY <1>5, <2>1, <2>2, <2>3, <3>1, <3>2
  <2>7. CASE RecoverStale(p)
    <3> DEFINE row == RecoveredRow(payments[p])
    <3>1. row.status # SUCCESS /\ row.provider_ref = "null"
      BY <2>4 DEF RecoveredRow, ReleasedRow, Row, PENDING, SUCCESS, FAILED
    <3>2. payments' = [payments EXCEPT ![p] = row]
      BY <2>7 DEF RecoverStale
    <3> HIDE DEF row
    <3>3. QED
      BY <1>5, <2>1, <2>2, <2>3, <3>1, <3>2
  <2>8. CASE FailPayment(p)
    <3> DEFINE row == [payments[p] EXCEPT !.status = FAILED]
    <3>1. row.status # SUCCESS /\ row.provider_ref = "null"
      BY <2>4 DEF Row, SUCCESS, FAILED
    <3>2. payments' = [payments EXCEPT ![p] = row]
      BY <2>8 DEF FailPayment
    <3> HIDE DEF row
    <3>3. QED
      BY <1>5, <2>1, <2>2, <2>3, <3>1, <3>2
  <2>9. QED
    BY <1>11, <2>5, <2>6, <2>7, <2>8
<1>12. CASE UNCHANGED vars
  BY <1>1, <1>12 DEF vars, ConfirmedCalls
<1>13. QED
  BY <1>2, <1>3, <1>4, <1>10, <1>11, <1>12, SettlementApplied, SettlementIgnored
  DEF Next, WorkerStep, PaymentStep, handleWebhook

(* The settlement's invariant: confirmed answers are remembered, only      *)
(* SUCCESS rows carry a reference, recorded callbacks are complete, and the *)
(* three properties of settlement hold together.                           *)
THEOREM SettlementInvariant == Spec => []SettlementInv
<1>1. Init => SettlementInv
  BY SettlementInit
<1>2. BudgetInv /\ BudgetInv' /\ SettlementInv /\ [Next]_vars => SettlementInv'
  BY SettlementStep
<1>3. QED
  BY <1>1, <1>2, BudgetInvariant, PTL DEF Spec

(* A payment is SUCCESS only on the provider's word: a gateway call that   *)
(* answered success, or the SUCCESS callback that settled it.              *)
THEOREM SuccessIsReported == Spec => []NoFalseSuccess
<1>1. SettlementInv => NoFalseSuccess
  BY DEF SettlementInv
<1>2. QED
  BY <1>1, SettlementInvariant, PTL

(* A callback recorded as processed has decided its payment, alone and for *)
(* good, however many callbacks race with each other and with the workers. *)
THEOREM CallbackDecides == Spec => []ProcessedEventDecides
<1>1. SettlementInv => ProcessedEventDecides
  BY DEF SettlementInv
<1>2. QED
  BY <1>1, SettlementInvariant, PTL

(* A callback is ignored only when its payment was settled already.        *)
THEOREM IgnoredCallbackIsMoot == Spec => []IgnoredEventIsMoot
<1>1. SettlementInv => IgnoredEventIsMoot
  BY DEF SettlementInv
<1>2. QED
  BY <1>1, SettlementInvariant, PTL

=============================================================================
