-------------------------- MODULE PaymentService --------------------------
(***************************************************************************)
(* The payment engine: the payments and webhook_events tables, the worker  *)
(* calls of paymentService.process (claim, charge, settle), failPayment,   *)
(* recoverStalePayment and the provider's callbacks (handleWebhook).       *)
(*                                                                         *)
(* A database transaction is one step: every transaction of the code takes *)
(* the row lock of its only payment first (findByIdForUpdate), so two of   *)
(* them on a payment never overlap and none is seen half done.  What does  *)
(* interleave is everything between transactions: the gateway call is made *)
(* with no lock held, a worker dies at any point, a COMMIT is lost or its  *)
(* acknowledgment is, a claim grows old, a callback comes at any time and  *)
(* any number of times.                                                    *)
(*                                                                         *)
(* Who calls process, failPayment and recoverStalePayment, and when, is    *)
(* left open here: whatever holds of this specification holds under every  *)
(* queue and every schedule.                                               *)
(***************************************************************************)
EXTENDS Integers, PaymentStates

CONSTANTS
  Payments,              \* payment ids, the payments table's primary key
  NoPayment,             \* what an idle worker works on
  Workers,               \* concurrent job slots, over all worker processes
  Events,                \* provider event ids (webhook_events.event_id)
  MAX_PAYMENT_ATTEMPTS   \* config.js, stored in every row as max_attempts

ASSUME PaymentServiceAssumption ==
  /\ MAX_PAYMENT_ATTEMPTS \in Nat \ {0}
  /\ NoPayment \notin Payments

VARIABLES
  payments,   \* the payments table: a row for each payment id
  events,     \* the webhook_events table: a row for each event id
  calls,      \* the process() call each worker is in
  charged,    \* history: the attempts of each payment the gateway was called for
  confirmed   \* history: payments a gateway call answered with success

vars == <<payments, events, calls, charged, confirmed>>

----------------------------------------------------------------------------
(* Rows, and what the transactions make of them. *)

(* processing_started_at: "stale" when it is before findStale's cutoff.    *)
(* provider_ref: who reported it.  amount, currency and last_error are     *)
(* carried along by the code and never read by it.                         *)
Row == [status : ePaymentStatus \cup {NONE},
        attempts : Nat,
        processing_started_at : {"null", "fresh", "stale"},
        provider_ref : {"null", "gateway", "webhook"}]

NoRow == [status |-> NONE, attempts |-> 0,
          processing_started_at |-> "null", provider_ref |-> "null"]

NewRow == [NoRow EXCEPT !.status = PENDING]

Exists(p) == payments[p].status # NONE

(* A claim that only looks for settled rows. *)
ClaimsInFlight(row) == row.status \in {PENDING, PROCESSING}

Claimable(row) == row.status = PENDING

(* A claim that forgets incrementAttempts. *)
ClaimedUncounted(row) ==
  [row EXCEPT !.status = PROCESSING, !.processing_started_at = "fresh"]

(* A claim that forgets to stamp processing_started_at. *)
ClaimedUnstamped(row) ==
  [row EXCEPT !.status = PROCESSING, !.attempts = @ + 1]

ClaimedRow(row) ==
  [row EXCEPT !.status = PROCESSING, !.attempts = @ + 1,
              !.processing_started_at = "fresh"]

ReleasedRow(row) ==
  [row EXCEPT !.status = PENDING, !.processing_started_at = "null"]

(* The attempts check off by one. *)
AttemptsLeftOffByOne(row) == row.attempts <= MAX_PAYMENT_ATTEMPTS

AttemptsLeft(row) == row.attempts < MAX_PAYMENT_ATTEMPTS

(* The two errors of the gateway carry a retriable flag. *)
retriable(outcome) == outcome = "timeout"

(* A timeout is read as "no error". *)
NotDeclined(outcome) == outcome # "card_declined"

Succeeded(outcome) == outcome = "success"

(* Phase 3 on a row that is still PROCESSING. *)
SettledRow(row, outcome) ==
  IF Succeeded(outcome)
    THEN [row EXCEPT !.status = SUCCESS, !.provider_ref = "gateway"]
    ELSE IF retriable(outcome) /\ AttemptsLeft(row)
           THEN ReleasedRow(row)
           ELSE [row EXCEPT !.status = FAILED]

(* A recovery that never gives up on a payment. *)
AlwaysReleasedRow(row) == ReleasedRow(row)

RecoveredRow(row) ==
  IF AttemptsLeft(row)
    THEN ReleasedRow(row)
    ELSE [row EXCEPT !.status = FAILED, !.processing_started_at = "null"]

(* A SUCCESS callback may leave providerRef out: the row keeps its own. *)
WebhookRow(row, target, hasRef) ==
  IF target = SUCCESS
    THEN [row EXCEPT !.status = SUCCESS,
                     !.provider_ref = IF hasRef THEN "webhook" ELSE @]
    ELSE [row EXCEPT !.status = target]

(* A callback row.  status is our handling of it; "none": not recorded. *)
Event == [payment : Payments \cup {NoPayment},
          reported : {SUCCESS, FAILED, NONE},
          status : {"none", "processed", "ignored"}]

NoEvent == [payment |-> NoPayment, reported |-> NONE, status |-> "none"]

----------------------------------------------------------------------------
(* process(): the calls. *)

Outcome == {"success", "card_declined", "timeout"}

(* pc: "claim" before phase 1, "charge" claimed, "charging" inside         *)
(* gatewayService.charge, "settle" before phase 3, "returned" and "threw"  *)
(* when process() has ended and its caller has not yet acted on it.        *)
Call == [pc : {"idle", "claim", "charge", "charging", "settle",
               "returned", "threw"},
         payment : Payments \cup {NoPayment},
         attempt : Nat,
         outcome : Outcome \cup {"none"}]

Idle == [pc |-> "idle", payment |-> NoPayment,
         attempt |-> 0, outcome |-> "none"]

Goto(w, pc) == calls' = [calls EXCEPT ![w].pc = pc]

Init ==
  /\ payments = [p \in Payments |-> NoRow]
  /\ events = [e \in Events |-> NoEvent]
  /\ calls = [w \in Workers |-> Idle]
  /\ charged = [p \in Payments |-> {}]
  /\ confirmed = {}

(* The INSERT of PaymentRepository.create. *)
Create(p) ==
  /\ ~Exists(p)
  /\ payments' = [payments EXCEPT ![p] = NewRow]
  /\ UNCHANGED <<events, calls, charged, confirmed>>

StartProcess(w, p) ==
  /\ calls[w].pc = "idle"
  /\ calls' = [calls EXCEPT ![w] = [Idle EXCEPT !.pc = "claim", !.payment = p]]
  /\ UNCHANGED <<payments, events, charged, confirmed>>

(* Phase 1, the PENDING row is ours. *)
ClaimWon(w) ==
  LET p == calls[w].payment IN
  /\ calls[w].pc = "claim"
  /\ Claimable(payments[p])
  /\ payments' = [payments EXCEPT ![p] = ClaimedRow(@)]
  /\ calls' = [calls EXCEPT ![w].pc = "charge",
                            ![w].attempt = payments[p].attempts + 1]
  /\ UNCHANGED <<events, charged, confirmed>>

(* Phase 1, no such row or not PENDING: bail out before the gateway. *)
ClaimRefused(w) ==
  /\ calls[w].pc = "claim"
  /\ ~Claimable(payments[calls[w].payment])
  /\ Goto(w, "returned")
  /\ UNCHANGED <<payments, events, charged, confirmed>>

(* Phase 2, with no lock held. *)
BeginCharge(w) ==
  /\ calls[w].pc = "charge"
  /\ charged' = [charged EXCEPT ![calls[w].payment] = @ \cup {calls[w].attempt}]
  /\ Goto(w, "charging")
  /\ UNCHANGED <<payments, events, confirmed>>

EndCharge(w, outcome) ==
  /\ calls[w].pc = "charging"
  /\ calls' = [calls EXCEPT ![w].pc = "settle", ![w].outcome = outcome]
  /\ confirmed' = IF outcome = "success"
                    THEN confirmed \cup {calls[w].payment} ELSE confirmed
  /\ UNCHANGED <<payments, events, charged>>

(* A settle that does not look again at the status under its lock. *)
SettlesAnyRow(row) == row.status # NONE

Settleable(row) == row.status = PROCESSING

(* A release for retry that is not thrown. *)
SettleReturns(w) ==
  LET p == calls[w].payment IN
  /\ calls[w].pc = "settle"
  /\ Settleable(payments[p])
  /\ payments' = [payments EXCEPT ![p] = SettledRow(@, calls[w].outcome)]
  /\ Goto(w, "returned")
  /\ UNCHANGED <<events, charged, confirmed>>

(* Phase 3.  A release for retry throws, once the transaction has ended. *)
Settle(w) ==
  LET p == calls[w].payment
      row == SettledRow(payments[p], calls[w].outcome)
  IN
  /\ calls[w].pc = "settle"
  /\ Settleable(payments[p])
  /\ payments' = [payments EXCEPT ![p] = row]
  /\ Goto(w, IF row.status = PENDING THEN "threw" ELSE "returned")
  /\ UNCHANGED <<events, charged, confirmed>>

(* Phase 3, something else already moved the payment on: converge. *)
SettleNoop(w) ==
  /\ calls[w].pc = "settle"
  /\ ~Settleable(payments[calls[w].payment])
  /\ Goto(w, "returned")
  /\ UNCHANGED <<payments, events, charged, confirmed>>

Finish(w) ==
  /\ calls[w].pc \in {"returned", "threw"}
  /\ calls' = [calls EXCEPT ![w] = Idle]
  /\ UNCHANGED <<payments, events, charged, confirmed>>

----------------------------------------------------------------------------
(* Failures of a call. *)

(* A transaction rolls back: process() throws something that is not a      *)
(* GatewayError and the table is as before.                                *)
Rollback(w) ==
  /\ calls[w].pc \in {"claim", "settle"}
  /\ Goto(w, "threw")
  /\ UNCHANGED <<payments, events, charged, confirmed>>

(* A transaction commits but the caller only sees its connection break. *)
AckLost(w) ==
  LET p == calls[w].payment IN
  /\ \/ /\ calls[w].pc = "claim"
        /\ Claimable(payments[p])
        /\ payments' = [payments EXCEPT ![p] = ClaimedRow(@)]
     \/ /\ calls[w].pc = "settle"
        /\ Settleable(payments[p])
        /\ payments' = [payments EXCEPT ![p] = SettledRow(@, calls[w].outcome)]
  /\ Goto(w, "threw")
  /\ UNCHANGED <<events, charged, confirmed>>

(* The worker process dies: what it held in memory is gone, rows are not. *)
Crash(w) ==
  /\ calls[w].pc # "idle"
  /\ calls' = [calls EXCEPT ![w] = Idle]
  /\ UNCHANGED <<payments, events, charged, confirmed>>

----------------------------------------------------------------------------
(* The other writers of a payment row. *)

(* processing_started_at falls behind now - STALE_PROCESSING_MS. *)
BecomeStale(p) ==
  /\ payments[p].status = PROCESSING
  /\ payments[p].processing_started_at = "fresh"
  /\ payments' = [payments EXCEPT ![p].processing_started_at = "stale"]
  /\ UNCHANGED <<events, calls, charged, confirmed>>

(* recoverStalePayment re-checks the status and nothing else. *)
RecoverStale(p) ==
  /\ payments[p].status = PROCESSING
  /\ payments' = [payments EXCEPT ![p] = RecoveredRow(@)]
  /\ UNCHANGED <<events, calls, charged, confirmed>>

(* failPayment without its state-machine guard. *)
FailPaymentUnguarded(p) ==
  /\ Exists(p)
  /\ payments' = [payments EXCEPT ![p].status = FAILED]
  /\ UNCHANGED <<events, calls, charged, confirmed>>

FailPayment(p) ==
  /\ canTransition(payments[p].status, FAILED)
  /\ payments' = [payments EXCEPT ![p].status = FAILED]
  /\ UNCHANGED <<events, calls, charged, confirmed>>

(* A callback for a known payment under an event id not recorded yet.  It  *)
(* is applied when the state machine allows the move and recorded as       *)
(* ignored otherwise; for an unknown payment or a known event id the       *)
(* handler writes nothing.                                                 *)
WebhookApplied(e, p, target, hasRef) ==
  /\ Exists(p)
  /\ events[e].status = "none"
  /\ canTransition(payments[p].status, target)
  /\ payments' = [payments EXCEPT ![p] = WebhookRow(@, target, hasRef)]
  /\ events' = [events EXCEPT
       ![e] = [payment |-> p, reported |-> target, status |-> "processed"]]
  /\ UNCHANGED <<calls, charged, confirmed>>

WebhookIgnored(e, p, target) ==
  /\ Exists(p)
  /\ events[e].status = "none"
  /\ ~canTransition(payments[p].status, target)
  /\ events' = [events EXCEPT
       ![e] = [payment |-> p, reported |-> target, status |-> "ignored"]]
  /\ UNCHANGED <<payments, calls, charged, confirmed>>

handleWebhook(e, p, target) ==
  \/ \E hasRef \in BOOLEAN : WebhookApplied(e, p, target, hasRef)
  \/ WebhookIgnored(e, p, target)

----------------------------------------------------------------------------
WorkerStep(w) ==
  \/ \E p \in Payments : StartProcess(w, p)
  \/ ClaimWon(w)
  \/ ClaimRefused(w)
  \/ BeginCharge(w)
  \/ \E outcome \in Outcome : EndCharge(w, outcome)
  \/ Settle(w)
  \/ SettleNoop(w)
  \/ Finish(w)
  \/ Rollback(w)
  \/ AckLost(w)
  \/ Crash(w)

PaymentStep(p) ==
  \/ Create(p)
  \/ BecomeStale(p)
  \/ RecoverStale(p)
  \/ FailPayment(p)
  \/ \E e \in Events, target \in {SUCCESS, FAILED} : handleWebhook(e, p, target)

Next ==
  \/ \E w \in Workers : WorkerStep(w)
  \/ \E p \in Payments : PaymentStep(p)

Spec == Init /\ [][Next]_vars

----------------------------------------------------------------------------
(* Types. *)
TypeOK ==
  /\ payments \in [Payments -> Row]
  /\ events \in [Events -> Event]
  /\ calls \in [Workers -> Call]
  /\ charged \in [Payments -> SUBSET (1..MAX_PAYMENT_ATTEMPTS)]
  /\ confirmed \subseteq Payments

(* Properties. *)

InFlight(w) == calls[w].pc \in {"charge", "charging", "settle"}

(* README: "Attempts are bounded by MAX_PAYMENT_ATTEMPTS".  No claim checks *)
(* the budget: it holds because every way back to PENDING does.  So a      *)
(* PENDING row always has an attempt left, no row is ever over budget, and *)
(* the gateway is only called for attempts that were claimed.              *)
AttemptsWithinBudget ==
  \A p \in Payments :
    /\ payments[p].attempts <= MAX_PAYMENT_ATTEMPTS
    /\ payments[p].status = PENDING => AttemptsLeft(payments[p])
    /\ charged[p] \subseteq 1..payments[p].attempts

(* Each claimed attempt reaches the gateway at most once, whatever number  *)
(* of workers, recoveries and crashes there are: two calls that are past   *)
(* their claim never share an attempt, and one that is about to charge     *)
(* works on an attempt that was not charged before.                        *)
OneChargePerAttempt ==
  /\ \A w \in Workers :
       calls[w].pc = "charge" =>
         calls[w].attempt \notin charged[calls[w].payment]
  /\ \A v, w \in Workers :
       /\ v # w
       /\ InFlight(v) /\ InFlight(w)
       /\ calls[v].payment = calls[w].payment
       => calls[v].attempt # calls[w].attempt

(* A payment is SUCCESS only on the provider's word: either a gateway call *)
(* for it answered success, and its reference is the gateway's, or a       *)
(* SUCCESS callback settled it.  In particular a timeout, a crash or a     *)
(* recovery never turns into a success.                                    *)
NoFalseSuccess ==
  \A p \in Payments :
    payments[p].status = SUCCESS =>
      IF payments[p].provider_ref = "gateway"
        THEN p \in confirmed
        ELSE \E e \in Events :
               events[e] = [payment |-> p, reported |-> SUCCESS,
                            status |-> "processed"]

(* A callback recorded as processed is the one that settled its payment:   *)
(* the payment has the reported status from then on, and no second         *)
(* callback is ever recorded as processed for it.                          *)
ProcessedEventDecides ==
  \A e \in Events :
    events[e].status = "processed" =>
      /\ payments[events[e].payment].status = events[e].reported
      /\ \A f \in Events :
           events[f].status = "processed" /\ events[f].payment = events[e].payment
           => f = e

(* A callback is recorded as ignored only for a payment that was already   *)
(* settled: an early one, which beats the worker, is never thrown away.    *)
IgnoredEventIsMoot ==
  \A e \in Events :
    events[e].status = "ignored" =>
      isTerminal(payments[events[e].payment].status)

(* Every PROCESSING row carries a processing_started_at: findStale compares *)
(* it with a cutoff, and NULL < cutoff would hide the row from every sweep. *)
SweepableClaims ==
  \A p \in Payments :
    payments[p].status = PROCESSING =>
      payments[p].processing_started_at # "null"

(* README: "SUCCESS/FAILED are terminal".  No step of any actor changes    *)
(* any column of a settled row: not its status, its attempts or its        *)
(* provider_ref.                                                           *)
TerminalRowsFrozen ==
  [][\A p \in Payments :
       isTerminal(payments[p].status) => payments'[p] = payments[p]]_vars

(* The engine implements the lifecycle it promises. *)
Lifecycle == INSTANCE PaymentLifecycle WITH
  status <- [p \in Payments |-> payments[p].status],
  attempts <- [p \in Payments |-> payments[p].attempts]

ImplementsLifecycle == Lifecycle!Spec

=============================================================================
