------------------------- MODULE PaymentLifecycle -------------------------
(***************************************************************************)
(* What the payment engine promises of every payment, whoever acts on it:  *)
(* it is created once, every attempt at it is paid for out of a fixed      *)
(* budget, it goes back to PENDING only while that budget is not spent,    *)
(* and once SUCCESS or FAILED it never moves again.  Nothing is said of    *)
(* workers, locks, queues or callbacks: PaymentService implements this     *)
(* specification.                                                          *)
(***************************************************************************)
EXTENDS Integers, PaymentStates

CONSTANTS
  Payments,             \* payment ids
  MAX_PAYMENT_ATTEMPTS  \* the budget of attempts of a payment

VARIABLES
  status,    \* status of each payment, NONE before it is created
  attempts   \* attempts made at each payment

vars == <<status, attempts>>

Init ==
  /\ status = [p \in Payments |-> NONE]
  /\ attempts = [p \in Payments |-> 0]

Create(p) ==
  /\ status[p] = NONE
  /\ status' = [status EXCEPT ![p] = PENDING]
  /\ UNCHANGED attempts

Attempt(p) ==
  /\ status[p] = PENDING
  /\ attempts[p] < MAX_PAYMENT_ATTEMPTS
  /\ status' = [status EXCEPT ![p] = PROCESSING]
  /\ attempts' = [attempts EXCEPT ![p] = @ + 1]

Release(p) ==
  /\ status[p] = PROCESSING
  /\ attempts[p] < MAX_PAYMENT_ATTEMPTS
  /\ status' = [status EXCEPT ![p] = PENDING]
  /\ UNCHANGED attempts

Settle(p, final) ==
  /\ status[p] \in {PENDING, PROCESSING}
  /\ status' = [status EXCEPT ![p] = final]
  /\ UNCHANGED attempts

Next ==
  \E p \in Payments :
    \/ Create(p)
    \/ Attempt(p)
    \/ Release(p)
    \/ \E final \in {SUCCESS, FAILED} : Settle(p, final)

Spec == Init /\ [][Next]_vars

=============================================================================
