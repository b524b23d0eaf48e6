--------------------------- MODULE PaymentStates ---------------------------
(***************************************************************************)
(* The payment state machine: the statuses of models/lib/enums.js and the  *)
(* transition table of shared/lib/stateMachine.js, the single place that   *)
(* says which status moves are legal.                                      *)
(***************************************************************************)

PENDING == "PENDING"
PROCESSING == "PROCESSING"
SUCCESS == "SUCCESS"
FAILED == "FAILED"

ePaymentStatus == {PENDING, PROCESSING, SUCCESS, FAILED}

(* The status of a payment that has no row; no payment row ever carries it. *)
NONE == "NONE"

transitions ==
  [s \in ePaymentStatus |->
     CASE s = PENDING    -> {PROCESSING, SUCCESS, FAILED}
       [] s = PROCESSING -> {SUCCESS, FAILED, PENDING}
       [] s \in {SUCCESS, FAILED} -> {}]

(* A state machine that refuses a callback that comes before the worker. *)
canTransitionLate(from, to) ==
  from = PROCESSING /\ to \in transitions[from]

(* An unknown `from` allows nothing, and no status moves to itself. *)
canTransition(from, to) ==
  from \in DOMAIN transitions /\ to \in transitions[from]

isTerminal(status) ==
  status \in DOMAIN transitions /\ transitions[status] = {}

=============================================================================
