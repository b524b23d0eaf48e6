------------------------ MODULE IdempotentCreation ------------------------
(***************************************************************************)
(* What POST /api/payments promises of the Idempotency-Key header: a key   *)
(* gets at most one payment, of its own, once and for good, and clients    *)
(* are only ever told that one.                                            *)
(***************************************************************************)
CONSTANTS
  Keys,   \* values of the Idempotency-Key header
  Ids     \* payment ids

VARIABLES
  paymentOf,   \* the payments of each key
  told         \* the payments that requests with the key were answered with

Init ==
  /\ paymentOf = [k \in Keys |-> {}]
  /\ told = [k \in Keys |-> {}]

Create(k) ==
  /\ paymentOf[k] = {}
  /\ \E id \in Ids :
       /\ \A other \in Keys : id \notin paymentOf[other]
       /\ paymentOf' = [paymentOf EXCEPT ![k] = {id}]
  /\ UNCHANGED told

Answer(k) ==
  /\ paymentOf[k] # {}
  /\ told' = [told EXCEPT ![k] = paymentOf[k]]
  /\ UNCHANGED paymentOf

Next == \E k \in Keys : Create(k) \/ Answer(k)

Spec == Init /\ [][Next]_<<paymentOf, told>>

=============================================================================
