----------------------- MODULE MCPaymentTransactions -----------------------
(* Instance of PaymentTransactions for TLC. *)
EXTENDS PaymentTransactions, TLC

Symmetry == Permutations(Workers) \cup Permutations(Sessions)

=============================================================================
