------------------------- MODULE MCPaymentService -------------------------
(* Small instances of PaymentService for TLC. *)
EXTENDS PaymentService, TLC

Symmetry == Permutations(Payments) \cup Permutations(Workers)
              \cup Permutations(Events)

=============================================================================
