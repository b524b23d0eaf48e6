-------------------------- MODULE MCPaymentSystem --------------------------
(* Small instances of PaymentSystem for TLC. *)
EXTENDS PaymentSystem, TLC

Symmetry == Permutations(Payments) \cup Permutations(Workers)
              \cup Permutations(Sweepers)

=============================================================================
