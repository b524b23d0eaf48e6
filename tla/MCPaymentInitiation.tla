------------------------ MODULE MCPaymentInitiation ------------------------
(* Instance of PaymentInitiation for TLC. *)
EXTENDS PaymentInitiation

=============================================================================
