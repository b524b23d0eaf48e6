----------------------------- MODULE MCGateway -----------------------------
(* Instance of Gateway for TLC. *)
EXTENDS Gateway, TLC

(* As in .env.example, a failure knob of 0 included, which reads as unset. *)
MCProb == [success |-> 60, failure |-> 0, delay |-> 10]

Symmetry == Permutations(Charges)

=============================================================================
