----------------------------- MODULE MCPayments -----------------------------
(* Payments with interchangeable requests.                                 *)
EXTENDS Payments, TLC

Symmetry == Permutations(Calls)
=============================================================================
