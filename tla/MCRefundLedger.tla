--------------------------- MODULE MCRefundLedger ---------------------------
(* Instances of RefundLedger for TLC. *)
EXTENDS RefundLedger, TLC

CONSTANTS r1, r2, m1, a1, a2, w1

Symmetry == Permutations(Refunds) \cup Permutations(Clerks)
============================================================================
