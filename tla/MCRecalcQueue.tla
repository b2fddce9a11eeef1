--------------------------- MODULE MCRecalcQueue ---------------------------
(* Small instances of RecalcQueue. *)
EXTENDS RecalcQueue, TLC

CONSTANTS m1, m2, d1, d2

Symmetry      == Permutations({d1, d2})
=============================================================================
