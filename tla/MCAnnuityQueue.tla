--------------------------- MODULE MCAnnuityQueue ---------------------------
(* Small instances of AnnuityQueue. *)
EXTENDS AnnuityQueue, TLC

CONSTANTS d1, d2

Symmetry == Permutations({d1, d2})
=============================================================================
