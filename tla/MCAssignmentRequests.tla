------------------------ MODULE MCAssignmentRequests ------------------------
(* Model values and symmetry for TLC. *)
EXTENDS AssignmentRequests, TLC

CONSTANTS u1, u2, s1, s2

Symmetry == Permutations(Sessions) \union Permutations(Users)
=============================================================================
