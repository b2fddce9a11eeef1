---------------------------- MODULE MCRecycleBin ----------------------------
\* RecycleBin with one entity, of any kind, and two admins.
EXTENDS RecycleBin, TLC

Symmetry == Permutations(Admins)
=============================================================================
