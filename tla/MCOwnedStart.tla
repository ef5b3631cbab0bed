---------------------------- MODULE MCOwnedStart ----------------------------
EXTENDS OwnedStart, TLC
Symmetry == Permutations(Supervisors)
=============================================================================
