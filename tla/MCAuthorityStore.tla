-------------------------- MODULE MCAuthorityStore --------------------------
(* AuthorityStore for TLC: supervisor processes are interchangeable.       *)
EXTENDS AuthorityStore, TLC

ProcSymmetry == Permutations(Proc)
=============================================================================
