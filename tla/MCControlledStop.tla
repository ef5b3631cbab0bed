--------------------------- MODULE MCControlledStop ---------------------------
(* Model checking of ControlledStop: interchangeable controllers.          *)
EXTENDS ControlledStop, TLC

Symmetry == Permutations(Controllers)
=============================================================================
