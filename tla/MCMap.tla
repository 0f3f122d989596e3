-------------------------------- MODULE MCMap --------------------------------
(* MapHandler with two interchangeable keys.                               *)
EXTENDS MapHandler, TLC

Symmetry == Permutations(Keys)
=============================================================================
