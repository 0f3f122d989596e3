------------------------------- MODULE MCObject -------------------------------
(* ObjectHandler on a class of two required members, which can be          *)
(* interchanged, and one optional member.                                  *)
EXTENDS ObjectHandler, TLC

Symmetry == Permutations(Required)
=============================================================================
