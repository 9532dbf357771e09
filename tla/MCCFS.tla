------------------------------- MODULE MCCFS --------------------------------
(* Model-checking definitions for CFS.                                     *)
EXTENDS CFS, TLC

Symmetry == Permutations(Thread)

(* The default and half its weight: an endless slice and one with an end.  *)
MCNices == {0, 3}
=============================================================================
