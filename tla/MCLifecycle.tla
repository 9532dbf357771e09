---------------------------- MODULE MCLifecycle ----------------------------
(* Model-checking definitions for Lifecycle.                               *)
EXTENDS Lifecycle, TLC

Symmetry == Permutations(Thread)
=============================================================================
