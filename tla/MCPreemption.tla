---------------------------- MODULE MCPreemption ----------------------------
(* Model-checking definitions for Preemption.                              *)
EXTENDS Preemption, TLC

Symmetry == Permutations(Thread \ Controllers)
=============================================================================
