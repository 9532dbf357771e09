----------------------------- MODULE MCCondVar -----------------------------
(* Model-checking definitions for CondVar.                                 *)
EXTENDS CondVar, TLC

Symmetry == Permutations(Thread)
=============================================================================
