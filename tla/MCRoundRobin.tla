---------------------------- MODULE MCRoundRobin ----------------------------
(* Model-checking definitions for RoundRobin.                              *)
EXTENDS RoundRobin, TLC

Symmetry == Permutations(Thread)
=============================================================================
