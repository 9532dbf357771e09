----------------------------- MODULE MCPriority -----------------------------
(* Model-checking definitions for Priority.                                *)
EXTENDS Priority, TLC

Symmetry == Permutations(Thread)
=============================================================================
