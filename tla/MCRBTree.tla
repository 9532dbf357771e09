----------------------------- MODULE MCRBTree ------------------------------
(* Model-checking definitions for RBTree: threads 1 .. Size with the       *)
(* vruntimes 1, 1, 2, 2, 3, 3, ..., and NULL as 0.                         *)
EXTENDS RBTree

CONSTANT Size

Threads == 1 .. Size

Pairs == [n \in Threads |-> (n + 1) \div 2]
=============================================================================
