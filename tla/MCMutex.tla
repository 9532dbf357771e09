------------------------------ MODULE MCMutex ------------------------------
(* Model-checking definitions for Mutex.                                   *)
EXTENDS Mutex, TLC

Symmetry == Permutations(Thread)
=============================================================================
