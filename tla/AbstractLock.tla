---------------------------- MODULE AbstractLock ----------------------------
(***************************************************************************)
(* What a mutex promises its callers: at most one holder, who alone may    *)
(* nest and release it, and who stays the holder until it has released as  *)
(* often as it has acquired.                                               *)
(***************************************************************************)
EXTENDS Naturals

CONSTANTS Client, Nobody

VARIABLES holder, depth

lockVars == <<holder, depth>>

Init == holder = Nobody /\ depth = 0

Acquire(c) == holder = Nobody /\ holder' = c /\ depth' = 1

Nest(c) == holder = c /\ depth' = depth + 1 /\ UNCHANGED holder

Unnest(c) == holder = c /\ depth > 1 /\ depth' = depth - 1 /\ UNCHANGED holder

Release(c) == holder = c /\ depth = 1 /\ holder' = Nobody /\ depth' = 0

Next == \E c \in Client : Acquire(c) \/ Nest(c) \/ Unnest(c) \/ Release(c)

Spec == Init /\ [][Next]_lockVars
=============================================================================
