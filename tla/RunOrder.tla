------------------------------ MODULE RunOrder ------------------------------
(***************************************************************************)
(* What the CFS policy wants of its red-black tree: the threads linked in  *)
(* it, in the order in which dequeue returns them.  Lower vruntime first   *)
(* ("Key: vruntime (lower = higher priority)", src/src/sched_cfs.c), first *)
(* come first served among equals.                                         *)
(***************************************************************************)
EXTENDS Naturals, Sequences, FiniteSetsExt

CONSTANT Node

VARIABLES order,
          vruntime \* the key of a thread, fixed while it is linked

(* t goes behind the last thread whose vruntime is not above its own.      *)
InsertBy(q, t, vr) ==
  LET k == Max({0} \cup {i \in DOMAIN q : vr[q[i]] <= vr[t]}) IN
  Append(SubSeq(q, 1, k), t) \o SubSeq(q, k + 1, Len(q))

Without(q, t) ==
  LET k == CHOOSE i \in DOMAIN q : q[i] = t IN
  IF t \in Range(q) THEN SubSeq(q, 1, k - 1) \o SubSeq(q, k + 1, Len(q)) ELSE q

Init == order = <<>>

Insert(t) == t \notin Range(order) /\ order' = InsertBy(order, t, vruntime)

Remove(t) == t \in Range(order) /\ order' = Without(order, t)

Next == \E t \in Node : Insert(t) \/ Remove(t)

Spec == Init /\ [][Next]_order
=============================================================================
