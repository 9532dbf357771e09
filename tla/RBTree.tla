------------------------------- MODULE RBTree -------------------------------
(***************************************************************************)
(* The red-black tree of src/src/sched_cfs.c, link by link: rb_insert and  *)
(* rb_remove with their fix-ups, the leftmost cache, and the operations of *)
(* scheduler_ops that use them.  kid.L and kid.R are rb_left and rb_right, *)
(* and the mirrored halves of the code are one operator with the side d as *)
(* a parameter.  An operation runs from "idle" to "idle"; each iteration   *)
(* of one of its loops is a step, and thread, at and up are its locals.    *)
(***************************************************************************)
EXTENDS Integers, Sequences, FiniteSets, Functions

CONSTANTS Node, \* the threads that may be linked
          Nil,  \* NULL
          key   \* thread->vruntime, fixed while a thread is linked

ASSUME RBTreeAssumption == Nil \notin Node /\ key \in [Node -> Nat]

VARIABLES root, leftmost, count, \* g_cfs_state
          kid, parent, color,    \* rb_left and rb_right, rb_parent, rb_color
          pc,                    \* where the operation is
          thread,                \* the thread it inserts, looks for or removes
          at,                    \* x of rb_insert and rb_remove_fixup, z of rb_insert_fixup
          up                     \* y of rb_insert, x_parent of rb_remove_fixup

links == <<root, kid, parent>>

treeVars == <<root, leftmost, count, kid, parent, color, pc, thread, at, up>>

Link == Node \cup {Nil}

Side == {"L", "R"}

TreeTypeOK ==
  /\ root \in Link /\ leftmost \in Link /\ count \in Nat
  /\ kid \in [Side -> [Node -> Link]]
  /\ parent \in [Node -> Link]
  /\ color \in [Node -> {"RED", "BLACK"}]
  /\ pc \in {"idle", "insert", "insert_fixup", "search", "remove_fixup", "clear"}
  /\ thread \in Link /\ at \in Link /\ up \in Link

(* cfs_init over threads from calloc: no links, RB_RED is 0.               *)
TreeInit ==
  /\ root = Nil /\ leftmost = Nil /\ count = 0
  /\ kid = [d \in Side |-> [n \in Node |-> Nil]]
  /\ parent = [n \in Node |-> Nil]
  /\ color = [n \in Node |-> "RED"]
  /\ pc = "idle" /\ thread = Nil /\ at = Nil /\ up = Nil

Return == pc' = "idle" /\ thread' = Nil /\ at' = Nil /\ up' = Nil

-----------------------------------------------------------------------------
(* Links.                                                                  *)
Other(d) == IF d = "L" THEN "R" ELSE "L"

Red(n) == n # Nil /\ color[n] = "RED"

Paint(col, n, c) == IF n = Nil THEN col ELSE [col EXCEPT ![n] = c]

Under(par, n, p) == IF n = Nil THEN par ELSE [par EXCEPT ![n] = p]

(* rb_transplant is Hang on the child links, Under on the parent links and *)
(* Top on the root: v takes the place of u below p, the parent of u.       *)
Hang(kd, p, u, v) ==
  IF p = Nil THEN kd
  ELSE [kd EXCEPT ![IF u = kd["L"][p] THEN "L" ELSE "R"][p] = v]

Top(p, v) == IF p = Nil THEN v ELSE root

(* rb_rotate_left for d = "L", rb_rotate_right for d = "R": n goes down to *)
(* side d and its child on the other side comes up.                        *)
TurnedKids(kd, par, d, n) ==
  LET y == kd[Other(d)][n]
      moved == [kd EXCEPT ![Other(d)][n] = kd[d][y]]
  IN [Hang(moved, par[n], n, y) EXCEPT ![d][y] = n]

TurnedParents(kd, par, d, n) ==
  LET y == kd[Other(d)][n] IN
  [Under(Under(par, kd[d][y], n), y, par[n]) EXCEPT ![n] = y]

rb_rotate(d, n) ==
  /\ kid' = TurnedKids(kid, parent, d, n)
  /\ parent' = TurnedParents(kid, parent, d, n)
  /\ root' = Top(parent[n], kid[Other(d)][n])

rb_minimum(kd, n) ==
  LET down[m \in Node] == IF kd["L"][m] = Nil THEN m ELSE down[kd["L"][m]] IN
  down[n]

(* In-order traversal of the subtree at n.                                 *)
InOrder(kd, n) ==
  LET walk[m \in Link] ==
        IF m = Nil THEN <<>> ELSE walk[kd["L"][m]] \o <<m>> \o walk[kd["R"][m]]
  IN walk[n]

Linked == Range(InOrder(kid, root))

-----------------------------------------------------------------------------
(* Mutant: the descent goes left on a tie.                                 *)
TowardTiesLeft(t, n) == IF key[t] <= key[n] THEN "L" ELSE "R"

(* Where the descents of rb_insert and cfs_remove turn: ties to the right. *)
Toward(t, n) == IF key[t] < key[n] THEN "L" ELSE "R"

(* cfs_enqueue of a thread that is not linked, up to the loop of rb_insert.*)
cfs_enqueue ==
  /\ pc = "idle"
  /\ \E t \in Node \ Linked : thread' = t
  /\ pc' = "insert" /\ at' = root /\ up' = Nil
  /\ UNCHANGED <<links, leftmost, count, color>>

Descend ==
  /\ pc = "insert" /\ at # Nil
  /\ up' = at
  /\ at' = kid[Toward(thread, at)][at]
  /\ UNCHANGED <<links, leftmost, count, color, pc, thread>>

(* Mutant: the cache also moves to a thread with an equal key.             *)
CacheTakesTies(t) == leftmost = Nil \/ key[t] <= key[leftmost]

CacheMoves(t) == leftmost = Nil \/ key[t] < key[leftmost]

rb_insert ==
  /\ pc = "insert" /\ at = Nil
  /\ LET bare == [d \in Side |-> [kid[d] EXCEPT ![thread] = Nil]] IN
     kid' = IF up = Nil THEN bare
            ELSE [bare EXCEPT ![Toward(thread, up)][up] = thread]
  /\ root' = Top(up, thread)
  /\ parent' = [parent EXCEPT ![thread] = up]
  /\ color' = [color EXCEPT ![thread] = "RED"]
  /\ leftmost' = IF CacheMoves(thread) THEN thread ELSE leftmost
  /\ pc' = "insert_fixup" /\ at' = thread /\ up' = Nil
  /\ UNCHANGED <<count, thread>>

-----------------------------------------------------------------------------
(* The loop of rb_insert_fixup: at and its parent are red.                 *)
Father == parent[at]

Grand == parent[Father]

FatherSide == IF Father = kid["L"][Grand] THEN "L" ELSE "R"

Uncle == kid[Other(FatherSide)][Grand]

Climb ==
  /\ pc = "insert_fixup" /\ Red(Father) /\ Red(Uncle)
  /\ color' = [color EXCEPT ![Father] = "BLACK", ![Uncle] = "BLACK", ![Grand] = "RED"]
  /\ at' = Grand
  /\ UNCHANGED <<links, leftmost, count, pc, thread, up>>

(* The first rotation.  It leaves the tests of the loop as they were, and  *)
(* the second one follows.                                                 *)
TurnInside ==
  /\ pc = "insert_fixup" /\ Red(Father) /\ ~Red(Uncle)
  /\ at = kid[Other(FatherSide)][Father]
  /\ rb_rotate(FatherSide, Father)
  /\ at' = Father
  /\ UNCHANGED <<leftmost, count, color, pc, thread, up>>

TurnOutside ==
  /\ pc = "insert_fixup" /\ Red(Father) /\ ~Red(Uncle)
  /\ at # kid[Other(FatherSide)][Father]
  /\ color' = [color EXCEPT ![Father] = "BLACK", ![Grand] = "RED"]
  /\ rb_rotate(Other(FatherSide), Grand)
  /\ UNCHANGED <<leftmost, count, pc, thread, at, up>>

(* The end of the loop, and of rb_insert.                                  *)
Inserted ==
  /\ pc = "insert_fixup" /\ ~Red(Father)
  /\ color' = [color EXCEPT ![root] = "BLACK"]
  /\ count' = count + 1
  /\ Return
  /\ UNCHANGED <<links, leftmost>>

-----------------------------------------------------------------------------
(* z, with at most one child, is replaced by it.                           *)
DropSingle(z) ==
  LET x == kid[IF kid["L"][z] = Nil THEN "R" ELSE "L"][z] IN
  /\ kid["L"][z] = Nil \/ kid["R"][z] = Nil
  /\ kid' = Hang(kid, parent[z], z, x)
  /\ parent' = Under(parent, x, parent[z])
  /\ root' = Top(parent[z], x)
  /\ at' = x /\ up' = parent[z]
  /\ UNCHANGED color

(* z, with two children, is replaced by y, the next in order, and y by its *)
(* right child.                                                            *)
DropDouble(z, y) ==
  LET x == kid["R"][y]
      deep == parent[y] # z
      kids == IF deep THEN [Hang(kid, parent[y], y, x) EXCEPT !["R"][y] = kid["R"][z]]
              ELSE kid
      pars == IF deep THEN [Under(parent, x, parent[y]) EXCEPT ![kid["R"][z]] = y]
              ELSE parent
  IN /\ kid["L"][z] # Nil /\ kid["R"][z] # Nil
     /\ kid' = [Hang(kids, parent[z], z, y) EXCEPT !["L"][y] = kid["L"][z]]
     /\ parent' = [pars EXCEPT ![y] = parent[z], ![kid["L"][z]] = y]
     /\ root' = Top(parent[z], y)
     /\ color' = [color EXCEPT ![y] = color[z]]
     /\ at' = x /\ up' = IF deep THEN parent[y] ELSE y

(* Mutant: the colours are not repaired.                                   *)
RemoveNoFixup(z) ==
  LET double == kid["L"][z] # Nil /\ kid["R"][z] # Nil
      y == IF double THEN rb_minimum(kid, kid["R"][z]) ELSE z
  IN /\ DropSingle(z) \/ DropDouble(z, y)
     /\ leftmost' = IF z # leftmost THEN leftmost
                    ELSE IF root' = Nil THEN Nil ELSE rb_minimum(kid', root')
     /\ pc' = "clear"
     /\ thread' = z
     /\ UNCHANGED count

(* rb_remove up to its fix-up.  y is the node whose place and colour the   *)
(* tree loses; at, which takes that place below up, may be one black node  *)
(* short.                                                                  *)
rb_remove(z) ==
  LET double == kid["L"][z] # Nil /\ kid["R"][z] # Nil
      y == IF double THEN rb_minimum(kid, kid["R"][z]) ELSE z
  IN /\ DropSingle(z) \/ DropDouble(z, y)
     /\ leftmost' = IF z # leftmost THEN leftmost
                    ELSE IF root' = Nil THEN Nil ELSE rb_minimum(kid', root')
     /\ pc' = IF color[y] = "BLACK" /\ root' # Nil THEN "remove_fixup" ELSE "clear"
     /\ thread' = z
     /\ UNCHANGED count

cfs_dequeue == pc = "idle" /\ leftmost # Nil /\ rb_remove(leftmost)

(* scheduler_ops.remove, "Remove specific thread from run queue", and its  *)
(* search, which compares keys on its way down.                            *)
cfs_remove ==
  /\ pc = "idle"
  /\ \E t \in Node : thread' = t
  /\ pc' = "search" /\ at' = root
  /\ UNCHANGED <<links, leftmost, count, color, up>>

Search ==
  /\ pc = "search" /\ at # Nil /\ at # thread
  /\ at' = kid[Toward(thread, at)][at]
  /\ UNCHANGED <<links, leftmost, count, color, pc, thread, up>>

Found == pc = "search" /\ at # Nil /\ at = thread /\ rb_remove(thread)

NotFound ==
  /\ pc = "search" /\ at = Nil
  /\ Return
  /\ UNCHANGED <<links, leftmost, count, color>>

-----------------------------------------------------------------------------
(* The loop of rb_remove_fixup.                                            *)
Short == pc = "remove_fixup" /\ at # root /\ ~Red(at)

ShortSide == IF at = kid["L"][up] THEN "L" ELSE "R"

Sibling == kid[Other(ShortSide)][up]

Far == kid[Other(ShortSide)][Sibling]

Near == kid[ShortSide][Sibling]

(* A red sibling: afterwards at is as short as before, below a black one.  *)
RedSibling ==
  /\ Short /\ Red(Sibling)
  /\ color' = [color EXCEPT ![Sibling] = "BLACK", ![up] = "RED"]
  /\ rb_rotate(ShortSide, up)
  /\ UNCHANGED <<leftmost, count, pc, thread, at, up>>

PassUp ==
  /\ Short /\ ~Red(Sibling)
  /\ Sibling = Nil \/ (~Red(Near) /\ ~Red(Far))
  /\ color' = Paint(color, Sibling, "RED")
  /\ at' = up
  /\ up' = parent[up]
  /\ UNCHANGED <<links, leftmost, count, pc, thread>>

(* A black far nephew: the near one, which is red, becomes the sibling.    *)
TurnNear ==
  /\ Short /\ ~Red(Sibling)
  /\ Sibling # Nil /\ Red(Near) /\ ~Red(Far)
  /\ color' = [color EXCEPT ![Near] = "BLACK", ![Sibling] = "RED"]
  /\ rb_rotate(Other(ShortSide), Sibling)
  /\ UNCHANGED <<leftmost, count, pc, thread, at, up>>

(* A red far nephew: x = rb_root and break.                                *)
TurnFar ==
  /\ Short /\ ~Red(Sibling)
  /\ Sibling # Nil /\ Red(Far)
  /\ color' = [color EXCEPT ![Sibling] = color[up], ![up] = "BLACK", ![Far] = "BLACK"]
  /\ rb_rotate(ShortSide, up)
  /\ at' = root' /\ up' = Nil
  /\ UNCHANGED <<leftmost, count, pc, thread>>

Repaired ==
  /\ pc = "remove_fixup" /\ (at = root \/ Red(at))
  /\ color' = Paint(color, at, "BLACK")
  /\ pc' = "clear"
  /\ UNCHANGED <<links, leftmost, count, thread, at, up>>

(* The end of rb_remove.                                                   *)
Removed ==
  /\ pc = "clear"
  /\ kid' = [d \in Side |-> [kid[d] EXCEPT ![thread] = Nil]]
  /\ parent' = [parent EXCEPT ![thread] = Nil]
  /\ count' = count - 1
  /\ Return
  /\ UNCHANGED <<root, leftmost, color>>

-----------------------------------------------------------------------------
TreeNext ==
  \/ cfs_enqueue \/ Descend \/ rb_insert
  \/ Climb \/ TurnInside \/ TurnOutside \/ Inserted
  \/ cfs_dequeue \/ cfs_remove \/ Search \/ Found \/ NotFound
  \/ RedSibling \/ PassUp \/ TurnNear \/ TurnFar \/ Repaired \/ Removed

TreeSpec == TreeInit /\ [][TreeNext]_treeVars

-----------------------------------------------------------------------------
(* The numbers of black nodes on the paths down from n.                    *)
BlackHeights(n) ==
  LET heights[m \in Link] ==
        IF m = Nil THEN {0}
        ELSE {h + (IF Red(m) THEN 0 ELSE 1) :
                h \in heights[kid["L"][m]] \cup heights[kid["R"][m]]}
  IN heights[n]

(* What makes rb_insert, the leftmost removal and cfs_remove logarithmic,  *)
(* whenever an operation is over: a black root, no red node below a red    *)
(* one, as many black nodes on every path; and the parent links that the   *)
(* fix-ups climb by are the inverse of the child links.                    *)
RedBlack ==
  pc = "idle" =>
    /\ ~Red(root)
    /\ \A n \in Linked : Red(n) => ~Red(parent[n])
    /\ Cardinality(BlackHeights(root)) = 1
    /\ root # Nil => parent[root] = Nil
    /\ \A n \in Linked, d \in Side : kid[d][n] # Nil => parent[kid[d][n]] = n

(* "Cache for O(1) access" (internal.h): the cached leftmost thread and    *)
(* the count, on which cfs_dequeue and cfs_should_preempt rely, are those  *)
(* of the tree after every operation; and cfs_remove gives up on a linked  *)
(* thread only when another one has the same vruntime.  After rotations a  *)
(* thread may lie to the left of one with the same vruntime, and there the *)
(* search does not look.                                                   *)
LookupsExact ==
  LET q == InOrder(kid, root) IN
  /\ pc = "idle" => /\ leftmost = IF q = <<>> THEN Nil ELSE q[1]
                    /\ count = Len(q)
  /\ pc = "search" /\ at = Nil /\ thread \in Linked =>
       \E u \in Linked \ {thread} : key[u] = key[thread]

Contract == INSTANCE RunOrder WITH order <- InOrder(kid, root), vruntime <- key

(* Read from left to right the tree is the run order that CFS wants:       *)
(* rb_insert puts a thread behind its equals and leaves the others where   *)
(* they are, rb_remove takes out one thread, and no fix-up loses or moves  *)
(* one.                                                                    *)
ImplementsOrder == Contract!Spec
=============================================================================
