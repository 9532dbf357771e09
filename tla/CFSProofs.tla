----------------------------- MODULE CFSProofs ------------------------------
(***************************************************************************)
(* Proofs about CFS, for any number of threads, nice values and bounds:    *)
(* scheduler.c over sched_cfs.c implements Scheduler, keeps its tree in    *)
(* order and serves the thread that has run least.                         *)
(*                                                                         *)
(* And about RBTree, for any number of threads and keys: the pointer code  *)
(* of sched_cfs.c keeps a red-black tree, its cache and its lookups are    *)
(* exact, and it implements RunOrder, the order that CFS takes for granted.*)
(***************************************************************************)
EXTENDS CFS, RBTree, SchedulerProofs

(* The part of CFSAssumption that the proofs need.                         *)
CFSBounds ==
  /\ IsFiniteSet(Thread) /\ Nices \subseteq -20 .. 19
  /\ Boot \in Nat /\ MaxStep \in Nat /\ MaxRan \in Nat /\ Boot <= MaxRan
  /\ MaxVruntime \in Nat /\ Granularity \in Nat /\ Word \in Nat /\ MaxVruntime < Word

(* CFSAssumption in the form the lemmas below take it.                     *)
LEMMA Bounds == CFSBounds
  BY CFSAssumption DEF CFSBounds

(* The threads of a list q are in the order of their keys vr.              *)
Sorted(q, vr) == \A i, j \in 1 .. Len(q) : i < j => vr[q[i]] <= vr[q[j]]

(* SpliceFacts for a list of threads.                                      *)
LEMMA SpliceThread ==
  ASSUME NEW q \in Seq(Thread), NEW k \in 0 .. Len(q), NEW u \in Thread
  PROVE  LET s == Splice(q, u, k) IN
         /\ s \in Seq(Thread) /\ Len(s) = Len(q) + 1
         /\ \A i \in 1 .. k : s[i] = q[i]
         /\ s[k + 1] = u
         /\ \A i \in k + 1 .. Len(q) : s[i + 1] = q[i]
<1>1. Splice(q, u, k) \in Seq(Thread)
  BY SpliceFacts
<1>2. Len(Splice(q, u, k)) = Len(q) + 1 /\ Splice(q, u, k)[k + 1] = u
  BY SpliceFacts
<1>3. \A i \in 1 .. k : Splice(q, u, k)[i] = q[i]
  BY SpliceFacts
<1>4. \A i \in k + 1 .. Len(q) : Splice(q, u, k)[i + 1] = q[i]
  BY SpliceFacts
<1> QED
  BY <1>1, <1>2, <1>3, <1>4

(* s is q with u behind its first k members, whose keys are not above that *)
(* of u while those of the others are not below.                           *)
Spliced(s, q, u, k, vr) ==
  /\ s \in Seq(Thread) /\ Len(s) = Len(q) + 1 /\ k \in 0 .. Len(q)
  /\ \A i \in 1 .. k : s[i] = q[i] /\ vr[q[i]] <= vr[u]
  /\ s[k + 1] = u
  /\ \A i \in k + 1 .. Len(q) : s[i + 1] = q[i] /\ vr[u] <= vr[q[i]]

(* Then s holds u and what q held, and is sorted when q is.                *)
LEMMA SplicedFacts ==
  ASSUME NEW q \in Seq(Thread), Distinct(q), NEW vr, Sorted(q, vr),
         NEW u, u \notin Members(q), NEW s, NEW k, Spliced(s, q, u, k, vr)
  PROVE  Distinct(s) /\ Sorted(s, vr) /\ Members(s) = Members(q) \cup {u}
<1> DEFINE n == Len(q)
<1>0. /\ n \in Nat /\ s \in Seq(Thread) /\ Len(s) = n + 1 /\ k \in 0 .. n
      /\ \A i \in 1 .. k : s[i] = q[i] /\ vr[q[i]] <= vr[u]
      /\ s[k + 1] = u
      /\ \A i \in k + 1 .. n : s[i + 1] = q[i] /\ vr[u] <= vr[q[i]]
  BY DEF Spliced
<1>a. Len(q) = n
  OBVIOUS
<1> HIDE DEF n
<1> USE <1>0, <1>a
<1>1. ASSUME NEW i \in 1 .. n + 1
      PROVE  \/ i \in 1 .. k /\ s[i] = q[i]
             \/ i = k + 1
             \/ i - 1 \in k + 1 .. n /\ s[i] = q[i - 1]
  <2>1. i \in 1 .. k \/ i = k + 1 \/ (i - 1 \in k + 1 .. n /\ i - 1 + 1 = i)
    OBVIOUS
  <2> QED
    BY <2>1
<1>2. /\ \A i, j \in 1 .. n : q[i] = q[j] => i = j
      /\ \A i, j \in 1 .. n : i < j => vr[q[i]] <= vr[q[j]]
      /\ \A i \in 1 .. n : q[i] # u
  BY DEF Distinct, Sorted, Members
<1>3. ASSUME NEW i \in 1 .. n + 1, NEW j \in 1 .. n + 1, i < j
      PROVE  s[i] # s[j] /\ vr[s[i]] <= vr[s[j]]
  <2>1. CASE i \in 1 .. k /\ s[i] = q[i]
    <3>1. CASE j \in 1 .. k /\ s[j] = q[j]
      BY <1>2, <1>3, <2>1, <3>1
    <3>2. CASE j = k + 1
      BY <1>2, <2>1, <3>2
    <3>3. CASE j - 1 \in k + 1 .. n /\ s[j] = q[j - 1]
      <4>1. i \in 1 .. n /\ j - 1 \in 1 .. n /\ i < j - 1
        BY <2>1, <3>3
      <4> QED
        BY <1>2, <2>1, <3>3, <4>1
    <3> QED
      BY <1>1, <3>1, <3>2, <3>3
  <2>2. CASE i = k + 1
    <3>1. j - 1 \in k + 1 .. n /\ s[j] = q[j - 1] /\ j - 1 \in 1 .. n
      BY <1>1, <1>3, <2>2
    <3> QED
      BY <1>2, <2>2, <3>1
  <2>3. CASE i - 1 \in k + 1 .. n /\ s[i] = q[i - 1]
    <3>1. j - 1 \in k + 1 .. n /\ s[j] = q[j - 1] /\ j - 1 \in 1 .. n
      BY <1>1, <1>3, <2>3
    <3>2. i - 1 \in 1 .. n /\ i - 1 < j - 1
      BY <1>3, <2>3
    <3> QED
      BY <1>2, <2>3, <3>1, <3>2
  <2> QED
    BY <1>1, <2>1, <2>2, <2>3
<1>4. Sorted(s, vr)
  BY <1>3 DEF Sorted
<1>5. Distinct(s)
  <2>1. \A i, j \in 1 .. n + 1 : i < j \/ j < i \/ i = j
    OBVIOUS
  <2> QED
    BY <1>3, <2>1 DEF Distinct
<1>6. Members(s) = Members(q) \cup {u}
  <2>1. ASSUME NEW i \in 1 .. n + 1 PROVE s[i] \in Members(q) \cup {u}
    <3>1. i - 1 \in k + 1 .. n => i - 1 \in 1 .. n
      OBVIOUS
    <3>2. i \in 1 .. k => i \in 1 .. n
      OBVIOUS
    <3> QED
      BY <1>1, <3>1, <3>2 DEF Members
  <2>2. k + 1 \in 1 .. n + 1
    OBVIOUS
  <2>3. ASSUME NEW i \in 1 .. n PROVE q[i] \in Members(s)
    <3>1. CASE i \in 1 .. k
      <4>1. i \in 1 .. n + 1 /\ s[i] = q[i]
        BY <3>1
      <4> QED
        BY <4>1 DEF Members
    <3>2. CASE i \in k + 1 .. n
      <4>1. i + 1 \in 1 .. n + 1 /\ s[i + 1] = q[i]
        BY <3>2
      <4> QED
        BY <4>1 DEF Members
    <3>3. i \in 1 .. k \/ i \in k + 1 .. n
      OBVIOUS
    <3> QED
      BY <3>1, <3>2, <3>3
  <2>4. Members(s) = {s[i] : i \in 1 .. n + 1} /\ Members(q) = {q[i] : i \in 1 .. n}
    BY DEF Members
  <2>5. u \in Members(s)
    BY <2>2, <2>4
  <2>6. Members(s) \subseteq Members(q) \cup {u}
    BY <2>1, <2>4
  <2>7. Members(q) \subseteq Members(s)
    BY <2>3, <2>4
  <2> QED
    BY <2>5, <2>6, <2>7
<1> QED
  BY <1>4, <1>5, <1>6

(* A thread is inserted behind those whose keys are not above its own and  *)
(* in front of the others, and a list that was sorted still is.            *)
LEMMA CFInsert ==
  ASSUME NEW q \in Seq(Thread), Distinct(q), NEW vr \in [Thread -> Nat], Sorted(q, vr),
         NEW u \in Thread, u \notin Members(q)
  PROVE  LET s == Run!InsertBy(q, u, vr) IN
         /\ s \in Seq(Thread) /\ Distinct(s) /\ Sorted(s, vr)
         /\ Members(s) = Members(q) \cup {u}
<1> DEFINE B == {0} \cup {i \in DOMAIN q : vr[q[i]] <= vr[u]}
           K == Run!Max(B)
<1>1. Len(q) \in Nat /\ DOMAIN q = 1 .. Len(q) /\ \A i \in 1 .. Len(q) : q[i] \in Thread
  OBVIOUS
<1>2. B \in SUBSET (0 .. Len(q)) /\ B # {}
  BY <1>1
<1>3. K \in B /\ \A i \in B : K >= i
  <2>1. \E m \in B : \A i \in B : m >= i
    BY <1>1, <1>2, Greatest
  <2> HIDE DEF B
  <2> QED
    BY <2>1 DEF Run!Max
<1>4. Run!InsertBy(q, u, vr) = Append(SubSeq(q, 1, K), u) \o SubSeq(q, K + 1, Len(q))
  BY Zenon DEF Run!InsertBy
<1> HIDE DEF K
<1>5. /\ K \in 0 .. Len(q)
      /\ \A i \in 1 .. Len(q) : i <= K => vr[q[i]] <= vr[u]
      /\ \A i \in 1 .. Len(q) : i > K => vr[u] <= vr[q[i]]
  <2>1. K \in 0 .. Len(q)
    BY <1>2, <1>3
  <2>2. \A i \in 1 .. Len(q) : vr[q[i]] \in Nat /\ vr[u] \in Nat
    BY <1>1
  <2>3. K # 0 => K \in 1 .. Len(q) /\ vr[q[K]] <= vr[u]
    BY <1>1, <1>3
  <2>4. ASSUME NEW i \in 1 .. Len(q), i <= K PROVE vr[q[i]] <= vr[u]
    <3>1. K \in 1 .. Len(q) /\ vr[q[K]] <= vr[u]
      BY <2>1, <2>3, <2>4
    <3>2. i = K \/ vr[q[i]] <= vr[q[K]]
      BY <2>1, <2>4, <3>1 DEF Sorted
    <3> QED
      BY <2>2, <3>1, <3>2
  <2>5. ASSUME NEW i \in 1 .. Len(q), i > K PROVE vr[u] <= vr[q[i]]
    <3>1. i \notin B
      BY <1>3, <2>1, <2>5
    <3> QED
      BY <1>1, <2>2, <3>1
  <2> QED
    BY <2>1, <2>4, <2>5
<1> HIDE DEF B
<1>6. PICK k \in 0 .. Len(q) : k = K
  BY <1>5
<1>7. PICK s : s = Run!InsertBy(q, u, vr)
  OBVIOUS
<1>8. /\ s \in Seq(Thread) /\ Len(s) = Len(q) + 1
      /\ \A i \in 1 .. k : s[i] = q[i]
      /\ s[k + 1] = u
      /\ \A i \in k + 1 .. Len(q) : s[i + 1] = q[i]
  <2>1. s = Append(SubSeq(q, 1, k), u) \o SubSeq(q, k + 1, Len(q))
    BY <1>4, <1>6, <1>7
  <2>2. s = Splice(q, u, k)
    BY <2>1 DEF Splice
  <2>3. LET e == Splice(q, u, k) IN
        /\ e \in Seq(Thread) /\ Len(e) = Len(q) + 1
        /\ \A i \in 1 .. k : e[i] = q[i]
        /\ e[k + 1] = u
        /\ \A i \in k + 1 .. Len(q) : e[i + 1] = q[i]
    BY SpliceThread
  <2> QED
    BY <2>2, <2>3
<1>9. /\ \A i \in 1 .. k : vr[q[i]] <= vr[u]
      /\ \A i \in k + 1 .. Len(q) : vr[u] <= vr[q[i]]
  BY <1>1, <1>5, <1>6
<1>10. Distinct(s) /\ Sorted(s, vr) /\ Members(s) = Members(q) \cup {u}
  <2>1. Spliced(s, q, u, k, vr)
    BY <1>8, <1>9 DEF Spliced
  <2> QED
    BY <2>1, SplicedFacts
<1> QED
  BY <1>7, <1>8, <1>10

(* A remainder that fits is the remainder.                                 *)
LEMMA SmallMod ==
  ASSUME NEW w \in Nat \ {0}, NEW d \in 0 .. w - 1
  PROVE  d % w = d
<1>1. d \div w \in Int /\ d % w \in 0 .. w - 1 /\ d = w * (d \div w) + (d % w)
  OBVIOUS
<1>2. PICK k \in Int, r \in 0 .. w - 1 : k = d \div w /\ r = d % w /\ d = w * k + r
  BY <1>1
<1>3. k >= 1 => w * k >= w
  OBVIOUS
<1>4. k <= -1 => w * k <= -w
  OBVIOUS
<1>5. k = 0
  BY <1>2, <1>3, <1>4
<1> QED
  BY <1>2, <1>5

(* Time that passes is charged as virtual time that passes.                *)
LEMMA CFCharge ==
  ASSUME NEW e \in Nat, NEW n \in -20 .. 19
  PROVE  Charge(e, nice_to_weight(n)) \in Nat
<1>1. ASSUME NEW w \in Nat \ {0} PROVE Charge(e, w) \in Nat
  <2>1. \A x \in Nat : x \div w \in Nat
    OBVIOUS
  <2>2. e * 1024 \in Nat
    OBVIOUS
  <2> QED
    BY <2>1, <2>2 DEF Charge
<1>2. n + 21 \in 1 .. 40
  OBVIOUS
<1>3. \A i \in 1 .. 40 : weight_table[i] \in Nat \ {0}
  BY DEF weight_table
<1>4. nice_to_weight(n) \in Nat \ {0}
  BY <1>2, <1>3 DEF nice_to_weight
<1> QED
  BY <1>1, <1>4

(* What TypeOK says of the variables that only sched_cfs.c keeps.          *)
CFTypes ==
  /\ vruntime \in [Thread -> 0 .. MaxVruntime] /\ min_vruntime \in 0 .. MaxVruntime
  /\ nice \in [Thread -> Nices] /\ slice \in [Thread -> {"none", "some", "endless"}]
  /\ ran \in 0 .. MaxRan /\ timed \in BOOLEAN

(* The two ways of speaking of the tree.                                   *)
LEMMA CFList ==
  ASSUME NEW q \in Seq(Thread), NEW vr
  PROVE  /\ Range(q) = Members(q) /\ Run!Range(q) = Members(q)
         /\ IsInjective(q) <=> Distinct(q)
         /\ (\A i, j \in DOMAIN q : i < j => vr[q[i]] <= vr[q[j]]) <=> Sorted(q, vr)
<1>1. DOMAIN q = 1 .. Len(q)
  OBVIOUS
<1>2. IsInjective(q) <=> Distinct(q)
  BY DEF IsInjective, Distinct
<1>3. Range(q) = Members(q)
  BY DEF Range, Members
<1>4. Run!Range(q) = Members(q)
  BY DEF Run!Range, Members
<1>5. (\A i, j \in DOMAIN q : i < j => vr[q[i]] <= vr[q[j]]) <=> Sorted(q, vr)
  BY <1>1 DEF Sorted
<1> QED
  BY <1>2, <1>3, <1>4, <1>5

(* The invariant, unfolded once for the steps below.                       *)
LEMMA CFFacts ==
  ASSUME TreeOK
  PROVE  /\ current \in Thread \cup {Idle} /\ state \in [Thread -> ThreadState]
         /\ tree \in Seq(Thread) /\ Distinct(tree) /\ Sorted(tree, vruntime) /\ CFTypes
         /\ Range(tree) = Members(tree) /\ Members(tree) \subseteq Thread
         /\ current \notin Members(tree)
         /\ \A t \in Members(tree) : state[t] = "READY"
         /\ current \in Thread => state[current] # "BLOCKED"
<1>1. tree \in Seq(Thread)
  BY DEF TreeOK, TypeOK
<1>2. Range(tree) = Members(tree) /\ Members(tree) \subseteq Thread
  BY <1>1, CFList, EmptyFacts
<1>3. Distinct(tree) /\ Sorted(tree, vruntime)
  BY <1>1, CFList DEF TreeOK, TreeSorted
<1>4. current \in Thread \cup {Idle} /\ state \in [Thread -> ThreadState] /\ CFTypes
  BY DEF TreeOK, TypeOK, CFTypes, ThreadState
<1> QED
  BY <1>1, <1>2, <1>3, <1>4 DEF TreeOK

(* The unfolded invariant gives it back in the next state.                 *)
LEMMA CFFold ==
  ASSUME current' \in Thread \cup {Idle}, state' \in [Thread -> ThreadState],
         tree' \in Seq(Thread), Distinct(tree'), Sorted(tree', vruntime'), CFTypes',
         current' \notin Members(tree'),
         \A t \in Members(tree') : state'[t] = "READY",
         current' \in Thread => state'[current'] # "BLOCKED"
  PROVE  TreeOK' /\ Range(tree)' = Members(tree')
<1>1. Range(tree') = Members(tree')
  BY CFList
<1>2. Range(tree)' = Range(tree')
  BY DEF Range
<1>3. IsInjective(tree)'
  BY DEF IsInjective, Distinct
<1>4. TreeSorted'
  <2>1. \A i, j \in DOMAIN tree' : i < j => vruntime'[tree'[i]] <= vruntime'[tree'[j]]
    BY CFList
  <2> QED
    BY <1>3, <2>1 DEF TreeSorted
<1>5. TypeOK'
  BY DEF TypeOK, CFTypes, ThreadState
<1> QED
  BY <1>1, <1>2, <1>4, <1>5 DEF TreeOK

(* A step that ends in scheduler_schedule with cfs_dequeue, when the tree  *)
(* has become q, sorted by the new keys: it keeps the invariant, is        *)
(* scheduler_schedule of the core, and leaves no lower key behind.         *)
LEMMA CFDispatch ==
  ASSUME NEW st \in [Thread -> ThreadState], NEW q \in Seq(Thread), Distinct(q),
         NEW time, Schedule(st, q, time),
         Sorted(q, vruntime'), CFTypes', \A t \in Members(q) : st[t] = "READY"
  PROVE  /\ TreeOK' /\ Core!scheduler_schedule(st, Members(q))
         /\ \A u \in Range(tree)' : current' # Idle /\ vruntime'[current'] <= vruntime'[u]
<1> DEFINE next == IF q = <<>> THEN Idle ELSE Head(q)
<1>1. /\ tree' = IF q = <<>> THEN q ELSE Tail(q)
      /\ current' = next
      /\ state' = IF next = current THEN st ELSE Core!SwitchStates(st, next)
  BY DEF Schedule
<1>2. /\ tree' \in Seq(Thread) /\ Distinct(tree')
      /\ next \in IF Members(q) = {} THEN {Idle} ELSE Members(q)
      /\ Members(tree') = Members(q) \ {next}
  BY <1>1, TailFacts, EmptyFacts, IdleAssumption
<1>3. Sorted(tree', vruntime') /\ \A u \in Members(tree') : vruntime'[next] <= vruntime'[u]
  <2>1. CASE q = <<>>
    BY <1>1, <2>1 DEF Sorted, Members
  <2>2. CASE q # <<>>
    <3>1. PICK n \in Nat, r \in Seq(Thread) :
            n = Len(q) /\ r = tree' /\ Len(r) = n - 1 /\ n >= 1
            /\ \A i \in 1 .. n - 1 : r[i] = q[i + 1]
      <4>1. tree' = Tail(q)
        BY <1>1, <2>2
      <4>2. /\ Len(q) \in Nat /\ Len(q) >= 1
            /\ Tail(q) \in Seq(Thread) /\ Len(Tail(q)) = Len(q) - 1
            /\ \A i \in 1 .. Len(q) - 1 : Tail(q)[i] = q[i + 1]
        BY <2>2
      <4> QED
        BY <4>1, <4>2, Zenon
    <3>2. q[1] = next
      BY <2>2
    <3>3. \A i, j \in 1 .. n : i < j => vruntime'[q[i]] <= vruntime'[q[j]]
      BY <3>1 DEF Sorted
    <3> HIDE DEF next
    <3>4. Sorted(r, vruntime')
      <4>1. \A i \in 1 .. n - 1 : i + 1 \in 1 .. n
        OBVIOUS
      <4>2. ASSUME NEW i \in 1 .. n - 1, NEW j \in 1 .. n - 1, i < j
            PROVE  vruntime'[r[i]] <= vruntime'[r[j]]
        <5>1. i + 1 \in 1 .. n /\ j + 1 \in 1 .. n /\ i + 1 < j + 1
          BY <4>2
        <5> QED
          BY <3>1, <3>3, <5>1
      <4> QED
        BY <3>1, <4>2 DEF Sorted
    <3>5. ASSUME NEW i \in 1 .. n - 1 PROVE vruntime'[next] <= vruntime'[r[i]]
      <4>1. 1 \in 1 .. n /\ i + 1 \in 1 .. n /\ 1 < i + 1
        OBVIOUS
      <4> QED
        BY <3>1, <3>2, <3>3, <4>1
    <3>6. \A u \in Members(r) : vruntime'[next] <= vruntime'[u]
      BY <3>1, <3>5 DEF Members
    <3> QED
      BY <3>1, <3>4, <3>6
  <2> QED
    BY <2>1, <2>2
<1> HIDE DEF next
<1>4. Core!SwitchStates(st, next) =
        [t \in Thread |-> IF t = next THEN "RUNNING"
                         ELSE IF t = current /\ st[t] = "RUNNING" THEN "READY" ELSE st[t]]
  BY DEF Core!SwitchStates
<1>5. Members(q) \subseteq Thread /\ next \in Members(q) \cup {Idle}
  BY <1>2, EmptyFacts
<1>6. state' \in [Thread -> ThreadState]
  BY <1>1, <1>4 DEF ThreadState
<1>7. \A t \in Thread :
        /\ t = next => state'[t] \in {"RUNNING", st[t]}
        /\ t # next => state'[t] \in {st[t], "READY"}
  BY <1>1, <1>4
<1>8. \A t \in Members(tree') : state'[t] = "READY"
  BY <1>2, <1>5, <1>7
<1>9. next \in Thread => state'[next] # "BLOCKED"
  BY <1>5, <1>7, IdleAssumption
<1>10. TreeOK' /\ Range(tree)' = Members(tree')
  BY <1>1, <1>2, <1>3, <1>5, <1>6, <1>8, <1>9, CFFold
<1>11. Core!scheduler_schedule(st, Members(q))
  BY <1>1, <1>2, <1>10 DEF Core!scheduler_schedule, Core!Dequeue
<1>12. Members(tree') # {} => next # Idle
  BY <1>2, <1>5, IdleAssumption
<1> QED
  BY <1>1, <1>3, <1>10, <1>11, <1>12

(* cfs_enqueue of a thread that is not linked, whose key alone may have    *)
(* changed to vr[u].                                                       *)
LEMMA CFEnqueue ==
  ASSUME MaxVruntime \in Nat, TreeOK, NEW u \in Thread, u \notin Members(tree),
         NEW vr \in [Thread -> 0 .. MaxVruntime], \A v \in Thread : v # u => vr[v] = vruntime[v],
         NEW floor \in 0 .. MaxVruntime
  PROVE  LET fl == Floored(vr, u, floor)
             q == Run!InsertBy(tree, u, fl) IN
         /\ fl \in [Thread -> 0 .. MaxVruntime] /\ q \in Seq(Thread) /\ Distinct(q)
         /\ Sorted(q, fl) /\ Members(q) = Members(tree) \cup {u}
<1>1. PICK fl : fl = Floored(vr, u, floor)
  OBVIOUS
<1>2. /\ fl \in [Thread -> 0 .. MaxVruntime]
      /\ \A v \in Thread : v # u => fl[v] = vruntime[v]
  BY <1>1 DEF Floored
<1>3. fl \in [Thread -> Nat]
  BY <1>2
<1>4. Sorted(tree, fl)
  <2>1. \A i \in 1 .. Len(tree) : tree[i] \in Thread /\ tree[i] # u
    BY CFFacts DEF Members
  <2>2. Sorted(tree, vruntime)
    BY CFFacts
  <2> QED
    BY <1>2, <2>1, <2>2 DEF Sorted
<1> QED
  BY <1>1, <1>2, <1>3, <1>4, CFFacts, CFInsert

(* The thread with the CPU goes back to the tree and the next one is       *)
(* dispatched.                                                             *)
LEMMA CFRequeue ==
  ASSUME MaxVruntime \in Nat, MaxRan \in Nat, TreeOK, NEW t \in Thread, current = t,
         NEW vr \in [Thread -> 0 .. MaxVruntime], \A v \in Thread : v # t => vr[v] = vruntime[v],
         NEW floor \in 0 .. MaxVruntime, NEW time \in 0 .. MaxRan,
         Requeue(t, vr, floor, time),
         min_vruntime' \in 0 .. MaxVruntime, nice' = nice
  PROVE  /\ TreeOK'
         /\ Core!scheduler_schedule([state EXCEPT ![t] = "READY"], Range(tree) \cup {t})
         /\ \A u \in Range(tree)' : current' # Idle /\ vruntime'[current'] <= vruntime'[u]
<1> DEFINE st == [state EXCEPT ![t] = "READY"]
           fl == Floored(vr, t, floor)
           q == Run!InsertBy(tree, t, fl)
<1>1. /\ vruntime' = fl /\ slice' = [slice EXCEPT ![t] = NewSlice(t)]
      /\ Schedule(st, q, time)
  BY DEF Requeue
<1>2. t \notin Members(tree)
  BY CFFacts
<1>3. /\ fl \in [Thread -> 0 .. MaxVruntime] /\ q \in Seq(Thread) /\ Distinct(q)
      /\ Sorted(q, fl) /\ Members(q) = Members(tree) \cup {t}
  BY <1>2, CFEnqueue
<1>4. st \in [Thread -> ThreadState] /\ \A u \in Members(tree) \cup {t} : st[u] = "READY"
  BY CFFacts DEF ThreadState
<1> HIDE DEF st, fl, q
<1>5. ran' \in 0 .. MaxRan /\ timed' \in BOOLEAN
  BY <1>1 DEF Schedule
<1>6. slice' \in [Thread -> {"none", "some", "endless"}]
  <2>1. NewSlice(t) \in {"none", "some", "endless"}
    BY DEF NewSlice
  <2>2. slice \in [Thread -> {"none", "some", "endless"}]
    BY CFFacts DEF CFTypes
  <2> QED
    BY <1>1, <2>1, <2>2
<1>7. CFTypes'
  <2>1. nice' \in [Thread -> Nices]
    BY CFFacts DEF CFTypes
  <2> QED
    BY <1>1, <1>3, <1>5, <1>6, <2>1 DEF CFTypes
<1>8. Sorted(q, vruntime')
  BY <1>1, <1>3
<1>9. /\ TreeOK' /\ Core!scheduler_schedule(st, Members(q))
      /\ \A u \in Range(tree)' : current' # Idle /\ vruntime'[current'] <= vruntime'[u]
  BY <1>1, <1>3, <1>4, <1>7, <1>8, CFDispatch
<1>10. Members(q) = Range(tree) \cup {t}
  BY <1>3, CFFacts
<1> QED
  BY <1>9, <1>10 DEF st

(* The running thread is charged for the time it ran.                      *)
LEMMA CFCharged ==
  ASSUME CFSBounds, TreeOK, NEW t \in Thread, NEW step \in 0 .. MaxStep,
         ran + step <= MaxRan
  PROVE  LET vr == [vruntime EXCEPT ![t] = @ + Charge(ran + step, nice_to_weight(nice[t]))]
         IN /\ ran + step \in 0 .. MaxRan
            /\ vr[t] <= MaxVruntime => vr \in [Thread -> 0 .. MaxVruntime]
            /\ vr[t] \in Nat
            /\ \A v \in Thread : v # t => vr[v] = vruntime[v]
<1>1. PICK c : c = Charge(ran + step, nice_to_weight(nice[t]))
  OBVIOUS
<1>2. /\ ran \in 0 .. MaxRan /\ vruntime \in [Thread -> 0 .. MaxVruntime]
      /\ nice \in [Thread -> Nices] /\ MaxRan \in Nat /\ MaxStep \in Nat /\ MaxVruntime \in Nat
  BY CFFacts DEF CFTypes, CFSBounds
<1>3. ran + step \in Nat /\ ran + step \in 0 .. MaxRan
  BY <1>2
<1>4. nice[t] \in -20 .. 19
  BY <1>2 DEF CFSBounds
<1>5. c \in Nat
  BY <1>1, <1>3, <1>4, CFCharge
<1> QED
  BY <1>1, <1>2, <1>3, <1>5

(* scheduler_tick: besides, no linked thread is more than the granularity  *)
(* behind the running one, because the unsigned difference to the leftmost *)
(* key is the true one whenever that key is the lower.                     *)
LEMMA CFTick ==
  ASSUME CFSBounds, TreeOK, NEW t \in Thread, Tick(t)
  PROVE  /\ TreeOK'
         /\ Core!SchedNext \/ UNCHANGED Core!schedVars
         /\ current' # current =>
              \A u \in Range(tree)' : current' # Idle /\ vruntime'[current'] <= vruntime'[u]
         /\ \A u \in Range(tree)' : vruntime'[current'] <= vruntime'[u] + Granularity
<1>1. PICK step \in 1 .. MaxStep, left \in {"none", slice[t]} :
        LET time == ran + step
            vr == [vruntime EXCEPT ![t] = @ + Charge(time, nice_to_weight(nice[t]))]
            floor == IF vr[t] > min_vruntime THEN vr[t] ELSE min_vruntime
        IN /\ time <= MaxRan /\ vr[t] <= MaxVruntime /\ min_vruntime' = floor
           /\ \/ cfs_should_preempt(t, vr, left) /\ Requeue(t, vr, floor, time)
              \/ /\ ~cfs_should_preempt(t, vr, left) /\ vruntime' = vr
                 /\ slice' = [slice EXCEPT ![t] = left] /\ ran' = time
                 /\ UNCHANGED <<current, state, tree, timed>>
  BY DEF Tick
<1> DEFINE time == ran + step
           vr == [vruntime EXCEPT ![t] = @ + Charge(time, nice_to_weight(nice[t]))]
           floor == IF vr[t] > min_vruntime THEN vr[t] ELSE min_vruntime
<1>2. time <= MaxRan /\ vr[t] <= MaxVruntime /\ min_vruntime' = floor
  BY <1>1
<1>3. \/ cfs_should_preempt(t, vr, left) /\ Requeue(t, vr, floor, time)
      \/ /\ ~cfs_should_preempt(t, vr, left) /\ vruntime' = vr
         /\ slice' = [slice EXCEPT ![t] = left] /\ ran' = time
         /\ UNCHANGED <<current, state, tree, timed>>
  BY <1>1
<1>4. step \in 0 .. MaxStep /\ MaxStep \in Nat
  BY DEF CFSBounds
<1>5. /\ time \in 0 .. MaxRan /\ vr \in [Thread -> 0 .. MaxVruntime]
      /\ \A v \in Thread : v # t => vr[v] = vruntime[v]
  BY <1>2, <1>4, CFCharged
<1>6. current = t /\ nice' = nice
  BY DEF Tick
<1> HIDE DEF time, vr
<1>7. /\ MaxVruntime \in Nat /\ MaxRan \in Nat /\ Granularity \in Nat /\ Word \in Nat \ {0}
      /\ MaxVruntime < Word
  BY DEF CFSBounds
<1>8. floor \in 0 .. MaxVruntime
  <2>1. min_vruntime \in 0 .. MaxVruntime /\ vr[t] \in 0 .. MaxVruntime
    BY <1>5, CFFacts DEF CFTypes
  <2> QED
    BY <2>1
<1> HIDE DEF floor
<1>9. CASE cfs_should_preempt(t, vr, left) /\ Requeue(t, vr, floor, time)
  <2>1. /\ TreeOK'
        /\ Core!scheduler_schedule([state EXCEPT ![t] = "READY"], Range(tree) \cup {t})
        /\ \A u \in Range(tree)' : current' # Idle /\ vruntime'[current'] <= vruntime'[u]
    BY <1>2, <1>5, <1>6, <1>7, <1>8, <1>9, CFRequeue
  <2>2. tree # <<>>
    BY <1>9 DEF cfs_should_preempt
  <2>3. Range(tree) # {}
    BY <2>2, CFFacts, EmptyFacts
  <2>4. Core!SchedNext
    BY <1>6, <2>1, <2>3 DEF Core!scheduler_tick, Core!SchedNext
  <2>5. ASSUME NEW u \in Range(tree)'
        PROVE  vruntime'[current'] <= vruntime'[u] + Granularity
    <3>1. tree' \in Seq(Thread) /\ vruntime' \in [Thread -> 0 .. MaxVruntime]
          /\ current' \in Thread \cup {Idle}
      BY <2>1 DEF TreeOK, TypeOK
    <3>2. u \in Thread
      BY <3>1 DEF Range
    <3>3. vruntime'[u] \in Nat /\ vruntime'[current'] \in Nat
      BY <1>7, <2>1, <3>1, <3>2
    <3> QED
      BY <1>7, <2>1, <3>3
  <2> QED
    BY <2>1, <2>4, <2>5
<1>10. CASE /\ ~cfs_should_preempt(t, vr, left) /\ vruntime' = vr
            /\ slice' = [slice EXCEPT ![t] = left] /\ ran' = time
            /\ UNCHANGED <<current, state, tree, timed>>
  <2>1. CFTypes'
    <3>1. slice \in [Thread -> {"none", "some", "endless"}]
      BY CFFacts DEF CFTypes
    <3>2. slice' \in [Thread -> {"none", "some", "endless"}]
      BY <1>10, <3>1
    <3>3. nice' \in [Thread -> Nices] /\ timed' \in BOOLEAN
      BY <1>6, <1>10, CFFacts DEF CFTypes
    <3> QED
      BY <1>2, <1>5, <1>8, <1>10, <3>2, <3>3 DEF CFTypes
  <2>2. \A i \in 1 .. Len(tree) : tree[i] \in Thread /\ tree[i] # t
    BY <1>6, CFFacts DEF Members
  <2>3. Sorted(tree, vruntime) /\ Sorted(tree, vr)
    BY <1>5, <2>2, CFFacts DEF Sorted
  <2>4. TreeOK' /\ Range(tree)' = Members(tree')
    <3>1. Sorted(tree', vruntime')
      BY <1>10, <2>3
    <3> QED
      BY <1>10, <2>1, <3>1, CFFacts, CFFold
  <2>5. UNCHANGED Core!schedVars
    BY <1>10 DEF Core!schedVars, Range
  <2>6. ASSUME NEW u \in Members(tree) PROVE vr[t] <= vr[u] + Granularity
    <3>1. tree \in Seq(Thread) /\ tree # <<>> /\ 1 \in 1 .. Len(tree) /\ Head(tree) = tree[1]
      BY CFFacts DEF Members
    <3>2. ~((vr[t] - vr[Head(tree)]) % Word > Granularity)
      BY <1>10, <3>1 DEF cfs_should_preempt
    <3>3. PICK i \in 1 .. Len(tree) : tree[i] = u
      BY DEF Members
    <3>4. vr[Head(tree)] <= vr[u]
      <4>1. i = 1 \/ 1 < i
        BY <3>1, <3>3
      <4>2. vr[u] \in Nat
        BY <1>5, <1>7, <2>2, <3>3
      <4> QED
        BY <2>3, <3>1, <3>3, <4>1, <4>2 DEF Sorted
    <3>5. PICK a, b, c \in 0 .. MaxVruntime : a = vr[t] /\ b = vr[Head(tree)] /\ c = vr[u]
      BY <1>5, <2>2, <3>1, <3>3
    <3>6. CASE a >= b
      <4>1. a - b \in 0 .. Word - 1
        BY <1>7, <3>6
      <4>2. (a - b) % Word = a - b
        BY <1>7, <4>1, SmallMod
      <4>3. ~(a - b > Granularity)
        BY <3>2, <3>5, <4>2
      <4>4. b <= c
        BY <3>4, <3>5
      <4>5. a <= c + Granularity
        BY <1>7, <4>3, <4>4
      <4> QED
        BY <3>5, <4>5
    <3>7. CASE a < b
      <4>1. b <= c
        BY <3>4, <3>5
      <4>2. a <= c + Granularity
        BY <1>7, <3>7, <4>1
      <4> QED
        BY <3>5, <4>2
    <3> QED
      BY <3>6, <3>7
  <2> QED
    BY <1>6, <1>10, <2>4, <2>5, <2>6
<1> QED
  BY <1>3, <1>9, <1>10

(* A step that dispatches and leaves the keys of the linked threads alone. *)
LEMMA CFLeave ==
  ASSUME CFSBounds, TreeOK, NEW st \in [Thread -> ThreadState], NEW time \in 0 .. MaxRan,
         Schedule(st, tree, time), \A u \in Members(tree) : st[u] = "READY",
         vruntime' \in [Thread -> 0 .. MaxVruntime],
         \A v \in Members(tree) : vruntime'[v] = vruntime[v],
         UNCHANGED <<min_vruntime, nice, slice>>
  PROVE  /\ TreeOK' /\ Core!scheduler_schedule(st, Range(tree))
         /\ \A u \in Range(tree)' : current' # Idle /\ vruntime'[current'] <= vruntime'[u]
<1>1. 0 \in 0 .. MaxRan
  BY DEF CFSBounds
<1>2. ran' \in 0 .. MaxRan /\ timed' \in BOOLEAN
  BY <1>1 DEF Schedule
<1>3. CFTypes'
  BY <1>2, CFFacts DEF CFTypes
<1>4. Sorted(tree, vruntime')
  <2>1. \A i \in 1 .. Len(tree) : vruntime'[tree[i]] = vruntime[tree[i]]
    BY DEF Members
  <2>2. Sorted(tree, vruntime)
    BY CFFacts
  <2> QED
    BY <2>1, <2>2 DEF Sorted
<1> QED
  BY <1>3, <1>4, CFFacts, CFDispatch

(* Every step of scheduler.c over sched_cfs.c keeps the invariant, is a    *)
(* step of the core or leaves what the core sees alone, and gives the CPU  *)
(* to a thread with the lowest key.                                        *)
LEMMA CFStep ==
  ASSUME CFSBounds, TreeOK, Next
  PROVE  /\ TreeOK'
         /\ Core!SchedNext \/ UNCHANGED Core!schedVars
         /\ current' # current =>
              \A u \in Range(tree)' : current' # Idle /\ vruntime'[current'] <= vruntime'[u]
<1>1. PICK t \in Thread : \/ Yield(t) \/ Tick(t) \/ Block(t) \/ Unblock(t)
                          \/ Exit(t) \/ SetNice(t)
  BY DEF Next
<1> DEFINE Lowest == \A u \in Range(tree)' :
                       current' # Idle /\ vruntime'[current'] <= vruntime'[u]
<1>2. /\ state \in [Thread -> ThreadState] /\ tree \in Seq(Thread)
      /\ Range(tree) = Members(tree) /\ Members(tree) \subseteq Thread
      /\ current \notin Members(tree) /\ \A u \in Members(tree) : state[u] = "READY"
      /\ current \in Thread => state[current] # "BLOCKED"
      /\ vruntime \in [Thread -> 0 .. MaxVruntime] /\ min_vruntime \in 0 .. MaxVruntime
      /\ slice \in [Thread -> {"none", "some", "endless"}] /\ nice \in [Thread -> Nices]
      /\ ran \in 0 .. MaxRan
  BY CFFacts DEF CFTypes
<1>3. MaxVruntime \in Nat /\ MaxRan \in Nat
  BY DEF CFSBounds
<1> HIDE DEF Lowest
<1>4. CASE Yield(t)
  <2>1. PICK step \in 0 .. MaxStep :
          LET time == ran + step
              vr == IF timed
                    THEN [vruntime EXCEPT ![t] = @ + Charge(time, nice_to_weight(nice[t]))]
                    ELSE vruntime
          IN /\ time <= MaxRan /\ vr[t] <= MaxVruntime
             /\ \/ state[t] = "RUNNING" /\ Requeue(t, vr, min_vruntime, time)
                \/ /\ state[t] # "RUNNING" /\ vruntime' = vr
                   /\ Schedule(state, tree, time) /\ slice' = slice
    BY <1>4 DEF Yield
  <2> DEFINE time == ran + step
             vr == IF timed
                   THEN [vruntime EXCEPT ![t] = @ + Charge(time, nice_to_weight(nice[t]))]
                   ELSE vruntime
  <2>2. time <= MaxRan /\ vr[t] <= MaxVruntime
    BY <2>1
  <2>3. \/ state[t] = "RUNNING" /\ Requeue(t, vr, min_vruntime, time)
        \/ /\ state[t] # "RUNNING" /\ vruntime' = vr
           /\ Schedule(state, tree, time) /\ slice' = slice
    BY <2>1
  <2>4. /\ time \in 0 .. MaxRan /\ vr \in [Thread -> 0 .. MaxVruntime]
        /\ \A v \in Thread : v # t => vr[v] = vruntime[v]
    <3>1. time \in 0 .. MaxRan
      BY <2>2, CFCharged
    <3>2. CASE timed
      BY <2>2, <3>1, <3>2, CFCharged
    <3>3. CASE ~timed
      BY <1>2, <3>1, <3>3
    <3> QED
      BY <3>2, <3>3
  <2>5. current = t /\ min_vruntime' = min_vruntime /\ nice' = nice
    BY <1>4 DEF Yield
  <2> HIDE DEF time, vr
  <2>6. CASE state[t] = "RUNNING" /\ Requeue(t, vr, min_vruntime, time)
    <3>1. /\ TreeOK' /\ Lowest
          /\ Core!scheduler_schedule([state EXCEPT ![t] = "READY"], Range(tree) \cup {t})
      BY <1>2, <1>3, <2>4, <2>5, <2>6, CFRequeue DEF Lowest
    <3>2. Core!uthread_yield(t)
      BY <2>5, <2>6, <3>1 DEF Core!uthread_yield
    <3> QED
      BY <3>1, <3>2 DEF Core!SchedNext, Lowest
  <2>7. CASE /\ state[t] # "RUNNING" /\ vruntime' = vr
             /\ Schedule(state, tree, time) /\ slice' = slice
    <3>1. \A v \in Members(tree) : vruntime'[v] = vruntime[v]
      BY <1>2, <2>4, <2>5, <2>7
    <3>2. TreeOK' /\ Lowest /\ Core!scheduler_schedule(state, Range(tree))
      BY <1>2, <2>4, <2>5, <2>7, <3>1, CFLeave DEF Lowest
    <3>3. Core!uthread_yield(t)
      BY <2>5, <2>7, <3>2 DEF Core!uthread_yield
    <3> QED
      BY <3>2, <3>3 DEF Core!SchedNext, Lowest
  <2> QED
    BY <2>3, <2>6, <2>7
<1>5. CASE Tick(t)
  BY <1>5, CFTick
<1>6. CASE Block(t)
  <2> DEFINE st == [state EXCEPT ![t] = "BLOCKED"]
  <2>1. /\ current = t /\ Schedule(st, tree, ran)
        /\ UNCHANGED <<vruntime, min_vruntime, nice, slice>>
    BY <1>6 DEF Block
  <2>2. st \in [Thread -> ThreadState] /\ \A u \in Members(tree) : st[u] = "READY"
    BY <1>2, <2>1 DEF ThreadState
  <2> HIDE DEF st
  <2>3. TreeOK' /\ Lowest /\ Core!scheduler_schedule(st, Range(tree))
    BY <1>2, <2>1, <2>2, CFLeave DEF Lowest
  <2>4. Core!scheduler_block(t)
    BY <2>1, <2>3 DEF Core!scheduler_block, st
  <2> QED
    BY <2>3, <2>4 DEF Core!SchedNext, Lowest
<1>7. ASSUME NEW u \in Thread, u \notin Members(tree),
             vruntime' = Floored(vruntime, u, min_vruntime),
             slice' = [slice EXCEPT ![u] = NewSlice(u)],
             UNCHANGED <<min_vruntime, nice>>, ran' \in 0 .. MaxRan, timed' \in BOOLEAN
      PROVE  LET q == Run!InsertBy(tree, u, Floored(vruntime, u, min_vruntime)) IN
             /\ q \in Seq(Thread) /\ Distinct(q) /\ Members(q) = Members(tree) \cup {u}
             /\ Sorted(q, vruntime') /\ CFTypes'
  <2> DEFINE fl == Floored(vruntime, u, min_vruntime)
             q == Run!InsertBy(tree, u, fl)
  <2>1. /\ fl \in [Thread -> 0 .. MaxVruntime] /\ q \in Seq(Thread) /\ Distinct(q)
        /\ Sorted(q, fl) /\ Members(q) = Members(tree) \cup {u}
    BY <1>2, <1>3, <1>7, CFEnqueue
  <2> HIDE DEF q
  <2>2. slice' \in [Thread -> {"none", "some", "endless"}]
    <3>1. NewSlice(u) \in {"none", "some", "endless"}
      BY DEF NewSlice
    <3> QED
      BY <1>2, <1>7, <3>1
  <2> HIDE DEF fl
  <2>3. vruntime' = fl
    BY <1>7 DEF fl
  <2>4. CFTypes'
    BY <1>2, <1>7, <2>1, <2>2, <2>3 DEF CFTypes
  <2> QED
    BY <2>1, <2>3, <2>4 DEF q, fl
<1>8. CASE Unblock(t)
  <2>1. PICK u \in Thread :
          /\ state[u] = "BLOCKED" /\ state' = [state EXCEPT ![u] = "READY"]
          /\ vruntime' = Floored(vruntime, u, min_vruntime)
          /\ tree' = Run!InsertBy(tree, u, Floored(vruntime, u, min_vruntime))
          /\ slice' = [slice EXCEPT ![u] = NewSlice(u)]
    BY <1>8 DEF Unblock
  <2>2. /\ current = t /\ current' = current /\ u \notin Members(tree) /\ u # t
        /\ UNCHANGED <<min_vruntime, nice, ran, timed>>
    BY <1>2, <1>8, <2>1 DEF Unblock, clock
  <2>3. ran' \in 0 .. MaxRan /\ timed' \in BOOLEAN
    BY <2>2, CFFacts DEF CFTypes
  <2>4. /\ tree' \in Seq(Thread) /\ Distinct(tree') /\ Members(tree') = Members(tree) \cup {u}
        /\ Sorted(tree', vruntime') /\ CFTypes'
    BY <1>7, <2>1, <2>2, <2>3
  <2>5. /\ state' = [v \in Thread |-> IF v \in {u} THEN "READY" ELSE state[v]]
        /\ state' \in [Thread -> ThreadState] /\ state'[t] = state[t]
        /\ \A v \in Members(tree) \cup {u} : state'[v] = "READY"
    BY <1>2, <2>1, <2>2 DEF ThreadState
  <2>6. TreeOK' /\ Range(tree)' = Members(tree')
    BY <1>2, <2>2, <2>4, <2>5, CFFold
  <2>7. Core!scheduler_unblock({u})
    BY <1>2, <2>2, <2>4, <2>5, <2>6 DEF Core!scheduler_unblock
  <2>8. Core!Wake(t)
    BY <2>1, <2>2, <2>7 DEF Core!Wake
  <2> QED
    BY <2>2, <2>6, <2>8 DEF Core!SchedNext
<1>9. CASE Exit(t)
  <2> DEFINE st == [state EXCEPT ![t] = "TERMINATED"]
             st2(J) == [v \in Thread |-> IF v = t THEN "TERMINATED"
                                        ELSE IF v \in J THEN "READY" ELSE state[v]]
             fl(u) == Floored(vruntime, u, min_vruntime)
  <2>1. current = t /\ t \notin Members(tree) /\ UNCHANGED <<min_vruntime, nice>>
    BY <1>2, <1>9 DEF Exit
  <2>2. Run!Without(tree, t) = tree
    BY <1>2, <2>1, CFList DEF Run!Without
  <2>3. \/ Schedule(st, tree, ran) /\ UNCHANGED <<vruntime, slice>>
        \/ \E u \in Thread :
             /\ state[u] = "BLOCKED" /\ vruntime' = fl(u)
             /\ slice' = [slice EXCEPT ![u] = NewSlice(u)]
             /\ Schedule([st EXCEPT ![u] = "READY"], Run!InsertBy(tree, u, fl(u)), ran)
    BY <1>9, <2>2 DEF Exit
  <2>4. \A J \in SUBSET Thread : st2(J) \in [Thread -> ThreadState]
    BY <1>2 DEF ThreadState
  <2>5. ASSUME NEW J \in SUBSET Thread, \A u \in J : state[u] = "BLOCKED",
               \A u, v \in J : u = v,
               Core!scheduler_schedule(st2(J), Members(tree) \cup J)
        PROVE  Core!SchedNext
    <3>1. (Range(tree) \ {t}) \cup J = Members(tree) \cup J
      BY <1>2, <2>1
    <3>2. Core!uthread_exit(t)
      BY <2>1, <2>5, <3>1 DEF Core!uthread_exit
    <3> QED
      BY <3>2 DEF Core!SchedNext
  <2>6. CASE Schedule(st, tree, ran) /\ UNCHANGED <<vruntime, slice>>
    <3>1. st = st2({})
      BY <1>2
    <3>2. \A u \in Members(tree) : st2({})[u] = "READY"
      BY <1>2, <2>1
    <3>3. Schedule(st2({}), tree, ran)
      BY <2>6, <3>1
    <3> HIDE DEF st, st2, fl
    <3>4. TreeOK' /\ Lowest /\ Core!scheduler_schedule(st2({}), Members(tree))
      BY <1>2, <2>1, <2>4, <2>6, <3>2, <3>3, CFLeave DEF Lowest
    <3>5. Core!scheduler_schedule(st2({}), Members(tree) \cup {})
      BY <3>4
    <3> QED
      BY <2>5, <3>4, <3>5 DEF Lowest
  <2>7. CASE \E u \in Thread :
               /\ state[u] = "BLOCKED" /\ vruntime' = fl(u)
               /\ slice' = [slice EXCEPT ![u] = NewSlice(u)]
               /\ Schedule([st EXCEPT ![u] = "READY"], Run!InsertBy(tree, u, fl(u)), ran)
    <3>1. PICK u \in Thread :
            /\ state[u] = "BLOCKED" /\ vruntime' = fl(u)
            /\ slice' = [slice EXCEPT ![u] = NewSlice(u)]
            /\ Schedule([st EXCEPT ![u] = "READY"], Run!InsertBy(tree, u, fl(u)), ran)
      BY <2>7
    <3>2. u # t /\ u \notin Members(tree)
      BY <1>2, <2>1, <3>1
    <3>3. [st EXCEPT ![u] = "READY"] = st2({u})
      BY <1>2, <3>2
    <3>4. \A v \in Members(tree) \cup {u} : st2({u})[v] = "READY"
      BY <1>2, <2>1, <3>2
    <3> DEFINE q == Run!InsertBy(tree, u, fl(u))
    <3>5. Schedule(st2({u}), q, ran)
      BY <3>1, <3>3
    <3>6. ran' \in 0 .. MaxRan /\ timed' \in BOOLEAN
      BY <1>2, <1>3, <3>1 DEF Schedule
    <3>7. /\ q \in Seq(Thread) /\ Distinct(q) /\ Members(q) = Members(tree) \cup {u}
          /\ Sorted(q, vruntime') /\ CFTypes'
      BY <1>7, <2>1, <3>1, <3>2, <3>6
    <3> HIDE DEF st, st2, fl, q
    <3>8. TreeOK' /\ Lowest /\ Core!scheduler_schedule(st2({u}), Members(tree) \cup {u})
      BY <2>4, <3>4, <3>5, <3>7, CFDispatch DEF Lowest
    <3> QED
      BY <2>5, <3>1, <3>8 DEF Lowest
  <2> QED
    BY <2>3, <2>6, <2>7
<1>10. CASE SetNice(t)
  <2>1. PICK u \in Thread, n \in Nices : nice' = [nice EXCEPT ![u] = n]
    BY <1>10 DEF SetNice
  <2>2. UNCHANGED <<current, state, tree, vruntime, min_vruntime, slice, ran, timed>>
    BY <1>10 DEF SetNice, clock
  <2>3. nice' \in [Thread -> Nices]
    BY <1>2, <2>1
  <2>4. CFTypes'
    BY <2>2, <2>3, CFFacts DEF CFTypes
  <2>5. TreeOK'
    <3>1. Sorted(tree', vruntime') /\ Distinct(tree')
      BY <2>2, CFFacts
    <3> QED
      BY <2>2, <2>4, <3>1, CFFacts, CFFold
  <2> QED
    BY <2>2, <2>5 DEF Core!schedVars, Range
<1> QED
  BY <1>1, <1>4, <1>5, <1>6, <1>8, <1>9, <1>10

(* Initially the tree holds every thread but the main one.                 *)
LEMMA CFInit ==
  ASSUME IsFiniteSet(Thread), Init
  PROVE  tree \in Seq(Thread) /\ Distinct(tree) /\ Members(tree) = Thread \ {current}
<1>1. /\ current \in Thread
      /\ tree \in [1 .. Cardinality(Thread) - 1 -> Thread \ {current}]
      /\ IsInjective(tree)
  BY DEF Init
<1>2. IsFiniteSet(Thread \ {current}) /\ Cardinality(Thread \ {current}) = Cardinality(Thread) - 1
  BY <1>1, FS_RemoveElement
<1> QED
  BY <1>1, <1>2, OrderFacts

(* TreeOK is an inductive invariant of scheduler.c over sched_cfs.c.       *)
LEMMA CFInvariant ==
  Spec => []TreeOK
<1>1. Init => TreeOK
  <2> SUFFICES ASSUME Init PROVE TreeOK
    OBVIOUS
  <2>1. /\ current \in Thread
        /\ state = [t \in Thread |-> IF t = current THEN "RUNNING" ELSE "READY"]
        /\ vruntime = [t \in Thread |-> 0] /\ min_vruntime = 0
        /\ nice \in [Thread -> Nices] /\ ran = Boot /\ timed = FALSE
        /\ slice = [t \in Thread |-> IF t = current THEN "none" ELSE NewSlice(t)]
    BY DEF Init
  <2>2. tree \in Seq(Thread) /\ Distinct(tree) /\ Members(tree) = Thread \ {current}
    BY CFInit, CFSAssumption
  <2>3. Range(tree) = Thread \ {current} /\ IsInjective(tree)
    BY <2>2, CFList
  <2>4. TreeSorted
    <3>1. \A i \in DOMAIN tree : tree[i] \in Thread
      BY <2>2
    <3> QED
      BY <2>1, <2>3, <3>1 DEF TreeSorted
  <2>5. slice \in [Thread -> {"none", "some", "endless"}]
    <3>1. \A t \in Thread : NewSlice(t) \in {"none", "some", "endless"}
      BY DEF NewSlice
    <3> QED
      BY <2>1, <3>1
  <2>6. TypeOK
    <3>1. 0 \in 0 .. MaxVruntime /\ Boot \in 0 .. MaxRan
      BY CFSAssumption
    <3>2. vruntime \in [Thread -> 0 .. MaxVruntime]
      BY <2>1, <3>1
    <3>3. state \in [Thread -> ThreadState]
      BY <2>1 DEF ThreadState
    <3>4. timed \in BOOLEAN /\ ran \in 0 .. MaxRan /\ min_vruntime \in 0 .. MaxVruntime
      BY <2>1, <3>1
    <3> QED
      BY <2>1, <2>2, <2>5, <3>2, <3>3, <3>4 DEF TypeOK
  <2> QED
    BY <2>1, <2>3, <2>4, <2>6 DEF TreeOK
<1>2. TreeOK /\ [Next]_vars => TreeOK'
  <2> SUFFICES ASSUME TreeOK, [Next]_vars PROVE TreeOK'
    OBVIOUS
  <2>1. CASE Next
    BY <2>1, CFStep, Bounds
  <2>2. CASE UNCHANGED vars
    <3>1. UNCHANGED <<current, state, tree, vruntime, min_vruntime, nice, slice, ran, timed>>
      BY <2>2 DEF vars, clock
    <3>2. CFTypes' /\ Sorted(tree', vruntime') /\ Distinct(tree')
      BY <3>1, CFFacts DEF CFTypes
    <3> QED
      BY <3>1, <3>2, CFFacts, CFFold
  <2> QED
    BY <2>1, <2>2
<1> QED
  BY <1>1, <1>2, PTL DEF Spec

(* The threads in the tree stay in the order of their virtual runtimes:    *)
(* what the search tree of sched_cfs.c relies on.                          *)
THEOREM TreeStaysSorted ==
  Spec => []TreeSorted
<1>1. TreeOK => TreeSorted
  BY DEF TreeOK
<1> QED
  BY <1>1, CFInvariant, PTL

(* scheduler.c over sched_cfs.c implements Scheduler: whatever is proved   *)
(* of the core holds for the CFS policy.                                   *)
THEOREM CFSImplementsScheduler ==
  Spec => ImplementsScheduler
<1>1. Init => Core!SchedInit
  <2> SUFFICES ASSUME Init PROVE Core!SchedInit
    OBVIOUS
  <2>1. /\ current \in Thread
        /\ state = [t \in Thread |-> IF t = current THEN "RUNNING" ELSE "READY"]
    BY DEF Init
  <2>2. Range(tree) = Thread \ {current}
    BY CFInit, CFList, CFSAssumption
  <2> QED
    BY <2>1, <2>2 DEF Core!SchedInit
<1>2. TreeOK /\ [Next]_vars => [Core!SchedNext]_Core!schedVars
  <2>1. UNCHANGED vars => UNCHANGED Core!schedVars
    BY DEF vars, Core!schedVars, Range
  <2> QED
    BY <2>1, CFStep, Bounds
<1> QED
  BY <1>1, <1>2, CFInvariant, PTL DEF Spec, ImplementsScheduler, Core!SchedSpec

(* The CPU never passes to a thread while one with a lower virtual runtime *)
(* stays in the tree.                                                      *)
THEOREM LowestRunsFirst ==
  Spec => LowestFirst
<1>1. TreeOK /\ [Next]_vars =>
        [current' # current =>
           \A u \in Range(tree)' :
             current' # Idle /\ vruntime'[current'] <= vruntime'[u]]_vars
  BY CFStep, Bounds
<1> QED
  BY <1>1, CFInvariant, PTL DEF Spec, LowestFirst

(* After a timer tick no waiting thread is more than the granularity       *)
(* behind the running one, although cfs_should_preempt subtracts unsigned  *)
(* numbers.                                                                *)
THEOREM TicksAreFair ==
  Spec => TickFair
<1>1. TreeOK /\ [Next]_vars =>
        [(\E t \in Thread : Tick(t)) =>
           \A u \in Range(tree)' :
             vruntime'[current'] <= vruntime'[u] + Granularity]_vars
  BY CFTick, Bounds
<1> QED
  BY <1>1, CFInvariant, PTL DEF Spec, TickFair

(* A step of the core loses no runnable thread but a caller of yield that  *)
(* is in state READY.                                                      *)
LEMMA CFKept ==
  ASSUME state \in [Thread -> ThreadState], Core!SchedNext, NEW u \in Thread,
         u \in Range(tree) \cup {current} \/ state[u] = "BLOCKED",
         state'[u] \in {"READY", "RUNNING"}
  PROVE  u \in Range(tree)' \cup {current'} \/ (u = current /\ state[u] = "READY")
<1> DEFINE ready0 == Range(tree)
           ready1 == Range(tree)'
<1>1. ASSUME NEW st, NEW rdy, Core!scheduler_schedule(st, rdy), u \notin rdy
      PROVE  u = current' \/ st[u] \in {"READY", "RUNNING"}
  BY <1>1 DEF Core!scheduler_schedule, Core!SwitchStates
<1>2. ASSUME NEW st, NEW rdy, Core!scheduler_schedule(st, rdy), u \in rdy
      PROVE  u \in ready1 \cup {current'}
  BY <1>2 DEF Core!scheduler_schedule
<1> HIDE DEF ready0, ready1
<1>3. PICK t \in Thread :
        \/ Core!uthread_yield(t) \/ Core!scheduler_tick(t)
        \/ Core!scheduler_block(t) \/ Core!Wake(t) \/ Core!uthread_exit(t)
  BY DEF Core!SchedNext
<1>4. CASE Core!uthread_yield(t) /\ state[t] = "RUNNING"
  <2>1. current = t /\ Core!scheduler_schedule([state EXCEPT ![t] = "READY"], ready0 \cup {t})
    BY <1>4 DEF Core!uthread_yield, ready0
  <2>2. u \notin ready0 \cup {t} => [state EXCEPT ![t] = "READY"][u] = "BLOCKED"
    BY <2>1 DEF ready0
  <2> QED
    BY <1>1, <1>2, <2>1, <2>2 DEF ready1
<1>5. CASE Core!uthread_yield(t) /\ state[t] # "RUNNING"
  <2>1. current = t /\ Core!scheduler_schedule(state, ready0)
    BY <1>5 DEF Core!uthread_yield, ready0
  <2>2. u \notin ready0 => u = t \/ state[u] = "BLOCKED"
    BY <2>1 DEF ready0
  <2> QED
    BY <1>1, <1>2, <1>5, <2>1, <2>2 DEF ready1
<1>6. CASE Core!scheduler_tick(t)
  <2>1. current = t /\ Core!scheduler_schedule([state EXCEPT ![t] = "READY"], ready0 \cup {t})
    BY <1>6 DEF Core!scheduler_tick, ready0
  <2>2. u \notin ready0 \cup {t} => [state EXCEPT ![t] = "READY"][u] = "BLOCKED"
    BY <2>1 DEF ready0
  <2> QED
    BY <1>1, <1>2, <2>1, <2>2 DEF ready1
<1>7. CASE Core!scheduler_block(t)
  <2>1. current = t /\ Core!scheduler_schedule([state EXCEPT ![t] = "BLOCKED"], ready0)
    BY <1>7 DEF Core!scheduler_block, ready0
  <2>2. u \notin ready0 => [state EXCEPT ![t] = "BLOCKED"][u] = "BLOCKED"
    BY <2>1 DEF ready0
  <2> QED
    BY <1>1, <1>2, <2>1, <2>2 DEF ready1
<1>8. CASE Core!Wake(t)
  <2>1. PICK v \in Thread : Core!scheduler_unblock({v})
    BY <1>8 DEF Core!Wake
  <2>2. /\ current' = current /\ ready1 = ready0 \cup {v}
        /\ state' = [w \in Thread |-> IF w \in {v} THEN "READY" ELSE state[w]]
    BY <2>1 DEF Core!scheduler_unblock, ready0, ready1
  <2> QED
    BY <2>2 DEF ready0, ready1
<1>9. CASE Core!uthread_exit(t)
  <2>1. PICK J \in SUBSET Thread :
          Core!scheduler_schedule([w \in Thread |-> IF w = t THEN "TERMINATED"
                                         ELSE IF w \in J THEN "READY" ELSE state[w]],
                                     (ready0 \ {t}) \cup J)
    BY <1>9 DEF Core!uthread_exit, ready0
  <2> DEFINE st == [w \in Thread |-> IF w = t THEN "TERMINATED"
                                    ELSE IF w \in J THEN "READY" ELSE state[w]]
  <2>2. current = t
    BY <1>9 DEF Core!uthread_exit
  <2>3. u \notin (ready0 \ {t}) \cup J => st[u] \in {"TERMINATED", "BLOCKED"}
    BY <2>2 DEF ready0
  <2> QED
    BY <1>1, <1>2, <2>1, <2>3 DEF ready1
<1> QED
  BY <1>3, <1>4, <1>5, <1>6, <1>7, <1>8, <1>9

(* CFS loses no runnable thread, but for the READY caller of yield.        *)
THEOREM CFSKeepsRunnable ==
  Spec => KeptUnlessReady
<1>1. TreeOK /\ [Next]_vars =>
        [\A t \in Thread :
           /\ t \in Range(tree) \cup {current} \/ state[t] = "BLOCKED"
           /\ state'[t] \in {"READY", "RUNNING"}
           => \/ t \in Range(tree)' \cup {current'}
              \/ t = current /\ state[t] = "READY"]_vars
  <2> SUFFICES ASSUME TreeOK, Next, NEW t \in Thread,
                      t \in Range(tree) \cup {current} \/ state[t] = "BLOCKED",
                      state'[t] \in {"READY", "RUNNING"}
               PROVE  \/ t \in Range(tree)' \cup {current'}
                      \/ t = current /\ state[t] = "READY"
    OBVIOUS
  <2>1. CASE Core!SchedNext
    BY <2>1, CFKept, CFFacts
  <2>2. CASE UNCHANGED Core!schedVars
    BY <2>2 DEF Core!schedVars
  <2> QED
    BY <2>1, <2>2, CFStep, Bounds
<1> QED
  BY <1>1, CFInvariant, PTL DEF Spec, KeptUnlessReady

-----------------------------------------------------------------------------
(***************************************************************************)
(* The red-black tree.  The invariant says of every node, its children and *)
(* its father what makes whole subtrees right, in terms of values that the *)
(* code has nowhere:                                                       *)
(*                                                                         *)
(*   q, pos    the order of the threads, and the place of each (0: none)   *)
(*   ext       ext.L[n] .. ext.R[n], the places of the subtree at n;       *)
(*             those of its children are what is left of n and right of n  *)
(*   bh        bh[n], the black nodes on every way down from n             *)
(*   up, sd    while remove_fixup is at work, the node whose subtree on the*)
(*             side sd is one black node short                             *)
(*                                                                         *)
(* A rotation keeps q and changes the spans of the two nodes it turns; only*)
(* linking and unlinking a node change q, and these are the steps of the   *)
(* contract RunOrder.  What the recursive functions of the model compute of*)
(* such a tree (InOrderIs, MinimumIs, HeightsAre) follows from the smallest*)
(* span for which it would be wrong.                                       *)
(***************************************************************************)

(* How a place differs from the one beside it on the side d.               *)
Sign(d) == IF d = "L" THEN -1 ELSE 1

(* The nodes that have a place in the order.                               *)
On(pos) == {n \in Node : pos[n] # 0}

(* pos is the inverse of the list q, 0 outside of it.                      *)
Places(q, pos) ==
  /\ q \in Seq(Node) /\ pos \in [Node -> Nat]
  /\ \A n \in On(pos) : pos[n] \in 1 .. Len(q) /\ q[pos[n]] = n
  /\ \A i \in 1 .. Len(q) : pos[q[i]] = i

(* The subtree at n holds the places ext.L[n] .. ext.R[n] of the order.    *)
Spans(q, pos, ext) ==
  /\ ext \in [Side -> [Node -> Int]]
  /\ \A n \in On(pos) : /\ 1 <= ext["L"][n] /\ ext["L"][n] <= pos[n]
                        /\ pos[n] <= ext["R"][n] /\ ext["R"][n] <= Len(q)

(* A child holds the places between its father and the end of its span.    *)
KidOK(pos, ext, kd, par, n, d) ==
  LET c == kd[d][n] IN
  IF c = Nil THEN ext[d][n] = pos[n]
  ELSE /\ c \in On(pos) /\ par[c] = n
       /\ ext[d][c] = ext[d][n]
       /\ ext[Other(d)][c] = pos[n] + Sign(d)

(* The root holds every place.                                             *)
RootOK(q, pos, ext, par, rt) ==
  IF rt = Nil THEN q = <<>>
  ELSE /\ rt \in On(pos) /\ par[rt] = Nil
       /\ ext["L"][rt] = 1 /\ ext["R"][rt] = Len(q)

(* Every other node is a child of its father.                              *)
UpOK(pos, kd, par, rt, n) ==
  n # rt => par[n] \in On(pos) /\ \E d \in Side : kd[d][par[n]] = n

(* The links are links.                                                    *)
LinkTypes(kd, par, rt) ==
  kd \in [Side -> [Node -> Link]] /\ par \in [Node -> Link] /\ rt \in Link

(* The links are those of a search tree for the order q.                   *)
Shape(q, pos, ext, kd, par, rt) ==
  /\ LinkTypes(kd, par, rt)
  /\ Places(q, pos) /\ Spans(q, pos, ext)
  /\ RootOK(q, pos, ext, par, rt)
  /\ \A n \in On(pos), d \in Side : KidOK(pos, ext, kd, par, n, d)
  /\ \A n \in On(pos) : UpOK(pos, kd, par, rt, n)

(* The types in a shape.                                                   *)
LEMMA ShapeTypes ==
  ASSUME NEW q, NEW pos, NEW ext, NEW kd, NEW par, NEW rt,
         Shape(q, pos, ext, kd, par, rt)
  PROVE  /\ q \in Seq(Node) /\ Len(q) \in Nat /\ pos \in [Node -> Nat]
         /\ ext \in [Side -> [Node -> Int]]
         /\ kd \in [Side -> [Node -> Link]] /\ par \in [Node -> Link] /\ rt \in Link
         /\ On(pos) \subseteq Node /\ Nil \notin Node /\ Nil \notin On(pos)
         /\ "L" \in Side /\ "R" \in Side
<1>1. LinkTypes(kd, par, rt) /\ Places(q, pos) /\ Spans(q, pos, ext)
  BY DEF Shape
<1> QED
  BY <1>1, RBTreeAssumption DEF LinkTypes, Places, Spans, On, Side

(* A span of a list, cut at one of its places.                             *)
LEMMA SpanSplit ==
  ASSUME NEW S, NEW q \in Seq(S), NEW a \in Int, NEW k \in Int, NEW b \in Int,
         1 <= a, a <= k, k <= b, b <= Len(q)
  PROVE  SubSeq(q, a, b) = SubSeq(q, a, k - 1) \o <<q[k]>> \o SubSeq(q, k + 1, b)
<1> DEFINE s == SubSeq(q, a, b)
           l == SubSeq(q, a, k - 1)
           r == SubSeq(q, k + 1, b)
           m == <<q[k]>>
<1>0. k \in 1 .. Len(q) /\ q[k] \in S
  OBVIOUS
<1>1. /\ s \in Seq(S) /\ Len(s) = b - a + 1
      /\ \A i \in 1 .. b - a + 1 : s[i] = q[a + i - 1]
  OBVIOUS
<1>2. /\ l \in Seq(S) /\ Len(l) = k - a
      /\ \A i \in 1 .. k - a : l[i] = q[a + i - 1]
  OBVIOUS
<1>3. /\ r \in Seq(S) /\ Len(r) = b - k
      /\ \A i \in 1 .. b - k : r[i] = q[k + i]
  OBVIOUS
<1>4. m \in Seq(S) /\ Len(m) = 1 /\ m[1] = q[k]
  BY <1>0
<1>5. ASSUME NEW x \in Seq(S), NEW y \in Seq(S)
      PROVE  /\ x \o y \in Seq(S) /\ Len(x \o y) = Len(x) + Len(y)
             /\ \A i \in 1 .. Len(x) + Len(y) :
                  (x \o y)[i] = IF i <= Len(x) THEN x[i] ELSE y[i - Len(x)]
  OBVIOUS
<1> HIDE DEF s, l, r, m
<1> DEFINE u == l \o m
<1>6. /\ u \in Seq(S) /\ Len(u) = k - a + 1
      /\ \A i \in 1 .. k - a : u[i] = q[a + i - 1]
      /\ u[k - a + 1] = q[k]
  <2>0. /\ u \in Seq(S) /\ Len(u) = Len(l) + Len(m)
        /\ \A i \in 1 .. Len(l) + Len(m) : u[i] = IF i <= Len(l) THEN l[i] ELSE m[i - Len(l)]
    BY <1>2, <1>4, <1>5
  <2> HIDE DEF u
  <2>1. /\ u \in Seq(S) /\ Len(u) = k - a + 1
        /\ \A i \in 1 .. k - a + 1 : u[i] = IF i <= k - a THEN l[i] ELSE m[i - (k - a)]
    BY <1>2, <1>4, <2>0
  <2>2. ~(k - a + 1 <= k - a) /\ k - a + 1 - (k - a) = 1 /\ k - a + 1 \in 1 .. k - a + 1
    OBVIOUS
  <2>3. u[k - a + 1] = q[k]
    BY <2>1, <2>2, <1>4
  <2>4. ASSUME NEW i \in 1 .. k - a PROVE u[i] = q[a + i - 1]
    BY <2>1, <1>2
  <2> QED
    BY <2>1, <2>3, <2>4
<1> HIDE DEF u
<1> DEFINE v == u \o r
<1>7. /\ v \in Seq(S) /\ Len(v) = b - a + 1
      /\ \A i \in 1 .. b - a + 1 : v[i] = IF i <= k - a + 1 THEN u[i] ELSE r[i - (k - a + 1)]
  <2>1. /\ v \in Seq(S) /\ Len(v) = Len(u) + Len(r)
        /\ \A i \in 1 .. Len(u) + Len(r) : v[i] = IF i <= Len(u) THEN u[i] ELSE r[i - Len(u)]
    BY <1>3, <1>5, <1>6
  <2> HIDE DEF v
  <2>2. Len(u) + Len(r) = b - a + 1
    BY <1>3, <1>6
  <2> QED
    BY <1>6, <2>1, <2>2
<1> HIDE DEF v
<1>8. ASSUME NEW i \in 1 .. b - a + 1 PROVE v[i] = q[a + i - 1]
  <2>1. CASE i \in 1 .. k - a
    BY <2>1, <1>6, <1>7
  <2>2. CASE i = k - a + 1
    <3>1. a + i - 1 = k /\ i <= k - a + 1
      BY <2>2
    <3> QED
      BY <2>2, <3>1, <1>6, <1>7
  <2>3. CASE i > k - a + 1
    <3>1. ~(i <= k - a + 1) /\ i - (k - a + 1) \in 1 .. b - k /\ k + (i - (k - a + 1)) = a + i - 1
      BY <2>3
    <3>2. v[i] = r[i - (k - a + 1)]
      BY <1>7, <3>1
    <3> QED
      BY <1>3, <3>1, <3>2
  <2> QED
    BY <2>1, <2>2, <2>3
<1>9. s = v
  <2>1. Len(s) = Len(v) /\ \A i \in 1 .. Len(s) : s[i] = v[i]
    BY <1>1, <1>7, <1>8
  <2> QED
    BY <1>1, <1>7, <2>1
<1> QED
  BY <1>9 DEF s, v, u, l, m, r

(* The interval of a child is that of its parent up to the parent's place. *)
LEMMA KidSpans ==
  ASSUME NEW q, NEW pos, NEW ext, NEW kd, NEW par, NEW rt,
         Shape(q, pos, ext, kd, par, rt), NEW n \in On(pos)
  PROVE  /\ pos[n] \in 1 .. Len(q) /\ Len(q) \in Nat /\ n \in Node /\ q[pos[n]] = n
         /\ ext["L"][n] \in 1 .. pos[n] /\ ext["R"][n] \in pos[n] .. Len(q)
         /\ kd["L"][n] = Nil => ext["L"][n] = pos[n]
         /\ kd["R"][n] = Nil => ext["R"][n] = pos[n]
         /\ kd["L"][n] # Nil =>
              /\ kd["L"][n] \in On(pos) /\ par[kd["L"][n]] = n
              /\ ext["L"][kd["L"][n]] = ext["L"][n] /\ ext["R"][kd["L"][n]] = pos[n] - 1
         /\ kd["R"][n] # Nil =>
              /\ kd["R"][n] \in On(pos) /\ par[kd["R"][n]] = n
              /\ ext["R"][kd["R"][n]] = ext["R"][n] /\ ext["L"][kd["R"][n]] = pos[n] + 1
<1>1. KidOK(pos, ext, kd, par, n, "L") /\ KidOK(pos, ext, kd, par, n, "R")
  BY DEF Shape, Side
<1>2. /\ pos[n] \in 1 .. Len(q) /\ Len(q) \in Nat /\ n \in Node /\ q[pos[n]] = n
      /\ ext["L"][n] \in 1 .. pos[n] /\ ext["R"][n] \in pos[n] .. Len(q)
  BY DEF Shape, Places, Spans, On, Side
<1> QED
  BY <1>1, <1>2 DEF KidOK, Other, Sign

(* Read from left to right the tree is the list.                           *)
LEMMA InOrderIs ==
  ASSUME NEW q, NEW pos, NEW ext, NEW kd, NEW par, NEW rt,
         Shape(q, pos, ext, kd, par, rt),
         \A n \in Node \ On(pos), d \in Side : kd[d][n] \in On(pos) \cup {Nil}
  PROVE  InOrder(kd, rt) = q
<1> DEFINE Eq(f) == f = [m \in Link |->
                          IF m = Nil THEN <<>> ELSE f[kd["L"][m]] \o <<m>> \o f[kd["R"][m]]]
           S(n) == IF n = Nil THEN <<>> ELSE SubSeq(q, ext["L"][n], ext["R"][n])
           F == [n \in Link |-> IF n \in On(pos) \cup {Nil} THEN S(n)
                                ELSE S(kd["L"][n]) \o <<n>> \o S(kd["R"][n])]
           walk == CHOOSE f : Eq(f)
<1>0. q \in Seq(Node) /\ Nil \notin Node /\ Nil \notin On(pos) /\ On(pos) \subseteq Node
  BY RBTreeAssumption DEF Shape, Places, On
<1>1. ASSUME NEW n \in On(pos)
      PROVE  S(n) = S(kd["L"][n]) \o <<n>> \o S(kd["R"][n])
  <2>1. /\ pos[n] \in 1 .. Len(q) /\ Len(q) \in Nat /\ q[pos[n]] = n
        /\ ext["L"][n] \in 1 .. pos[n] /\ ext["R"][n] \in pos[n] .. Len(q)
    BY KidSpans
  <2>2. S(n) = SubSeq(q, ext["L"][n], pos[n] - 1) \o <<n>> \o SubSeq(q, pos[n] + 1, ext["R"][n])
    <3>1. S(n) = SubSeq(q, ext["L"][n], ext["R"][n])
      BY <1>0
    <3>2. ASSUME NEW a \in 1 .. pos[n], NEW b \in pos[n] .. Len(q), NEW k \in 1 .. Len(q), k = pos[n]
          PROVE  SubSeq(q, a, b) = SubSeq(q, a, k - 1) \o <<q[k]>> \o SubSeq(q, k + 1, b)
      <4>1. a \in Int /\ b \in Int /\ k \in Int /\ 1 <= a /\ a <= k /\ k <= b /\ b <= Len(q)
        BY <2>1, <3>2
      <4> QED
        BY <1>0, <4>1, SpanSplit
    <3> HIDE DEF S
    <3>3. SubSeq(q, ext["L"][n], ext["R"][n])
            = SubSeq(q, ext["L"][n], pos[n] - 1) \o <<q[pos[n]]>> \o SubSeq(q, pos[n] + 1, ext["R"][n])
      BY <2>1, <3>2
    <3> QED
      BY <2>1, <3>1, <3>3, Zenon
  <2>3. S(kd["L"][n]) = SubSeq(q, ext["L"][n], pos[n] - 1)
    <3>1. CASE kd["L"][n] = Nil
      <4>1. ext["L"][n] = pos[n]
        BY <3>1, KidSpans
      <4> QED
        BY <1>0, <2>1, <3>1, <4>1
    <3>2. CASE kd["L"][n] # Nil
      <4>1. ext["L"][kd["L"][n]] = ext["L"][n] /\ ext["R"][kd["L"][n]] = pos[n] - 1
        BY <3>2, KidSpans
      <4> QED
        BY <3>2, <4>1
    <3> QED
      BY <3>1, <3>2
  <2>4. S(kd["R"][n]) = SubSeq(q, pos[n] + 1, ext["R"][n])
    <3>1. CASE kd["R"][n] = Nil
      <4>1. ext["R"][n] = pos[n]
        BY <3>1, KidSpans
      <4> QED
        BY <1>0, <2>1, <3>1, <4>1
    <3>2. CASE kd["R"][n] # Nil
      <4>1. ext["R"][kd["R"][n]] = ext["R"][n] /\ ext["L"][kd["R"][n]] = pos[n] + 1
        BY <3>2, KidSpans
      <4> QED
        BY <3>2, <4>1
    <3> QED
      BY <3>1, <3>2
  <2> HIDE DEF S
  <2> QED
    BY <2>2, <2>3, <2>4
<1>2. \A n \in On(pos) : kd["L"][n] \in On(pos) \cup {Nil} /\ kd["R"][n] \in On(pos) \cup {Nil}
  BY KidSpans
<1>3. \A n \in Node : kd["L"][n] \in On(pos) \cup {Nil} /\ kd["R"][n] \in On(pos) \cup {Nil}
  BY <1>2 DEF Side
<1> HIDE DEF S
<1>4. S(Nil) = <<>>
  BY DEF S
<1>5. Eq(F)
  <2>1. ASSUME NEW m \in Link
        PROVE  F[m] = IF m = Nil THEN <<>> ELSE F[kd["L"][m]] \o <<m>> \o F[kd["R"][m]]
    <3>1. CASE m = Nil
      BY <3>1, <1>4
    <3>2. CASE m \in Node
      <4>1. /\ kd["L"][m] \in On(pos) \cup {Nil} /\ kd["R"][m] \in On(pos) \cup {Nil}
        BY <1>3, <3>2
      <4>2. F[kd["L"][m]] = S(kd["L"][m]) /\ F[kd["R"][m]] = S(kd["R"][m])
        BY <1>0, <4>1 DEF Link
      <4>3. F[m] = S(kd["L"][m]) \o <<m>> \o S(kd["R"][m])
        <5>1. CASE m \in On(pos)
          <6>1. F[m] = S(m)
            BY <5>1
          <6> HIDE DEF F
          <6> QED
            BY <1>1, <5>1, <6>1
        <5>2. CASE m \notin On(pos)
          BY <1>0, <3>2, <5>2
        <5> QED
          BY <5>1, <5>2
      <4> HIDE DEF F
      <4> QED
        BY <1>0, <3>2, <4>2, <4>3
    <3> QED
      BY <3>1, <3>2 DEF Link
  <2> DEFINE G == [m \in Link |-> IF m = Nil THEN <<>> ELSE F[kd["L"][m]] \o <<m>> \o F[kd["R"][m]]]
  <2>2. \A m \in Link : F[m] = G[m]
    BY <2>1, Zenon
  <2>3. F = G
    <3>1. F = [m \in Link |-> F[m]]
      BY Zenon
    <3> HIDE DEF F
    <3>2. G = [m \in Link |-> G[m]]
      BY SMT
    <3> HIDE DEF G
    <3> QED
      BY <2>2, <3>1, <3>2, Zenon
  <2> QED
    BY <2>3, Zenon
<1>6. Eq(walk)
  BY <1>5, Zenon
<1> HIDE DEF walk
<1>7. /\ walk[Nil] = <<>>
      /\ \A n \in Node : walk[n] = walk[kd["L"][n]] \o <<n>> \o walk[kd["R"][n]]
  BY <1>0, <1>6 DEF Link
<1> DEFINE Bad == {n \in On(pos) : walk[n] # S(n)}
           Size(n) == ext["R"][n] - ext["L"][n]
<1>8. Bad = {}
  <2> SUFFICES ASSUME Bad # {} PROVE FALSE
    OBVIOUS
  <2>1. \A n \in On(pos) : Size(n) \in Nat
    BY KidSpans
  <2> DEFINE T == {Size(n) : n \in Bad}
  <2>2. T \in SUBSET Nat /\ T # {}
    BY <2>1
  <2>3. PICK s \in T : \A y \in T : s <= y
    BY <2>2, Least
  <2>4. PICK n \in Bad : s = Size(n)
    BY <2>3
  <2>5. \A c \in Bad : Size(n) <= Size(c)
    BY <2>3, <2>4
  <2>6. n \in On(pos) /\ n \in Node
    BY <1>0
  <2>7. kd["L"][n] # Nil => kd["L"][n] \in On(pos) /\ Size(kd["L"][n]) < Size(n)
    <3>1. /\ pos[n] \in 1 .. Len(q) /\ Len(q) \in Nat
          /\ ext["L"][n] \in 1 .. pos[n] /\ ext["R"][n] \in pos[n] .. Len(q)
      BY <2>6, KidSpans
    <3>2. kd["L"][n] # Nil => kd["L"][n] \in On(pos) /\ ext["L"][kd["L"][n]] = ext["L"][n] /\ ext["R"][kd["L"][n]] = pos[n] - 1
      BY <2>6, KidSpans
    <3> QED
      BY <3>1, <3>2
  <2>8. kd["R"][n] # Nil => kd["R"][n] \in On(pos) /\ Size(kd["R"][n]) < Size(n)
    <3>1. /\ pos[n] \in 1 .. Len(q) /\ Len(q) \in Nat
          /\ ext["L"][n] \in 1 .. pos[n] /\ ext["R"][n] \in pos[n] .. Len(q)
      BY <2>6, KidSpans
    <3>2. kd["R"][n] # Nil => kd["R"][n] \in On(pos) /\ ext["R"][kd["R"][n]] = ext["R"][n] /\ ext["L"][kd["R"][n]] = pos[n] + 1
      BY <2>6, KidSpans
    <3> QED
      BY <3>1, <3>2
  <2>9. walk[kd["L"][n]] = S(kd["L"][n])
    <3>1. CASE kd["L"][n] = Nil
      BY <1>4, <1>7, <3>1
    <3>2. CASE kd["L"][n] # Nil
      <4>1. kd["L"][n] \notin Bad
        BY <2>1, <2>5, <2>6, <2>7, <3>2
      <4> QED
        BY <2>7, <3>2, <4>1
    <3> QED
      BY <3>1, <3>2
  <2>10. walk[kd["R"][n]] = S(kd["R"][n])
    <3>1. CASE kd["R"][n] = Nil
      BY <1>4, <1>7, <3>1
    <3>2. CASE kd["R"][n] # Nil
      <4>1. kd["R"][n] \notin Bad
        BY <2>1, <2>5, <2>6, <2>8, <3>2
      <4> QED
        BY <2>8, <3>2, <4>1
    <3> QED
      BY <3>1, <3>2
  <2>11. walk[n] = S(n)
    BY <1>1, <1>7, <2>6, <2>9, <2>10
  <2> QED
    BY <2>11
<1>9. walk[rt] = q
  <2>1. CASE rt = Nil
    BY <1>7, <2>1 DEF Shape, RootOK
  <2>2. CASE rt # Nil
    <3>1. rt \in On(pos) /\ ext["L"][rt] = 1 /\ ext["R"][rt] = Len(q)
      BY <2>2 DEF Shape, RootOK
    <3>2. S(rt) = SubSeq(q, 1, Len(q))
      BY <2>2, <3>1 DEF S
    <3>3. SubSeq(q, 1, Len(q)) = q
      BY <1>0
    <3> QED
      BY <1>8, <3>1, <3>2, <3>3
  <2> QED
    BY <2>1, <2>2
<1>10. InOrder(kd, rt) = walk[rt]
  BY DEF InOrder, walk
<1> QED
  BY <1>9, <1>10

(* rb_minimum finds the first place of a subtree.                          *)
LEMMA MinimumIs ==
  ASSUME NEW q, NEW pos, NEW ext, NEW kd, NEW par, NEW rt,
         Shape(q, pos, ext, kd, par, rt),
         \A n \in Node \ On(pos), d \in Side : kd[d][n] \in On(pos) \cup {Nil},
         NEW n \in On(pos)
  PROVE  rb_minimum(kd, n) = q[ext["L"][n]]
<1> DEFINE Eq(f) == f = [m \in Node |-> IF kd["L"][m] = Nil THEN m ELSE f[kd["L"][m]]]
           F == [m \in Node |-> IF m \in On(pos) THEN q[ext["L"][m]]
                                ELSE IF kd["L"][m] = Nil THEN m ELSE q[ext["L"][kd["L"][m]]]]
           down == CHOOSE f : Eq(f)
<1>0. q \in Seq(Node) /\ Nil \notin Node /\ Nil \notin On(pos) /\ On(pos) \subseteq Node
  BY RBTreeAssumption DEF Shape, Places, On
<1>1. ASSUME NEW m \in On(pos)
      PROVE  q[ext["L"][m]] = IF kd["L"][m] = Nil THEN m ELSE q[ext["L"][kd["L"][m]]]
  <2>1. kd["L"][m] = Nil => ext["L"][m] = pos[m] /\ q[pos[m]] = m
    BY KidSpans
  <2>2. kd["L"][m] # Nil => ext["L"][kd["L"][m]] = ext["L"][m]
    BY KidSpans
  <2> QED
    BY <2>1, <2>2
<1>2. \A m \in Node : kd["L"][m] \in On(pos) \cup {Nil}
  <2>1. \A m \in On(pos) : kd["L"][m] \in On(pos) \cup {Nil}
    BY KidSpans
  <2> QED
    BY <2>1 DEF Side
<1>3. Eq(F)
  <2> DEFINE G == [m \in Node |-> IF kd["L"][m] = Nil THEN m ELSE F[kd["L"][m]]]
  <2>1. ASSUME NEW m \in Node PROVE F[m] = G[m]
    <3>1. kd["L"][m] \in On(pos) => F[kd["L"][m]] = q[ext["L"][kd["L"][m]]]
      BY <1>0
    <3>2. F[m] = IF kd["L"][m] = Nil THEN m ELSE q[ext["L"][kd["L"][m]]]
      <4>1. CASE m \in On(pos)
        <5>1. F[m] = q[ext["L"][m]]
          BY <4>1
        <5> HIDE DEF F
        <5> QED
          BY <1>1, <4>1, <5>1
      <4>2. CASE m \notin On(pos)
        BY <4>2
      <4> QED
        BY <4>1, <4>2
    <3> HIDE DEF F
    <3> QED
      BY <1>0, <1>2, <3>1, <3>2
  <2>2. F = [m \in Node |-> F[m]]
    BY Zenon
  <2> HIDE DEF F
  <2>3. G = [m \in Node |-> G[m]]
    BY SMT
  <2> HIDE DEF G
  <2>4. F = G
    BY <2>1, <2>2, <2>3, Zenon
  <2> QED
    BY <2>4 DEF G
<1>4. Eq(down)
  BY <1>3, Zenon
<1> HIDE DEF down
<1>5. \A m \in Node : down[m] = IF kd["L"][m] = Nil THEN m ELSE down[kd["L"][m]]
  BY <1>4
<1> DEFINE Bad == {m \in On(pos) : down[m] # q[ext["L"][m]]}
           Size(m) == ext["R"][m] - ext["L"][m]
<1>6. Bad = {}
  <2> SUFFICES ASSUME Bad # {} PROVE FALSE
    OBVIOUS
  <2>1. \A m \in On(pos) : Size(m) \in Nat
    BY KidSpans
  <2> DEFINE T == {Size(m) : m \in Bad}
  <2>2. T \in SUBSET Nat /\ T # {}
    BY <2>1
  <2>3. PICK s \in T : \A y \in T : s <= y
    BY <2>2, Least
  <2>4. PICK m \in Bad : s = Size(m)
    BY <2>3
  <2>5. \A c \in Bad : Size(m) <= Size(c)
    BY <2>3, <2>4
  <2>6. m \in On(pos) /\ m \in Node
    BY <1>0
  <2>7. kd["L"][m] # Nil => kd["L"][m] \in On(pos) /\ Size(kd["L"][m]) < Size(m)
    <3>1. /\ pos[m] \in 1 .. Len(q) /\ Len(q) \in Nat
          /\ ext["L"][m] \in 1 .. pos[m] /\ ext["R"][m] \in pos[m] .. Len(q)
      BY <2>6, KidSpans
    <3>2. kd["L"][m] # Nil => /\ kd["L"][m] \in On(pos)
                              /\ ext["L"][kd["L"][m]] = ext["L"][m]
                              /\ ext["R"][kd["L"][m]] = pos[m] - 1
      BY <2>6, KidSpans
    <3>3. pos[m] \in Nat /\ ext["L"][m] \in Nat /\ ext["R"][m] \in Nat /\ pos[m] <= ext["R"][m]
      BY <3>1
    <3> QED
      BY <3>2, <3>3
  <2>8. CASE kd["L"][m] = Nil
    BY <1>1, <1>5, <2>6, <2>8
  <2>9. CASE kd["L"][m] # Nil
    <3>1. kd["L"][m] \notin Bad
      BY <2>1, <2>5, <2>6, <2>7, <2>9
    <3>2. down[kd["L"][m]] = q[ext["L"][kd["L"][m]]]
      BY <2>7, <2>9, <3>1
    <3> QED
      BY <1>1, <1>5, <2>6, <2>9, <3>2
  <2> QED
    BY <2>8, <2>9
<1>7. rb_minimum(kd, n) = down[n]
  BY DEF rb_minimum, down
<1> QED
  BY <1>6, <1>7

(* bh gives the black nodes on the paths down from a node, all equal but   *)
(* for the child of p on side sd, which is one short.  No p: none is.      *)
HeightOK(kd, col, bh, p, sd, n, d) ==
  bh[n] = bh[kd[d][n]] + (IF n = p /\ d = sd THEN 1 ELSE 0)
                       + (IF col[n] = "RED" THEN 0 ELSE 1)

Heights(pos, kd, col, bh, p, sd) ==
  /\ bh \in [Link -> Nat] /\ bh[Nil] = 0
  /\ \A n \in On(pos), d \in Side : HeightOK(kd, col, bh, p, sd, n, d)

(* Where no child is short every path down has as many black nodes.        *)
LEMMA HeightsAre ==
  ASSUME NEW q, NEW pos, NEW ext, NEW bh, NEW sd, color \in [Node -> {"RED", "BLACK"}],
         Shape(q, pos, ext, kid, parent, root),
         \A n \in Node \ On(pos), d \in Side : kid[d][n] \in On(pos) \cup {Nil},
         Heights(pos, kid, color, bh, Nil, sd)
  PROVE  BlackHeights(root) = {bh[root]}
<1> DEFINE Up(m, H) == {h + (IF Red(m) THEN 0 ELSE 1) : h \in H}
           Eq(f) == f = [m \in Link |->
                          IF m = Nil THEN {0}
                          ELSE {h + (IF Red(m) THEN 0 ELSE 1) :
                                  h \in f[kid["L"][m]] \cup f[kid["R"][m]]}]
           F == [m \in Link |-> IF m \in On(pos) \cup {Nil} THEN {bh[m]}
                                ELSE Up(m, {bh[kid["L"][m]]} \cup {bh[kid["R"][m]]})]
           heights == CHOOSE f : Eq(f)
<1>0. /\ Nil \notin Node /\ Nil \notin On(pos) /\ On(pos) \subseteq Node
      /\ bh \in [Link -> Nat] /\ bh[Nil] = 0
  BY RBTreeAssumption DEF On, Heights
<1>1. ASSUME NEW m \in On(pos)
      PROVE  {bh[m]} = Up(m, {bh[kid["L"][m]]} \cup {bh[kid["R"][m]]})
  <2>1. /\ bh[m] = bh[kid["L"][m]] + (IF Red(m) THEN 0 ELSE 1)
        /\ bh[m] = bh[kid["R"][m]] + (IF Red(m) THEN 0 ELSE 1)
    <3>1. HeightOK(kid, color, bh, Nil, sd, m, "L") /\ HeightOK(kid, color, bh, Nil, sd, m, "R")
      BY DEF Heights, Side
    <3>2. m # Nil /\ m \in Node
      BY <1>0
    <3>3. (IF m = Nil /\ "L" = sd THEN 1 ELSE 0) = 0 /\ (IF m = Nil /\ "R" = sd THEN 1 ELSE 0) = 0
      BY <3>2
    <3>4. kid["L"][m] \in Link /\ kid["R"][m] \in Link
      BY <1>0, KidSpans DEF Link
    <3>5. bh[kid["L"][m]] \in Nat /\ bh[kid["R"][m]] \in Nat
      BY <1>0, <3>4
    <3> QED
      BY <3>1, <3>2, <3>3, <3>5 DEF HeightOK, Red
  <2> QED
    BY <2>1
<1>2. \A m \in Node : kid["L"][m] \in On(pos) \cup {Nil} /\ kid["R"][m] \in On(pos) \cup {Nil}
  <2>1. \A m \in On(pos) : kid["L"][m] \in On(pos) \cup {Nil} /\ kid["R"][m] \in On(pos) \cup {Nil}
    BY KidSpans
  <2> QED
    BY <2>1 DEF Side
<1>3. Eq(F)
  <2> DEFINE G == [m \in Link |->
                     IF m = Nil THEN {0} ELSE Up(m, F[kid["L"][m]] \cup F[kid["R"][m]])]
  <2> HIDE DEF Up
  <2>1. ASSUME NEW m \in Link PROVE F[m] = G[m]
    <3>1. CASE m = Nil
      BY <1>0, <3>1
    <3>2. CASE m \in Node
      <4>1. F[kid["L"][m]] = {bh[kid["L"][m]]} /\ F[kid["R"][m]] = {bh[kid["R"][m]]}
        BY <1>0, <1>2, <3>2 DEF Link
      <4>2. F[m] = Up(m, {bh[kid["L"][m]]} \cup {bh[kid["R"][m]]})
        <5>1. CASE m \in On(pos)
          <6>1. F[m] = {bh[m]}
            BY <5>1
          <6> HIDE DEF F
          <6> QED
            BY <1>1, <5>1, <6>1
        <5>2. CASE m \notin On(pos)
          BY <1>0, <3>2, <5>2
        <5> QED
          BY <5>1, <5>2
      <4> HIDE DEF F
      <4> QED
        BY <1>0, <3>2, <4>1, <4>2
    <3> QED
      BY <3>1, <3>2 DEF Link
  <2>2. F = [m \in Link |-> F[m]]
    BY Zenon
  <2> HIDE DEF F
  <2>3. G = [m \in Link |-> G[m]]
    BY SMT
  <2> HIDE DEF G
  <2>4. F = G
    BY <2>1, <2>2, <2>3, Zenon
  <2> QED
    BY <2>4 DEF G, Up
<1>4. Eq(heights)
  BY <1>3, Zenon
<1> HIDE DEF heights, F
<1>5. /\ heights[Nil] = {0}
      /\ \A m \in Node : heights[m] = Up(m, heights[kid["L"][m]] \cup heights[kid["R"][m]])
  BY <1>0, <1>4 DEF Link
<1> HIDE DEF Up
<1> DEFINE Bad == {m \in On(pos) : heights[m] # {bh[m]}}
           Size(m) == ext["R"][m] - ext["L"][m]
<1>6. Bad = {}
  <2> SUFFICES ASSUME Bad # {} PROVE FALSE
    OBVIOUS
  <2>1. \A m \in On(pos) : Size(m) \in Nat
    BY KidSpans
  <2> DEFINE T == {Size(m) : m \in Bad}
  <2>2. T \in SUBSET Nat /\ T # {}
    BY <2>1
  <2>3. PICK s \in T : \A y \in T : s <= y
    BY <2>2, Least
  <2>4. PICK m \in Bad : s = Size(m)
    BY <2>3
  <2>5. \A c \in Bad : Size(m) <= Size(c)
    BY <2>3, <2>4
  <2>6. m \in On(pos) /\ m \in Node
    BY <1>0
  <2>7. ASSUME NEW d \in Side
        PROVE  heights[kid[d][m]] = {bh[kid[d][m]]}
    <3>1. CASE kid[d][m] = Nil
      BY <1>0, <1>5, <3>1
    <3>2. CASE kid[d][m] # Nil
      <4>1. /\ pos[m] \in 1 .. Len(q) /\ Len(q) \in Nat
            /\ ext["L"][m] \in 1 .. pos[m] /\ ext["R"][m] \in pos[m] .. Len(q)
        BY <2>6, KidSpans
      <4>2. kid[d][m] \in On(pos) /\ Size(kid[d][m]) < Size(m)
        <5>1. CASE d = "L"
          <6>1. /\ kid["L"][m] \in On(pos)
                /\ ext["L"][kid["L"][m]] = ext["L"][m]
                /\ ext["R"][kid["L"][m]] = pos[m] - 1
            BY <2>6, <3>2, <5>1, KidSpans
          <6> QED
            BY <4>1, <5>1, <6>1
        <5>2. CASE d = "R"
          <6>1. /\ kid["R"][m] \in On(pos)
                /\ ext["R"][kid["R"][m]] = ext["R"][m]
                /\ ext["L"][kid["R"][m]] = pos[m] + 1
            BY <2>6, <3>2, <5>2, KidSpans
          <6> QED
            BY <4>1, <5>2, <6>1
        <5> QED
          BY <5>1, <5>2 DEF Side
      <4>3. kid[d][m] \notin Bad
        BY <2>1, <2>5, <2>6, <4>2
      <4> QED
        BY <4>2, <4>3
    <3> QED
      BY <3>1, <3>2
  <2>8. heights[kid["L"][m]] = {bh[kid["L"][m]]} /\ heights[kid["R"][m]] = {bh[kid["R"][m]]}
    BY <2>7 DEF Side
  <2>9. heights[m] = {bh[m]}
    BY <1>1, <1>5, <2>6, <2>8
  <2> QED
    BY <2>9
<1>7. heights[root] = {bh[root]}
  <2>1. root = Nil \/ root \in On(pos)
    BY DEF Shape, RootOK
  <2> QED
    BY <1>0, <1>5, <1>6, <2>1
<1>8. BlackHeights(root) = heights[root]
  BY DEF BlackHeights, heights
<1> QED
  BY <1>7, <1>8

(* A child lies in the interval of its parent, on its side of it.          *)
LEMMA LinkFacts ==
  ASSUME NEW q, NEW pos, NEW ext, NEW kd, NEW par, NEW rt,
         Shape(q, pos, ext, kd, par, rt),
         NEW n \in On(pos), NEW d \in Side, NEW c, c = kd[d][n], c # Nil
  PROVE  /\ c \in On(pos) /\ par[c] = n /\ c # n /\ kd[Other(d)][n] # c /\ c # rt
         /\ ext["L"][n] <= pos[c] /\ pos[c] <= ext["R"][n]
         /\ ext["L"][c] <= pos[c] /\ pos[c] <= ext["R"][c]
         /\ pos[n] < ext["L"][c] \/ ext["R"][c] < pos[n]
         /\ ext[d][c] = ext[d][n] /\ ext[Other(d)][c] = pos[n] + Sign(d)
<1>0. d = "L" \/ d = "R"
  BY DEF Side
<1>1. /\ pos[n] \in 1 .. Len(q) /\ Len(q) \in Nat /\ n \in Node
      /\ ext["L"][n] \in 1 .. pos[n] /\ ext["R"][n] \in pos[n] .. Len(q)
  BY KidSpans
<1>2. /\ c \in On(pos) /\ par[c] = n
      /\ ext[d][c] = ext[d][n] /\ ext[Other(d)][c] = pos[n] + Sign(d)
  BY DEF Shape, KidOK
<1>3. /\ pos[c] \in 1 .. Len(q) /\ c \in Node
      /\ ext["L"][c] \in 1 .. pos[c] /\ ext["R"][c] \in pos[c] .. Len(q)
  BY <1>2, KidSpans
<1>4. /\ d = "L" => ext["L"][c] = ext["L"][n] /\ ext["R"][c] = pos[n] - 1
      /\ d = "R" => ext["R"][c] = ext["R"][n] /\ ext["L"][c] = pos[n] + 1
  BY <1>1, <1>2 DEF Other, Sign
<1>5. /\ ext["L"][n] <= pos[c] /\ pos[c] <= ext["R"][n]
      /\ ext["L"][c] <= pos[c] /\ pos[c] <= ext["R"][c]
      /\ pos[n] < ext["L"][c] \/ ext["R"][c] < pos[n]
  BY <1>0, <1>1, <1>3, <1>4
<1>6. c # n
  BY <1>1, <1>3, <1>5
<1>7. kd[Other(d)][n] # c
  <2> SUFFICES ASSUME kd[Other(d)][n] = c PROVE FALSE
    OBVIOUS
  <2>1. /\ ext["L"][c] = ext["L"][n] /\ ext["R"][c] = pos[n] - 1
        /\ ext["R"][c] = ext["R"][n] /\ ext["L"][c] = pos[n] + 1
    BY <1>0, KidSpans DEF Other
  <2> QED
    BY <1>1, <2>1
<1>8. c # rt
  <2>1. n # Nil
    BY <1>1, RBTreeAssumption
  <2> QED
    BY <1>2, <2>1 DEF Shape, RootOK
<1> QED
  BY <1>2, <1>5, <1>6, <1>7, <1>8

(* The two children of a node are different.                               *)
LEMMA KidsDiffer ==
  ASSUME NEW q, NEW pos, NEW ext, NEW kd, NEW par, NEW rt,
         Shape(q, pos, ext, kd, par, rt), NEW n \in On(pos), NEW d \in Side
  PROVE  kd[d][n] # Nil => kd[Other(d)][n] # kd[d][n]
<1> SUFFICES ASSUME NEW c, c = kd[d][n], c # Nil PROVE kd[Other(d)][n] # c
  OBVIOUS
<1> QED
  BY LinkFacts

(* Only the root has no parent; any other node is one child of its own.    *)
LEMMA UpFacts ==
  ASSUME NEW q, NEW pos, NEW ext, NEW kd, NEW par, NEW rt,
         Shape(q, pos, ext, kd, par, rt), NEW n \in On(pos)
  PROVE  /\ par[n] = Nil <=> n = rt
         /\ n # rt => /\ par[n] \in On(pos) /\ par[n] # n
                      /\ pos[par[n]] < ext["L"][n] \/ ext["R"][n] < pos[par[n]]
                      /\ \E d \in Side : kd[d][par[n]] = n /\ kd[Other(d)][par[n]] # n
<1>1. n # rt => par[n] \in On(pos) /\ \E d \in Side : kd[d][par[n]] = n
  BY DEF Shape, UpOK
<1>2. On(pos) \subseteq Node /\ Nil \notin Node
  BY RBTreeAssumption DEF On
<1>3. n # Nil
  BY <1>2
<1>4. n = rt => par[n] = Nil
  BY <1>3 DEF Shape, RootOK
<1>5. ASSUME n # rt
      PROVE  /\ par[n] \in On(pos) /\ par[n] # n
             /\ pos[par[n]] < ext["L"][n] \/ ext["R"][n] < pos[par[n]]
             /\ \E d \in Side : kd[d][par[n]] = n /\ kd[Other(d)][par[n]] # n
  <2>1. PICK d \in Side : kd[d][par[n]] = n
    BY <1>1, <1>5
  <2>2. /\ n # par[n] /\ kd[Other(d)][par[n]] # n
        /\ pos[par[n]] < ext["L"][n] \/ ext["R"][n] < pos[par[n]]
    BY <1>1, <1>3, <1>5, <2>1, LinkFacts
  <2> QED
    BY <1>1, <1>5, <2>1, <2>2
<1> QED
  BY <1>1, <1>2, <1>4, <1>5

(* v in the place of u, link by link.                                      *)
LEMMA HangFacts ==
  ASSUME NEW kd \in [Side -> [Node -> Link]], NEW p \in Link, NEW u, NEW v \in Link,
         p # Nil => \E d \in Side : kd[d][p] = u /\ kd[Other(d)][p] # u
  PROVE  /\ Hang(kd, p, u, v) \in [Side -> [Node -> Link]]
         /\ \A m \in Node, e \in Side :
              Hang(kd, p, u, v)[e][m] = IF m = p /\ kd[e][m] = u THEN v ELSE kd[e][m]
<1>1. CASE p = Nil
  BY <1>1, RBTreeAssumption DEF Hang
<1>2. CASE p # Nil
  <2>1. p \in Node
    BY <1>2 DEF Link
  <2>2. CASE kd["L"][p] = u /\ kd["R"][p] # u
    <3>1. Hang(kd, p, u, v) = [kd EXCEPT !["L"][p] = v]
      BY <1>2, <2>2 DEF Hang
    <3> QED
      BY <2>1, <2>2, <3>1 DEF Side
  <2>3. CASE kd["R"][p] = u /\ kd["L"][p] # u
    <3>1. Hang(kd, p, u, v) = [kd EXCEPT !["R"][p] = v]
      BY <1>2, <2>3 DEF Hang
    <3> QED
      BY <2>1, <2>3, <3>1 DEF Side
  <2> QED
    BY <1>2, <2>2, <2>3 DEF Side, Other
<1> QED
  BY <1>1, <1>2

(* A rotation, link by link: y comes up, n goes down, the child of y that  *)
(* lies between them changes sides.                                        *)
LEMMA TurnFacts ==
  ASSUME NEW q, NEW pos, NEW ext, NEW kd, NEW par, NEW rt,
         Shape(q, pos, ext, kd, par, rt),
         NEW d \in Side, NEW n \in On(pos), NEW y, y = kd[Other(d)][n], y # Nil
  PROVE  /\ y \in On(pos) /\ y # n /\ y # par[n] /\ n # par[n] /\ kd[d][y] # n /\ kd[d][y] # y
         /\ TurnedKids(kd, par, d, n) \in [Side -> [Node -> Link]]
         /\ \A m \in Node, e \in Side :
              TurnedKids(kd, par, d, n)[e][m] =
                IF m = n /\ e = Other(d) THEN kd[d][y]
                ELSE IF m = y /\ e = d THEN n
                ELSE IF m = par[n] /\ kd[e][m] = n THEN y ELSE kd[e][m]
         /\ TurnedParents(kd, par, d, n) \in [Node -> Link]
         /\ \A m \in Node :
              TurnedParents(kd, par, d, n)[m] =
                IF m = n THEN y ELSE IF m = y THEN par[n]
                ELSE IF m = kd[d][y] THEN n ELSE par[m]
<1> DEFINE o == Other(d)
           in == kd[d][y]
           p == par[n]
           moved == [kd EXCEPT ![o][n] = in]
           hung == Hang(moved, p, n, y)
<1>0. d \in Side /\ o \in Side /\ o # d /\ Other(o) = d
  BY DEF Side, Other
<1>a. /\ pos \in [Node -> Nat] /\ ext \in [Side -> [Node -> Int]] /\ "L" \in Side /\ "R" \in Side
      /\ kd \in [Side -> [Node -> Link]] /\ par \in [Node -> Link] /\ rt \in Link
  BY ShapeTypes
<1>1. n \in Node /\ Nil \notin Node /\ On(pos) \subseteq Node
  BY ShapeTypes
<1>2. /\ y \in On(pos) /\ par[y] = n /\ y # n
      /\ ext["L"][n] <= pos[y] /\ pos[y] <= ext["R"][n]
      /\ ext["L"][y] <= pos[y] /\ pos[y] <= ext["R"][y]
      /\ pos[n] < ext["L"][y] \/ ext["R"][y] < pos[n]
  BY <1>0, LinkFacts
<1>3. in \in Link /\ p \in Link /\ y \in Node /\ y \in Link
  BY <1>a, <1>0, <1>1, <1>2 DEF Link
<1>4. /\ p = Nil <=> n = rt
      /\ n # rt => /\ p \in On(pos) /\ p # n
                   /\ pos[p] < ext["L"][n] \/ ext["R"][n] < pos[p]
                   /\ \E e \in Side : kd[e][p] = n /\ kd[Other(e)][p] # n
  BY UpFacts
<1>5. /\ ext["L"][n] \in Int /\ ext["R"][n] \in Int /\ pos \in [Node -> Nat]
      /\ ext["L"][y] \in Int /\ ext["R"][y] \in Int
  BY <1>a, <1>1, <1>3
<1>6. y # p /\ n # p
  <2>1. CASE n = rt
    BY <1>1, <1>3, <1>4, <2>1
  <2>2. CASE n # rt
    <3>1. pos[p] \in Nat /\ pos[y] \in Nat /\ p # n
      BY <1>1, <1>2, <1>4, <1>5, <2>2
    <3>2. pos[p] # pos[y]
      BY <1>2, <1>4, <1>5, <2>2, <3>1
    <3> QED
      BY <3>1, <3>2
  <2> QED
    BY <2>1, <2>2
<1>7. in # n /\ in # y
  <2>1. CASE in = Nil
    BY <1>1, <1>3, <2>1
  <2>2. CASE in # Nil
    <3>1. par[in] = y /\ in # y
      BY <1>0, <1>2, <2>2, LinkFacts
    <3>2. in = n => p = y
      BY <3>1
    <3> QED
      BY <1>6, <3>1, <3>2
  <2> QED
    BY <2>1, <2>2
<1> HIDE DEF in, p, o
<1>8. /\ moved \in [Side -> [Node -> Link]]
      /\ \A m \in Node, e \in Side : moved[e][m] = IF m = n /\ e = o THEN in ELSE kd[e][m]
  BY <1>a, <1>0, <1>1, <1>3
<1> HIDE DEF moved
<1>9. p # Nil => \E e \in Side : moved[e][p] = n /\ moved[Other(e)][p] # n
  <2> SUFFICES ASSUME p # Nil PROVE \E e \in Side : moved[e][p] = n /\ moved[Other(e)][p] # n
    OBVIOUS
  <2>1. PICK e \in Side : kd[e][p] = n /\ kd[Other(e)][p] # n
    BY <1>4
  <2>2. p \in Node /\ Other(e) \in Side
    BY <1>3 DEF Link, Side, Other
  <2>3. moved[e][p] = kd[e][p] /\ moved[Other(e)][p] = kd[Other(e)][p]
    BY <1>6, <1>8, <2>2
  <2> QED
    BY <2>1, <2>3
<1>10. /\ hung \in [Side -> [Node -> Link]]
       /\ \A m \in Node, e \in Side :
            hung[e][m] = IF m = p /\ moved[e][m] = n THEN y ELSE moved[e][m]
  BY <1>3, <1>8, <1>9, HangFacts
<1>11. TurnedKids(kd, par, d, n) = [hung EXCEPT ![d][y] = n]
  BY Zenon DEF TurnedKids, hung, moved, in, p, o
<1> HIDE DEF hung
<1>12. n \in Link
  BY <1>1 DEF Link
<1>13. TurnedKids(kd, par, d, n) \in [Side -> [Node -> Link]]
  BY <1>0, <1>3, <1>10, <1>11, <1>12
<1>14. ASSUME NEW m \in Node, NEW e \in Side
       PROVE  TurnedKids(kd, par, d, n)[e][m] =
                IF m = n /\ e = o THEN in
                ELSE IF m = y /\ e = d THEN n
                ELSE IF m = p /\ kd[e][m] = n THEN y ELSE kd[e][m]
  <2>1. TurnedKids(kd, par, d, n)[e][m] = IF m = y /\ e = d THEN n ELSE hung[e][m]
    BY <1>0, <1>3, <1>10, <1>11
  <2>2. hung[e][m] = IF m = p /\ moved[e][m] = n THEN y ELSE moved[e][m]
    BY <1>10
  <2>3. moved[e][m] = IF m = n /\ e = o THEN in ELSE kd[e][m]
    BY <1>8
  <2> QED
    BY <1>2, <1>6, <1>7, <2>1, <2>2, <2>3
<1> DEFINE under == Under(par, in, n)
           lifted == Under(under, y, p)
<1>15. /\ under \in [Node -> Link]
       /\ \A m \in Node : under[m] = IF m = in THEN n ELSE par[m]
  BY <1>a, <1>1, <1>3, <1>12 DEF Under, Link
<1> HIDE DEF under
<1>16. /\ lifted \in [Node -> Link]
       /\ \A m \in Node : lifted[m] = IF m = y THEN p ELSE under[m]
  BY <1>1, <1>3, <1>15 DEF Under
<1>17. TurnedParents(kd, par, d, n) = [lifted EXCEPT ![n] = y]
  BY Zenon DEF TurnedParents, lifted, under, in, p, o
<1> HIDE DEF lifted
<1>18. TurnedParents(kd, par, d, n) \in [Node -> Link]
  BY <1>3, <1>16, <1>17
<1>19. ASSUME NEW m \in Node
       PROVE  TurnedParents(kd, par, d, n)[m] =
                IF m = n THEN y ELSE IF m = y THEN p ELSE IF m = in THEN n ELSE par[m]
  <2>1. TurnedParents(kd, par, d, n)[m] = IF m = n THEN y ELSE lifted[m]
    BY <1>1, <1>3, <1>16, <1>17
  <2> QED
    BY <1>15, <1>16, <2>1
<1> QED
  BY <1>2, <1>6, <1>7, <1>13, <1>14, <1>18, <1>19 DEF o, in, p

(* In a rotation only the spans of n and y change.                         *)
TurnedSpans(pos, ext, d, n, y) ==
  [ext EXCEPT ![d][y] = ext[d][n], ![Other(d)][n] = pos[y] + Sign(d)]

(* A rotation keeps the order, and the links stay those of one tree.       *)
LEMMA TurnShape ==
  ASSUME NEW q, NEW pos, NEW ext, NEW kd, NEW par, NEW rt,
         Shape(q, pos, ext, kd, par, rt),
         NEW d \in Side, NEW n \in On(pos), NEW y, y = kd[Other(d)][n], y # Nil
  PROVE  Shape(q, pos, TurnedSpans(pos, ext, d, n, y), TurnedKids(kd, par, d, n),
               TurnedParents(kd, par, d, n), IF par[n] = Nil THEN y ELSE rt)
<1> DEFINE o == Other(d)
           in == kd[d][y]
           p == par[n]
           ext2 == TurnedSpans(pos, ext, d, n, y)
           kd2 == TurnedKids(kd, par, d, n)
           par2 == TurnedParents(kd, par, d, n)
           rt2 == IF p = Nil THEN y ELSE rt
<1>0. d \in Side /\ o \in Side /\ o # d /\ Other(o) = d /\ \A e \in Side : e = d \/ e = o
  BY DEF Side, Other
<1>1. n \in Node /\ Nil \notin Node /\ On(pos) \subseteq Node
  BY ShapeTypes
<1>2. /\ y \in On(pos) /\ y \in Node /\ y # n /\ y # p /\ n # p /\ in # n /\ in # y
      /\ \A m \in Node, e \in Side :
           kd2[e][m] = IF m = n /\ e = o THEN in
                       ELSE IF m = y /\ e = d THEN n
                       ELSE IF m = p /\ kd[e][m] = n THEN y ELSE kd[e][m]
      /\ \A m \in Node :
           par2[m] = IF m = n THEN y ELSE IF m = y THEN p
                     ELSE IF m = in THEN n ELSE par[m]
  <2>1. y \in On(pos)
    BY TurnFacts
  <2>2. y \in Node
    BY <1>1, <2>1
  <2> QED
    BY <2>2, TurnFacts
<1>3. /\ pos \in [Node -> Nat] /\ ext \in [Side -> [Node -> Int]] /\ Len(q) \in Nat
      /\ q \in Seq(Node)
  BY ShapeTypes
<1>4. Sign(d) \in Int /\ Sign(o) = 0 - Sign(d)
  BY <1>0 DEF Sign, Other, Side
<1>5. /\ par[y] = n /\ ext[o][y] = ext[o][n] /\ ext[d][y] = pos[n] + Sign(o)
      /\ ext["L"][n] <= pos[y] /\ pos[y] <= ext["R"][n]
      /\ ext["L"][y] <= pos[y] /\ pos[y] <= ext["R"][y]
      /\ pos[n] < ext["L"][y] \/ ext["R"][y] < pos[n]
  <2>1. Other(o) = d /\ o \in Side /\ y = kd[o][n]
    BY <1>0
  <2> HIDE DEF o
  <2> QED
    BY <2>1, LinkFacts
<1>6. /\ ext["L"][n] <= pos[n] /\ pos[n] <= ext["R"][n] /\ 1 <= ext["L"][n] /\ ext["R"][n] <= Len(q)
  BY DEF Shape, Spans
<1>7. /\ in = Nil => ext[d][y] = pos[y]
      /\ in # Nil => /\ in \in On(pos) /\ par[in] = y
                     /\ ext[d][in] = ext[d][y] /\ ext[o][in] = pos[y] + Sign(d)
  <2>1. KidOK(pos, ext, kd, par, y, d)
    BY <1>2 DEF Shape
  <2> QED
    BY <2>1 DEF KidOK
<1>b. kd[d][y] # Nil => kd[Other(d)][y] # kd[d][y]
  BY <1>2, KidsDiffer
<1>8. /\ p = Nil <=> n = rt
      /\ n # rt => p \in On(pos) /\ \E e \in Side : kd[e][p] = n /\ kd[Other(e)][p] # n
  BY UpFacts
<1> HIDE DEF o, in, p, kd2, par2
<1>9. /\ ext2 \in [Side -> [Node -> Int]]
      /\ \A m \in Node, e \in Side :
           ext2[e][m] = IF m = y /\ e = d THEN ext[d][n]
                        ELSE IF m = n /\ e = o THEN pos[y] + Sign(d) ELSE ext[e][m]
  <2> DEFINE e1 == [ext EXCEPT ![d][y] = ext[d][n]]
             v == pos[y] + Sign(d)
  <2>1. v \in Int /\ ext[d][n] \in Int
    BY <1>0, <1>1, <1>2, <1>3, <1>4
  <2>2. /\ e1 \in [Side -> [Node -> Int]]
        /\ \A m \in Node, e \in Side : e1[e][m] = IF m = y /\ e = d THEN ext[d][n] ELSE ext[e][m]
    BY <1>2, <1>3, <2>1
  <2>3. ext2 = [e1 EXCEPT ![o][n] = v]
    BY Zenon DEF TurnedSpans, o
  <2> HIDE DEF e1, v, ext2
  <2>4. /\ ext2 \in [Side -> [Node -> Int]]
        /\ \A m \in Node, e \in Side : ext2[e][m] = IF m = n /\ e = o THEN v ELSE e1[e][m]
    BY <1>0, <1>1, <2>1, <2>2, <2>3
  <2> QED
    BY <1>2, <2>2, <2>4 DEF v
<1> HIDE DEF ext2
<1>10. Spans(q, pos, ext2)
  <2>1. ASSUME NEW m \in On(pos)
        PROVE  /\ 1 <= ext2["L"][m] /\ ext2["L"][m] <= pos[m]
               /\ pos[m] <= ext2["R"][m] /\ ext2["R"][m] <= Len(q)
    <3>0. m \in Node /\ "L" \in Side /\ "R" \in Side
      BY <1>1 DEF Side
    <3>1. /\ 1 <= ext["L"][m] /\ ext["L"][m] <= pos[m]
          /\ pos[m] <= ext["R"][m] /\ ext["R"][m] <= Len(q)
      BY DEF Shape, Spans
    <3>2. CASE m = y
      <4>1. ext["L"][n] \in Int /\ ext["R"][n] \in Int /\ pos[y] \in Int /\ pos[n] \in Int
        BY <1>1, <1>2, <1>3, <3>0
      <4>2. ext2[d][m] = ext[d][n] /\ ext2[o][m] = ext[o][m]
        BY <1>0, <1>2, <1>9, <3>2
      <4>3. d = "L" \/ d = "R"
        BY DEF Side
      <4> QED
        BY <1>5, <1>6, <3>1, <3>2, <4>1, <4>2, <4>3 DEF o, Other
    <3>3. CASE m = n
      <4>1. /\ ext["L"][y] \in Int /\ ext["R"][y] \in Int /\ pos[y] \in Int /\ pos[n] \in Int
            /\ ext["L"][n] \in Int /\ ext["R"][n] \in Int
        BY <1>1, <1>2, <1>3, <3>0
      <4>2. ext2[d][m] = ext[d][m] /\ ext2[o][m] = pos[y] + Sign(d)
        BY <1>0, <1>2, <1>9, <3>0, <3>3
      <4>3. CASE d = "L"
        <5>1. ext["L"][y] = pos[n] + 1 /\ ext2["R"][m] = pos[y] - 1 /\ ext2["L"][m] = ext["L"][m]
          BY <1>5, <4>1, <4>2, <4>3 DEF o, Other, Sign
        <5> QED
          BY <1>5, <1>6, <3>1, <3>3, <4>1, <5>1
      <4>4. CASE d = "R"
        <5>1. ext["R"][y] = pos[n] - 1 /\ ext2["L"][m] = pos[y] + 1 /\ ext2["R"][m] = ext["R"][m]
          BY <1>5, <4>1, <4>2, <4>4 DEF o, Other, Sign
        <5> QED
          BY <1>5, <1>6, <3>1, <3>3, <4>1, <5>1
      <4> QED
        BY <4>3, <4>4 DEF Side
    <3>4. CASE m # y /\ m # n
      BY <1>9, <3>0, <3>1, <3>4
    <3> QED
      BY <3>2, <3>3, <3>4
  <2> QED
    BY <1>9, <2>1 DEF Spans
<1>11. RootOK(q, pos, ext2, par2, rt2)
  <2>1. CASE n = rt
    <3>1. rt2 = y /\ par2[y] = Nil /\ y # Nil
      BY <1>1, <1>2, <1>8, <2>1
    <3>2. ext["L"][n] = 1 /\ ext["R"][n] = Len(q)
      BY <1>1, <2>1 DEF Shape, RootOK
    <3>3. ext2["L"][y] = 1 /\ ext2["R"][y] = Len(q)
      <4>1. ext2[d][y] = ext[d][n] /\ ext2[o][y] = ext[o][n]
        BY <1>0, <1>2, <1>5, <1>9
      <4> QED
        BY <3>2, <4>1 DEF o, Other, Side
    <3> QED
      BY <1>2, <3>1, <3>3 DEF RootOK
  <2>2. CASE n # rt
    <3>1. rt2 = rt
      BY <1>8, <2>2
    <3>2. CASE rt = Nil
      BY <3>1, <3>2 DEF Shape, RootOK
    <3>3. CASE rt # Nil
      <4>1. rt \in On(pos) /\ par[rt] = Nil /\ ext["L"][rt] = 1 /\ ext["R"][rt] = Len(q)
        BY <3>3 DEF Shape, RootOK
      <4>2. rt # y /\ rt # in /\ rt # n /\ rt \in Node
        BY <1>1, <1>2, <1>5, <1>7, <2>2, <4>1
      <4>3. par2[rt] = Nil
        BY <1>2, <4>1, <4>2
      <4>4. ext2["L"][rt] = 1 /\ ext2["R"][rt] = Len(q)
        BY <1>9, <4>1, <4>2 DEF Side
      <4> QED
        BY <3>1, <3>3, <4>1, <4>3, <4>4 DEF RootOK
    <3> QED
      BY <3>2, <3>3
  <2> QED
    BY <2>1, <2>2
<1>12. ASSUME NEW m \in On(pos), NEW e \in Side
       PROVE  KidOK(pos, ext2, kd2, par2, m, e)
  <2>0. m \in Node /\ Other(e) \in Side /\ e # Other(e)
    BY <1>1 DEF Side, Other
  <2>1. CASE m = n /\ e = o
    <3>1. kd2[e][m] = in /\ ext2[e][m] = pos[y] + Sign(d) /\ Other(e) = d
      BY <1>0, <1>2, <1>9, <2>0, <2>1
    <3>2. CASE in = Nil
      <4>1. pos[y] + Sign(d) = pos[n]
        BY <1>1, <1>2, <1>3, <1>4, <1>5, <1>7, <3>2
      <4> QED
        BY <2>1, <3>1, <3>2, <4>1 DEF KidOK
    <3>3. CASE in # Nil
      <4>1. in \in On(pos) /\ in \in Node /\ par2[in] = n
        BY <1>1, <1>2, <1>7, <3>3
      <4>2. ext2[o][in] = ext[o][in] /\ ext2[d][in] = ext[d][in]
        BY <1>0, <1>2, <1>9, <4>1
      <4>3. ext2[o][in] = pos[y] + Sign(d) /\ ext2[d][in] = pos[n] + Sign(o)
        BY <1>5, <1>7, <3>3, <4>2
      <4> QED
        BY <2>1, <3>1, <3>3, <4>1, <4>3 DEF KidOK
    <3> QED
      BY <3>2, <3>3
  <2>2. CASE m = y /\ e = d
    <3>1. kd2[e][m] = n /\ ext2[e][m] = ext[d][n] /\ Other(e) = o /\ n # Nil
      BY <1>0, <1>1, <1>2, <1>9, <2>0, <2>2 DEF o
    <3>2. par2[n] = y /\ ext2[d][n] = ext[d][n] /\ ext2[o][n] = pos[y] + Sign(d)
      BY <1>0, <1>1, <1>2, <1>9
    <3> QED
      BY <2>2, <3>1, <3>2 DEF KidOK
  <2>3. CASE ~(m = n /\ e = o) /\ ~(m = y /\ e = d) /\ m = p /\ kd[e][m] = n
    <3>1. kd2[e][m] = y /\ y # Nil /\ ext2[e][m] = ext[e][m]
      BY <1>1, <1>2, <1>9, <2>0, <2>3
    <3>2. ext[e][n] = ext[e][m] /\ ext[Other(e)][n] = pos[m] + Sign(e)
      <4>1. KidOK(pos, ext, kd, par, m, e)
        BY DEF Shape
      <4> QED
        BY <1>1, <2>3, <4>1 DEF KidOK
    <3>3. ext2[d][y] = ext[d][n] /\ ext2[o][y] = ext[o][n]
      BY <1>0, <1>2, <1>5, <1>9
    <3>4. ext2[e][y] = ext[e][n] /\ ext2[Other(e)][y] = ext[Other(e)][n]
      BY <1>0, <2>0, <3>3
    <3>5. par2[y] = m
      BY <1>2, <2>3
    <3> QED
      BY <1>2, <3>1, <3>2, <3>4, <3>5 DEF KidOK
  <2>4. CASE ~(m = n /\ e = o) /\ ~(m = y /\ e = d) /\ ~(m = p /\ kd[e][m] = n)
    <3> DEFINE c == kd[e][m]
    <3>1. kd2[e][m] = c /\ ext2[e][m] = ext[e][m]
      BY <1>2, <1>9, <2>0, <2>4
    <3>2. KidOK(pos, ext, kd, par, m, e)
      BY DEF Shape
    <3>3. CASE c = Nil
      BY <3>1, <3>2, <3>3 DEF KidOK
    <3>4. CASE c # Nil
      <4>1. /\ c \in On(pos) /\ par[c] = m
            /\ ext[e][c] = ext[e][m] /\ ext[Other(e)][c] = pos[m] + Sign(e)
        BY <3>2, <3>4 DEF KidOK
      <4>2. c # n
        BY <2>4, <4>1 DEF p
      <4>3. c # y
        <5> SUFFICES ASSUME c = y PROVE FALSE
          OBVIOUS
        <5>1. m = n /\ e = d
          BY <1>0, <1>5, <2>4, <4>1
        <5>2. y = kd[Other(d)][n] /\ y = kd[d][n]
          BY <5>1
        <5> QED
          BY <5>2, KidsDiffer
      <4>4. c # in
        <5> SUFFICES ASSUME c = in PROVE FALSE
          OBVIOUS
        <5>1. m = y /\ e = o /\ in # Nil
          BY <1>0, <1>7, <2>4, <3>4, <4>1
        <5>2. in = kd[Other(d)][y] /\ in = kd[d][y]
          BY <5>1 DEF in, o
        <5> QED
          BY <1>b, <5>1, <5>2
      <4>5. c \in Node
        BY <1>1, <4>1
      <4>6. par2[c] = m /\ ext2[e][c] = ext[e][c] /\ ext2[Other(e)][c] = ext[Other(e)][c]
        BY <1>2, <1>9, <2>0, <4>1, <4>2, <4>3, <4>4, <4>5
      <4> HIDE DEF c
      <4> QED
        BY <3>1, <3>4, <4>1, <4>6 DEF KidOK
    <3> QED
      BY <3>3, <3>4
  <2> QED
    BY <2>1, <2>2, <2>3, <2>4
<1>13. ASSUME NEW m \in On(pos), m # rt2
       PROVE  par2[m] \in On(pos) /\ \E e \in Side : kd2[e][par2[m]] = m
  <2>0. m \in Node
    BY <1>1
  <2>1. CASE m = n
    <3>1. par2[n] = y /\ kd2[d][y] = n
      BY <1>0, <1>1, <1>2
    <3> QED
      BY <1>0, <1>2, <2>1, <3>1
  <2>2. CASE m = y
    <3>1. n # rt
      BY <1>8, <1>13, <2>2
    <3>2. PICK e \in Side : kd[e][p] = n
      BY <1>8, <3>1
    <3>3. p \in On(pos) /\ p \in Node /\ kd2[e][p] = y /\ par2[y] = p
      BY <1>1, <1>2, <1>8, <3>1, <3>2
    <3> QED
      BY <2>2, <3>3
  <2>3. CASE m = in /\ m # n /\ m # y
    <3>1. par2[m] = n /\ kd2[o][n] = in
      BY <1>0, <1>1, <1>2, <2>0, <2>3
    <3> QED
      BY <1>0, <2>3, <3>1
  <2>4. CASE m # n /\ m # y /\ m # in
    <3>1. m # rt
      BY <1>13, <1>8, <2>4
    <3>2. PICK e \in Side : kd[e][par[m]] = m /\ par[m] \in On(pos)
      BY <3>1 DEF Shape, UpOK
    <3>3. par2[m] = par[m] /\ par[m] \in Node
      BY <1>1, <1>2, <2>0, <2>4, <3>2
    <3>4. kd2[e][par[m]] = m
      <4>1. ~(par[m] = n /\ e = o)
        BY <2>4, <3>2 DEF o
      <4>2. ~(par[m] = y /\ e = d)
        BY <2>4, <3>2 DEF in
      <4>3. kd[e][par[m]] # n
        BY <2>4, <3>2
      <4> QED
        BY <1>2, <3>2, <3>3, <4>1, <4>2, <4>3
    <3> QED
      BY <3>2, <3>3, <3>4
  <2> QED
    BY <2>1, <2>2, <2>3, <2>4
<1>14. Places(q, pos) /\ LinkTypes(kd2, par2, rt2)
  <2>1. kd2 \in [Side -> [Node -> Link]]
    BY TurnFacts DEF kd2
  <2>2. par2 \in [Node -> Link]
    BY TurnFacts DEF par2
  <2>3. rt2 \in Link
    BY <1>2, ShapeTypes DEF Link
  <2>4. Places(q, pos)
    BY DEF Shape
  <2> QED
    BY <2>1, <2>2, <2>3, <2>4 DEF LinkTypes
<1>15. Shape(q, pos, ext2, kd2, par2, rt2)
  BY <1>10, <1>11, <1>12, <1>13, <1>14 DEF Shape, UpOK
<1> QED
  BY <1>15 DEF ext2, kd2, par2, p

(* Heights after a rotation: enough that they are right at the two nodes   *)
(* that turn and at one child f of y that is painted with them, and that   *)
(* the subtree is as high as it was.                                       *)
LEMMA TurnHeights ==
  ASSUME NEW q, NEW pos, NEW ext, NEW kd, NEW par, NEW rt,
         Shape(q, pos, ext, kd, par, rt),
         NEW d \in Side, NEW n \in On(pos), NEW y, y = kd[Other(d)][n], y # Nil,
         NEW f, f = Nil \/ f = kd[Other(d)][y],
         NEW col, NEW bh, NEW p, NEW sd, Heights(pos, kd, col, bh, p, sd),
         NEW col2, NEW bh2, NEW p2, NEW sd2,
         bh2 \in [Link -> Nat], bh2[Nil] = 0, bh2[y] = bh[n],
         \A m \in On(pos) : m \notin {n, y, f} =>
           /\ bh2[m] = bh[m] /\ col2[m] = col[m]
           /\ \A e \in Side : (m = p2 /\ e = sd2) <=> (m = p /\ e = sd),
         \A e \in Side : /\ HeightOK(TurnedKids(kd, par, d, n), col2, bh2, p2, sd2, n, e)
                         /\ HeightOK(TurnedKids(kd, par, d, n), col2, bh2, p2, sd2, y, e)
                         /\ f # Nil =>
                              HeightOK(TurnedKids(kd, par, d, n), col2, bh2, p2, sd2, f, e)
  PROVE  Heights(pos, TurnedKids(kd, par, d, n), col2, bh2, p2, sd2)
<1> DEFINE kd2 == TurnedKids(kd, par, d, n)
<1>0. Other(d) \in Side /\ Other(Other(d)) = d
  BY DEF Side, Other
<1>1. /\ On(pos) \subseteq Node /\ Nil \notin Node /\ Nil \notin On(pos)
      /\ kd \in [Side -> [Node -> Link]]
  BY ShapeTypes
<1>2. \A m \in Node, e \in Side :
        kd2[e][m] = IF m = n /\ e = Other(d) THEN kd[d][y]
                    ELSE IF m = y /\ e = d THEN n
                    ELSE IF m = par[n] /\ kd[e][m] = n THEN y ELSE kd[e][m]
  BY TurnFacts
<1>3. y \in On(pos) /\ par[y] = n
  BY <1>0, LinkFacts
<1>4. f # Nil => par[f] = y
  BY <1>0, <1>3, LinkFacts
<1> HIDE DEF kd2
<1>5. ASSUME NEW m \in On(pos), NEW e \in Side, m \notin {n, y, f}
      PROVE  HeightOK(kd2, col2, bh2, p2, sd2, m, e)
  <2>1. HeightOK(kd, col, bh, p, sd, m, e)
    BY DEF Heights
  <2>2. bh2[m] = bh[m] /\ col2[m] = col[m] /\ ((m = p2 /\ e = sd2) <=> (m = p /\ e = sd))
    BY <1>5
  <2>3. bh2[kd2[e][m]] = bh[kd[e][m]]
    <3>0. m \in Node /\ kd2[e][m] = IF m = par[n] /\ kd[e][m] = n THEN y ELSE kd[e][m]
      BY <1>1, <1>2, <1>5
    <3>1. CASE kd[e][m] = Nil
      <4>1. kd2[e][m] = Nil
        BY <1>1, <3>0, <3>1
      <4> QED
        BY <3>1, <4>1 DEF Heights
    <3>2. CASE kd[e][m] # Nil
      <4>1. kd[e][m] \in On(pos) /\ par[kd[e][m]] = m
        BY <3>2, LinkFacts
      <4>2. CASE kd[e][m] = n
        <5>1. m = par[n]
          BY <4>1, <4>2
        <5>2. kd2[e][m] = y
          BY <3>0, <4>2, <5>1
        <5> QED
          BY <4>2, <5>2
      <4>3. CASE kd[e][m] # n
        <5>1. kd[e][m] # y /\ kd[e][m] # f
          BY <1>3, <1>4, <1>5, <3>2, <4>1
        <5>2. kd2[e][m] = kd[e][m]
          BY <3>0, <4>3
        <5>3. bh2[kd[e][m]] = bh[kd[e][m]]
          BY <4>1, <4>3, <5>1
        <5> QED
          BY <5>2, <5>3
      <4> QED
        BY <4>2, <4>3
    <3> QED
      BY <3>1, <3>2
  <2> QED
    BY <2>1, <2>2, <2>3 DEF HeightOK
<1>6. ASSUME NEW m \in On(pos), NEW e \in Side
      PROVE  HeightOK(kd2, col2, bh2, p2, sd2, m, e)
  <2>1. CASE m = n
    BY <2>1 DEF kd2
  <2>2. CASE m = y
    BY <2>2 DEF kd2
  <2>3. CASE m = f
    <3>1. f # Nil
      BY <1>1, <2>3
    <3> QED
      BY <2>3, <3>1 DEF kd2
  <2>4. CASE m \notin {n, y, f}
    BY <1>5, <2>4
  <2> QED
    BY <2>1, <2>2, <2>3, <2>4
<1> QED
  BY <1>6 DEF Heights, kd2

-----------------------------------------------------------------------------
(* The inductive invariant of the tree.  The list q, the places pos, the   *)
(* spans ext, the heights bh and the side sd on which a child of up is     *)
(* short are what the code keeps in mind and nowhere else.                 *)

(* No red node is below a red one but where a fix-up is at work.           *)
Calm(pos) ==
  /\ Red(root) => pc \in {"insert_fixup", "remove_fixup"} /\ at = root
  /\ \A n \in On(pos) :
       Red(n) /\ Red(parent[n]) =>
         \/ pc = "insert_fixup" /\ n = at
         \/ pc = "remove_fixup" /\ (n = at \/ parent[n] = at)

(* The links of a thread outside the tree are cleared.                     *)
Loose(pos) ==
  \A n \in Node \ On(pos), d \in Side :
    \/ kid[d][n] = Nil
    \/ n = thread /\ pc \in {"remove_fixup", "clear"} /\ kid[d][n] \in On(pos)

(* The leftmost cache and the count, which is late while a fix-up runs.    *)
Cached(q) ==
  /\ leftmost = IF q = <<>> THEN Nil ELSE q[1]
  /\ count = IF pc = "insert_fixup" THEN Len(q) - 1
             ELSE IF pc \in {"remove_fixup", "clear"} THEN Len(q) + 1 ELSE Len(q)

(* t belongs between the places before a and those after b.                *)
Fits(q, t, a, b) ==
  /\ \A i \in 1 .. Len(q) : i < a => key[q[i]] <= key[t]
  /\ \A i \in 1 .. Len(q) : i > b => key[t] < key[q[i]]

(* Where rb_insert is on its way down: the thread belongs below up.        *)
InsertCursor(q, pos, ext) ==
  /\ thread \in Node /\ pos[thread] = 0
  /\ up = Nil => at = root
  /\ up # Nil => /\ up \in On(pos) /\ at = kid[Toward(thread, up)][up]
                 /\ Fits(q, thread, ext["L"][up], ext["R"][up])

(* Where cfs_remove is on its way down: a thread that is in the tree, and  *)
(* alone with its key, is below at.                                        *)
SearchCursor(pos, ext) ==
  /\ thread \in Node /\ at \in On(pos) \cup {Nil}
  /\ thread \in On(pos) /\ (\A u \in On(pos) \ {thread} : key[u] # key[thread]) =>
       at # Nil /\ ext["L"][at] <= pos[thread] /\ pos[thread] <= ext["R"][at]

(* Where remove_fixup is: at, which may be Nil, is the short child of up.  *)
RemoveCursor(pos, sd) ==
  /\ root # Nil /\ at \in On(pos) \cup {Nil} /\ sd \in Side
  /\ at = root => up = Nil
  /\ at # root => up \in On(pos) /\ kid[sd][up] = at

(* What at, up and thread mean to the operation that is under way.         *)
Cursor(q, pos, ext, sd) ==
  /\ pc = "insert" => InsertCursor(q, pos, ext)
  /\ pc = "insert_fixup" => at \in On(pos) /\ Red(at)
  /\ pc = "search" => SearchCursor(pos, ext)
  /\ pc = "remove_fixup" => RemoveCursor(pos, sd)
  /\ pc \in {"remove_fixup", "clear"} => thread \in Node /\ pos[thread] = 0

(* The node that has a debt.                                               *)
Indebted == IF pc = "remove_fixup" THEN up ELSE Nil

(* The invariant, with the values the code has nowhere as parameters.      *)
TreeIs(q, pos, ext, bh, sd) ==
  /\ TreeTypeOK
  /\ Shape(q, pos, ext, kid, parent, root)
  /\ Sorted(q, key)
  /\ Heights(pos, kid, color, bh, Indebted, sd)
  /\ Calm(pos) /\ Loose(pos) /\ Cached(q)
  /\ Cursor(q, pos, ext, sd)

(* The inductive invariant of RBTree.                                      *)
TreeInv == \E q, pos, ext, bh, sd : TreeIs(q, pos, ext, bh, sd)

(* The start of an operation, of a search and the end of one that did not  *)
(* find its thread leave the tree alone.                                   *)
LEMMA StartSteps ==
  ASSUME NEW q, NEW pos, NEW ext, NEW bh, NEW sd, TreeIs(q, pos, ext, bh, sd),
         cfs_enqueue \/ cfs_remove \/ NotFound, Linked = On(pos)
  PROVE  TreeIs(q, pos, ext, bh, sd)'
<1> USE DEF TreeIs
<1>1. /\ UNCHANGED <<root, kid, parent, leftmost, count, color>>
      /\ pc \in {"idle", "search"} /\ pc' \in {"idle", "insert", "search"}
      /\ thread' \in Link /\ at' \in Link /\ up' \in Link
  <2>1. CASE cfs_enqueue
    BY <2>1 DEF cfs_enqueue, links, TreeTypeOK, Link
  <2>2. CASE cfs_remove
    BY <2>2 DEF cfs_remove, links, TreeTypeOK, Link
  <2>3. CASE NotFound
    BY <2>3 DEF NotFound, Return, links, Link
  <2> QED
    BY <2>1, <2>2, <2>3
<1>2. TreeTypeOK'
  BY <1>1 DEF TreeTypeOK
<1>3. Shape(q, pos, ext, kid, parent, root)' /\ Sorted(q, key)'
  BY <1>1
<1>4. Heights(pos, kid, color, bh, Indebted, sd)'
  <2>1. Indebted = Nil /\ Indebted' = Nil
    BY <1>1 DEF Indebted
  <2>2. Heights(pos, kid, color, bh, Nil, sd)
    BY <2>1
  <2>3. kid' = kid /\ color' = color
    BY <1>1
  <2> QED
    BY <2>1, <2>2, <2>3
<1>5. Calm(pos)' /\ Loose(pos)' /\ Cached(q)'
  <2>1. Calm(pos)'
    BY <1>1 DEF Calm, Red
  <2>2. Loose(pos)'
    BY <1>1 DEF Loose
  <2>3. Cached(q)'
    BY <1>1 DEF Cached
  <2> QED
    BY <2>1, <2>2, <2>3
<1>6. Cursor(q, pos, ext, sd)'
  <2>0. On(pos) \subseteq Node /\ pos \in [Node -> Nat] /\ Len(q) \in Nat
    BY ShapeTypes
  <2>1. CASE cfs_enqueue
    <3>1. /\ pc' = "insert" /\ at' = root /\ up' = Nil /\ UNCHANGED <<root, kid>>
          /\ thread' \in Node \ On(pos)
      BY <2>1 DEF cfs_enqueue, links
    <3>2. InsertCursor(q, pos, ext)'
      BY <3>1 DEF InsertCursor, On
    <3> QED
      BY <3>1, <3>2 DEF Cursor
  <2>2. CASE cfs_remove
    <3>1. pc' = "search" /\ at' = root /\ thread' \in Node /\ UNCHANGED <<root, kid>>
      BY <2>2 DEF cfs_remove, links
    <3>2. root = Nil => On(pos) = {}
      BY DEF Shape, RootOK, Places
    <3>3. root # Nil => root \in On(pos) /\ ext["L"][root] = 1 /\ ext["R"][root] = Len(q)
      BY DEF Shape, RootOK
    <3>4. \A n \in On(pos) : pos[n] \in 1 .. Len(q)
      BY DEF Shape, Places
    <3>5. SearchCursor(pos, ext)'
      BY <2>0, <3>1, <3>2, <3>3, <3>4 DEF SearchCursor
    <3> QED
      BY <3>1, <3>5 DEF Cursor
  <2>3. CASE NotFound
    BY <2>3 DEF NotFound, Return, Cursor
  <2> QED
    BY <2>1, <2>2, <2>3
<1> QED
  BY <1>2, <1>3, <1>4, <1>5, <1>6

(* Only the links of the nodes in the tree matter to its shape.            *)
LEMMA SameLinks ==
  ASSUME NEW q, NEW pos, NEW ext, NEW kd, NEW par, NEW rt,
         Shape(q, pos, ext, kd, par, rt), NEW kd2, NEW par2, LinkTypes(kd2, par2, rt),
         \A n \in On(pos) : par2[n] = par[n] /\ \A d \in Side : kd2[d][n] = kd[d][n]
  PROVE  /\ Shape(q, pos, ext, kd2, par2, rt)
         /\ \A col, bh, p, sd : Heights(pos, kd, col, bh, p, sd) => Heights(pos, kd2, col, bh, p, sd)
<1>1. ASSUME NEW n \in On(pos), NEW d \in Side PROVE KidOK(pos, ext, kd2, par2, n, d)
  <2>1. KidOK(pos, ext, kd, par, n, d)
    BY DEF Shape
  <2>2. kd2[d][n] = kd[d][n]
    OBVIOUS
  <2>3. kd[d][n] \in On(pos) => par2[kd[d][n]] = par[kd[d][n]]
    OBVIOUS
  <2> QED
    BY <2>1, <2>2, <2>3 DEF KidOK
<1>2. ASSUME NEW n \in On(pos) PROVE UpOK(pos, kd2, par2, rt, n)
  <2>1. UpOK(pos, kd, par, rt, n)
    BY DEF Shape
  <2> QED
    BY <2>1 DEF UpOK
<1>3. RootOK(q, pos, ext, par2, rt)
  <2>1. RootOK(q, pos, ext, par, rt)
    BY DEF Shape
  <2> QED
    BY <2>1 DEF RootOK
<1>4. Shape(q, pos, ext, kd2, par2, rt)
  BY <1>1, <1>2, <1>3 DEF Shape
<1>5. ASSUME NEW col, NEW bh, NEW p, NEW sd, Heights(pos, kd, col, bh, p, sd)
      PROVE  Heights(pos, kd2, col, bh, p, sd)
  <2>1. ASSUME NEW n \in On(pos), NEW d \in Side PROVE HeightOK(kd2, col, bh, p, sd, n, d)
    <3>1. HeightOK(kd, col, bh, p, sd, n, d)
      BY <1>5 DEF Heights
    <3>2. kd2[d][n] = kd[d][n]
      OBVIOUS
    <3> QED
      BY <3>1, <3>2 DEF HeightOK
  <2> QED
    BY <1>5, <2>1 DEF Heights
<1> QED
  BY <1>4, <1>5

(* Painting a red node black makes up for the black node it was short of,  *)
(* and at the root it makes no difference.                                 *)
LEMMA BlackenHeights ==
  ASSUME NEW q, NEW pos, NEW ext, NEW kd, NEW par, NEW rt,
         Shape(q, pos, ext, kd, par, rt),
         NEW col \in [Node -> {"RED", "BLACK"}], NEW bh, NEW p, NEW sd \in Side,
         Heights(pos, kd, col, bh, p, sd),
         NEW x \in On(pos), col[x] = "RED",
         (p = Nil /\ x = rt) \/ (p \in On(pos) /\ kd[sd][p] = x)
  PROVE  Heights(pos, kd, [col EXCEPT ![x] = "BLACK"], [bh EXCEPT ![x] = bh[x] + 1], Nil, sd)
<1> DEFINE col2 == [col EXCEPT ![x] = "BLACK"]
           bh2 == [bh EXCEPT ![x] = bh[x] + 1]
<1>0. /\ On(pos) \subseteq Node /\ Nil \notin On(pos) /\ Nil \notin Node
      /\ kd \in [Side -> [Node -> Link]]
  BY ShapeTypes
<1>1. x \in Node /\ x \in Link /\ bh \in [Link -> Nat] /\ bh[Nil] = 0
  BY <1>0 DEF Heights, Link
<1>2. /\ bh2 \in [Link -> Nat] /\ bh2[Nil] = 0 /\ bh2[x] = bh[x] + 1
      /\ \A m \in Link : m # x => bh2[m] = bh[m]
  BY <1>0, <1>1
<1>3. col2[x] = "BLACK" /\ \A m \in Node : m # x => col2[m] = col[m]
  BY <1>1
<1> HIDE DEF col2, bh2
<1>4. ASSUME NEW m \in On(pos), NEW e \in Side PROVE HeightOK(kd, col2, bh2, Nil, sd, m, e)
  <2>0. m \in Node /\ m \in Link /\ m # Nil /\ kd[e][m] \in Link
    BY <1>0 DEF Link
  <2>1. bh[m] = bh[kd[e][m]] + (IF m = p /\ e = sd THEN 1 ELSE 0) + (IF col[m] = "RED" THEN 0 ELSE 1)
    BY DEF Heights, HeightOK
  <2>2. bh[m] \in Nat /\ bh[kd[e][m]] \in Nat /\ bh[x] \in Nat
    BY <1>1, <2>0
  <2>3. kd[e][m] = x <=> (m = p /\ e = sd)
    <3>1. kd[e][m] = x => x # rt /\ par[x] = m
      BY <1>0, LinkFacts
    <3>2. CASE p = Nil /\ x = rt
      BY <2>0, <3>1, <3>2
    <3>3. CASE p \in On(pos) /\ kd[sd][p] = x
      <4>1. par[x] = p
        BY <1>0, <3>3, LinkFacts
      <4>2. kd[Other(sd)][p] # x
        BY <1>0, <3>3, KidsDiffer
      <4>3. e = sd \/ e = Other(sd)
        BY DEF Side, Other
      <4> QED
        BY <3>1, <3>3, <4>1, <4>2, <4>3
    <3> QED
      BY <3>2, <3>3
  <2>4. CASE m = x
    <3>1. kd[e][m] # x
      <4>1. m # p
        <5>1. p \in On(pos) /\ kd[sd][p] = x => x # p
          BY <1>0, LinkFacts
        <5> QED
          BY <1>0, <2>4, <5>1
      <4> QED
        BY <2>3, <4>1
    <3>2. bh2[kd[e][m]] = bh[kd[e][m]]
      BY <1>2, <2>0, <3>1
    <3>3. bh2[m] = bh[kd[e][m]] + 1
      BY <1>2, <2>1, <2>2, <2>3, <2>4, <3>1
    <3> QED
      BY <1>3, <2>0, <2>2, <2>4, <3>2, <3>3 DEF HeightOK
  <2>5. CASE m # x
    <3>1. bh2[m] = bh[m] /\ col2[m] = col[m]
      BY <1>2, <1>3, <2>0, <2>5
    <3>2. bh2[kd[e][m]] = bh[kd[e][m]] + (IF m = p /\ e = sd THEN 1 ELSE 0)
      BY <1>2, <2>0, <2>2, <2>3
    <3> QED
      BY <2>0, <2>1, <2>2, <3>1, <3>2 DEF HeightOK
  <2> QED
    BY <2>4, <2>5
<1> QED
  BY <1>2, <1>4 DEF Heights, col2, bh2

(* Both descents follow the keys.                                          *)
LEMMA DescentSteps ==
  ASSUME NEW q, NEW pos, NEW ext, NEW bh, NEW sd, TreeIs(q, pos, ext, bh, sd),
         Descend \/ Search
  PROVE  TreeIs(q, pos, ext, bh, sd)'
<1> USE DEF TreeIs
<1>0. /\ On(pos) \subseteq Node /\ pos \in [Node -> Nat] /\ Len(q) \in Nat /\ q \in Seq(Node)
      /\ Nil \notin On(pos) /\ Nil \notin Node /\ kid \in [Side -> [Node -> Link]]
      /\ ext \in [Side -> [Node -> Int]] /\ "L" \in Side /\ "R" \in Side
  BY ShapeTypes
<1>a. key \in [Node -> Nat]
  BY RBTreeAssumption
<1>1. /\ UNCHANGED <<root, kid, parent, leftmost, count, color, pc, thread>>
      /\ pc \in {"insert", "search"} /\ at # Nil /\ thread \in Node
      /\ at' = kid[Toward(thread, at)][at]
      /\ up' = IF pc = "insert" THEN at ELSE up
  BY DEF Descend, Search, links, Cursor, InsertCursor, SearchCursor
<1>2. at \in On(pos)
  <2>1. CASE pc = "search"
    BY <1>1, <2>1 DEF Cursor, SearchCursor
  <2>2. CASE pc = "insert"
    <3>0. InsertCursor(q, pos, ext)
      BY <2>2 DEF Cursor
    <3>1. CASE up = Nil
      BY <1>1, <3>0, <3>1 DEF InsertCursor, Shape, RootOK
    <3>2. CASE up # Nil
      <4>1. up \in On(pos) /\ at = kid[Toward(thread, up)][up] /\ Toward(thread, up) \in Side
        BY <3>0, <3>2 DEF InsertCursor, Toward, Side
      <4> QED
        BY <1>1, <4>1, LinkFacts
    <3> QED
      BY <3>1, <3>2
  <2> QED
    BY <1>1, <2>1, <2>2
<1>3. TreeTypeOK'
  <2>1. Toward(thread, at) \in Side /\ at \in Node
    BY <1>0, <1>2 DEF Toward, Side
  <2>2. at' \in Link /\ up' \in Link
    BY <1>0, <1>1, <2>1 DEF TreeTypeOK
  <2> QED
    BY <1>1, <2>2 DEF TreeTypeOK
<1>4. Shape(q, pos, ext, kid, parent, root)' /\ Sorted(q, key)'
  BY <1>1
<1>5. Heights(pos, kid, color, bh, Indebted, sd)'
  <2>1. Indebted = Nil /\ Indebted' = Nil
    BY <1>1 DEF Indebted
  <2>2. Heights(pos, kid, color, bh, Nil, sd)
    BY <2>1
  <2>3. kid' = kid /\ color' = color
    BY <1>1
  <2> QED
    BY <2>1, <2>2, <2>3
<1>6. Calm(pos)' /\ Loose(pos)' /\ Cached(q)'
  <2>1. Calm(pos)'
    BY <1>1 DEF Calm, Red
  <2>2. Loose(pos)'
    BY <1>1 DEF Loose
  <2>3. Cached(q)'
    BY <1>1 DEF Cached
  <2> QED
    BY <2>1, <2>2, <2>3
<1>7. /\ \A i, j \in 1 .. Len(q) : i <= j => key[q[i]] <= key[q[j]]
      /\ \A i \in 1 .. Len(q) : q[i] \in Node /\ key[q[i]] \in Nat
      /\ \A n \in On(pos) : pos[n] \in 1 .. Len(q) /\ q[pos[n]] = n /\ key[n] \in Nat
  <2>1. \A i \in 1 .. Len(q) : q[i] \in Node /\ key[q[i]] \in Nat
    BY <1>0, <1>a
  <2>2. ASSUME NEW i \in 1 .. Len(q), NEW j \in 1 .. Len(q), i <= j
        PROVE  key[q[i]] <= key[q[j]]
    <3>1. i = j \/ i < j
      BY <1>0, <2>2
    <3>2. i < j => key[q[i]] <= key[q[j]]
      BY DEF Sorted
    <3>3. key[q[i]] \in Nat
      BY <2>1
    <3>4. key[q[i]] <= key[q[i]]
      BY <3>3
    <3> QED
      BY <3>1, <3>2, <3>4
  <2>3. \A n \in On(pos) : pos[n] \in 1 .. Len(q) /\ q[pos[n]] = n
    BY DEF Shape, Places
  <2>4. \A n \in On(pos) : key[n] \in Nat
    BY <1>0, <1>a
  <2> QED
    BY <2>1, <2>2, <2>3, <2>4
<1>8. key[thread] \in Nat
  BY <1>1, <1>a
<1>9. CASE pc = "insert"
  <2>0. InsertCursor(q, pos, ext)
    BY <1>9 DEF Cursor
  <2>1. Fits(q, thread, ext["L"][at], ext["R"][at])
    <3>1. CASE up = Nil
      <4>1. at = root
        BY <2>0, <3>1 DEF InsertCursor
      <4>2. ext["L"][at] = 1 /\ ext["R"][at] = Len(q)
        BY <1>1, <4>1 DEF Shape, RootOK
      <4> QED
        BY <1>0, <4>2 DEF Fits
    <3>2. CASE up # Nil
      <4>0. /\ up \in On(pos) /\ at = kid[Toward(thread, up)][up]
            /\ Fits(q, thread, ext["L"][up], ext["R"][up])
        BY <2>0, <3>2 DEF InsertCursor
      <4>1. pos[up] \in 1 .. Len(q) /\ key[q[pos[up]]] = key[up] /\ key[up] \in Nat
        BY <1>7, <4>0
      <4>2. CASE key[thread] < key[up]
        <5>1. at = kid["L"][up]
          BY <4>0, <4>2 DEF Toward
        <5>2. ext["L"][at] = ext["L"][up] /\ ext["R"][at] = pos[up] - 1
          BY <1>1, <4>0, <5>1, KidSpans
        <5>3. ASSUME NEW i \in 1 .. Len(q), i > pos[up] - 1 PROVE key[thread] < key[q[i]]
          <6>1. key[q[pos[up]]] <= key[q[i]]
            BY <1>7, <4>1, <5>3
          <6> QED
            BY <1>7, <1>8, <4>1, <4>2, <6>1
        <5> QED
          BY <4>0, <5>2, <5>3 DEF Fits
      <4>3. CASE ~(key[thread] < key[up])
        <5>1. at = kid["R"][up]
          BY <4>0, <4>3 DEF Toward
        <5>2. ext["R"][at] = ext["R"][up] /\ ext["L"][at] = pos[up] + 1
          BY <1>1, <4>0, <5>1, KidSpans
        <5>3. ASSUME NEW i \in 1 .. Len(q), i < pos[up] + 1 PROVE key[q[i]] <= key[thread]
          <6>1. key[q[i]] <= key[q[pos[up]]]
            BY <1>7, <4>1, <5>3
          <6> QED
            BY <1>7, <1>8, <4>1, <4>3, <6>1
        <5> QED
          BY <4>0, <5>2, <5>3 DEF Fits
      <4> QED
        BY <4>2, <4>3
    <3> QED
      BY <3>1, <3>2
  <2>2. InsertCursor(q, pos, ext)'
    <3>1. up' = at /\ at' = kid'[Toward(thread, at)][at] /\ thread' = thread
      BY <1>1, <1>9
    <3>3. thread \in Node /\ pos[thread] = 0
      BY <2>0 DEF InsertCursor
    <3> QED
      BY <1>1, <1>2, <2>1, <3>1, <3>3 DEF InsertCursor, Toward, Fits
  <2>3. Cursor(q, pos, ext, sd)'
    BY <1>1, <1>9, <2>2 DEF Cursor
  <2> QED
    BY <1>3, <1>4, <1>5, <1>6, <2>3
<1>10. CASE pc = "search"
  <2>0. SearchCursor(pos, ext) /\ at # thread
    BY <1>10 DEF Cursor, Search, Descend
  <2> DEFINE c == kid[Toward(thread, at)][at]
  <2>1. c \in On(pos) \cup {Nil}
    <3>1. Toward(thread, at) \in Side
      BY DEF Toward, Side
    <3> QED
      BY <1>2, <3>1, LinkFacts
  <2>2. ASSUME thread \in On(pos), \A u \in On(pos) \ {thread} : key[u] # key[thread]
        PROVE  c # Nil /\ ext["L"][c] <= pos[thread] /\ pos[thread] <= ext["R"][c]
    <3>1. ext["L"][at] <= pos[thread] /\ pos[thread] <= ext["R"][at]
      BY <2>0, <2>2 DEF SearchCursor
    <3>2. key[at] # key[thread] /\ key[at] \in Nat
      BY <1>2, <1>7, <2>0, <2>2
    <3>3. /\ pos[at] \in 1 .. Len(q) /\ q[pos[at]] = at
          /\ pos[thread] \in 1 .. Len(q) /\ q[pos[thread]] = thread
      BY <1>2, <1>7, <2>2
    <3>4. /\ ext["L"][at] \in 1 .. pos[at] /\ ext["R"][at] \in pos[at] .. Len(q)
      BY <1>2, KidSpans
    <3>5. CASE key[thread] < key[at]
      <4>1. pos[thread] < pos[at]
        <5>1. pos[at] <= pos[thread] => key[at] <= key[thread]
          BY <1>7, <3>3
        <5> QED
          BY <1>8, <3>2, <3>3, <3>5, <5>1
      <4>2. c = kid["L"][at]
        BY <3>5 DEF Toward
      <4>3. c # Nil
        <5>1. kid["L"][at] = Nil => ext["L"][at] = pos[at]
          BY <1>2, KidSpans
        <5> QED
          BY <3>1, <3>3, <4>1, <4>2, <5>1
      <4>4. ext["L"][c] = ext["L"][at] /\ ext["R"][c] = pos[at] - 1
        BY <1>2, <4>2, <4>3, KidSpans
      <4> QED
        BY <3>1, <3>3, <4>1, <4>3, <4>4
    <3>6. CASE ~(key[thread] < key[at])
      <4>1. pos[at] < pos[thread]
        <5>1. pos[thread] <= pos[at] => key[thread] <= key[at]
          BY <1>7, <3>3
        <5> QED
          BY <1>8, <3>2, <3>3, <3>6, <5>1
      <4>2. c = kid["R"][at]
        BY <3>6 DEF Toward
      <4>3. c # Nil
        <5>1. kid["R"][at] = Nil => ext["R"][at] = pos[at]
          BY <1>2, KidSpans
        <5> QED
          BY <3>1, <3>3, <4>1, <4>2, <5>1
      <4>4. ext["R"][c] = ext["R"][at] /\ ext["L"][c] = pos[at] + 1
        BY <1>2, <4>2, <4>3, KidSpans
      <4> QED
        BY <3>1, <3>3, <4>1, <4>3, <4>4
    <3> QED
      BY <3>5, <3>6
  <2>3. SearchCursor(pos, ext)'
    <3>1. at' = c /\ thread' = thread
      BY <1>1
    <3> HIDE DEF c
    <3> QED
      BY <1>1, <2>1, <2>2, <3>1 DEF SearchCursor
  <2>4. Cursor(q, pos, ext, sd)'
    BY <1>1, <1>10, <2>3 DEF Cursor
  <2> QED
    BY <1>3, <1>4, <1>5, <1>6, <2>4
<1> QED
  BY <1>1, <1>9, <1>10

(* In the loop of rb_insert_fixup the father and the grandfather are in    *)
(* the tree, and the grandfather is black.                                 *)
LEMMA InsertFacts ==
  ASSUME NEW q, NEW pos, NEW ext, NEW bh, NEW sd, TreeIs(q, pos, ext, bh, sd),
         pc = "insert_fixup", Red(Father)
  PROVE  /\ at \in On(pos) /\ Red(at) /\ at # root /\ Father \in On(pos) /\ Father # at
         /\ Father # root /\ Grand \in On(pos) /\ Grand # Father /\ ~Red(Grand)
         /\ FatherSide \in Side /\ Other(FatherSide) \in Side /\ Other(Other(FatherSide)) = FatherSide
         /\ kid[FatherSide][Grand] = Father /\ Uncle # Father
         /\ \E e \in Side : kid[e][Father] = at /\ kid[Other(e)][Father] # at
         /\ \A n \in On(pos) : Red(n) /\ Red(parent[n]) => n = at
         /\ Heights(pos, kid, color, bh, Nil, sd)
<1>0. Shape(q, pos, ext, kid, parent, root) /\ Calm(pos)
  BY DEF TreeIs
<1>1. at \in On(pos) /\ Red(at)
  BY DEF TreeIs, Cursor
<1>2. Father # Nil
  BY DEF Red
<1>3. /\ at # root /\ Father \in On(pos) /\ Father # at
      /\ \E e \in Side : kid[e][Father] = at /\ kid[Other(e)][Father] # at
  BY <1>0, <1>1, <1>2, UpFacts DEF Father
<1>4. Father # root
  BY <1>0, <1>3 DEF Calm
<1>5. /\ Grand \in On(pos) /\ Grand # Father
      /\ \E e \in Side : kid[e][Grand] = Father /\ kid[Other(e)][Grand] # Father
  BY <1>0, <1>3, <1>4, UpFacts DEF Grand
<1>6. \A n \in On(pos) : Red(n) /\ Red(parent[n]) => n = at
  BY <1>0 DEF Calm
<1>7. ~Red(Grand)
  BY <1>3, <1>6 DEF Grand
<1>8. PICK e \in Side : kid[e][Grand] = Father /\ kid[Other(e)][Grand] # Father
  BY <1>5
<1>9. FatherSide = e
  BY <1>8 DEF FatherSide, Side, Other
<1>10. Other(e) \in Side /\ Other(Other(e)) = e
  BY DEF Side, Other
<1>11. Uncle = kid[Other(e)][Grand]
  BY <1>9 DEF Uncle
<1>12. Heights(pos, kid, color, bh, Nil, sd)
  BY DEF TreeIs, Indebted
<1> QED
  BY <1>1, <1>3, <1>4, <1>5, <1>6, <1>7, <1>8, <1>9, <1>10, <1>11, <1>12

(* In the loop of rb_remove_fixup the sibling exists and is higher by the  *)
(* black node that at is short of.                                         *)
LEMMA ShortFacts ==
  ASSUME NEW q, NEW pos, NEW ext, NEW bh, NEW sd, TreeIs(q, pos, ext, bh, sd), Short
  PROVE  /\ root # Nil /\ at # root /\ at \in On(pos) \cup {Nil} /\ ~Red(at)
         /\ up \in On(pos) /\ sd \in Side /\ Other(sd) \in Side /\ Other(Other(sd)) = sd
         /\ sd # Other(sd)
         /\ kid[sd][up] = at /\ ShortSide = sd /\ Sibling = kid[Other(sd)][up]
         /\ Sibling # Nil /\ Sibling \in On(pos) /\ Sibling # at /\ parent[Sibling] = up
         /\ Sibling # up /\ at # up
         /\ bh[at] \in Nat /\ bh[Sibling] = bh[at] + 1
         /\ bh[up] = bh[Sibling] + (IF color[up] = "RED" THEN 0 ELSE 1)
         /\ \A n \in On(pos) : ~(Red(n) /\ Red(parent[n]))
         /\ ~Red(root)
         /\ Heights(pos, kid, color, bh, up, sd)
<1>0. Shape(q, pos, ext, kid, parent, root) /\ Calm(pos) /\ RemoveCursor(pos, sd)
  BY DEF TreeIs, Cursor, Short
<1>1. /\ root # Nil /\ at # root /\ at \in On(pos) \cup {Nil} /\ ~Red(at)
      /\ up \in On(pos) /\ sd \in Side /\ kid[sd][up] = at
  BY <1>0 DEF RemoveCursor, Short
<1>2. Other(sd) \in Side /\ Other(Other(sd)) = sd /\ sd # Other(sd)
  BY <1>1 DEF Side, Other
<1>3. /\ On(pos) \subseteq Node /\ Nil \notin On(pos) /\ kid \in [Side -> [Node -> Link]]
  BY <1>0, ShapeTypes
<1>4. Heights(pos, kid, color, bh, up, sd)
  BY DEF TreeIs, Indebted, Short
<1>5. up \in Node /\ at \in Link /\ kid[Other(sd)][up] \in Link
  BY <1>1, <1>2, <1>3 DEF Link
<1>6. /\ bh[up] \in Nat /\ bh[at] \in Nat /\ bh[kid[Other(sd)][up]] \in Nat /\ bh[Nil] = 0
  BY <1>4, <1>5 DEF Heights, Link
<1>7. /\ bh[up] = bh[at] + 1 + (IF color[up] = "RED" THEN 0 ELSE 1)
      /\ bh[up] = bh[kid[Other(sd)][up]] + 0 + (IF color[up] = "RED" THEN 0 ELSE 1)
  <2>1. HeightOK(kid, color, bh, up, sd, up, sd) /\ HeightOK(kid, color, bh, up, sd, up, Other(sd))
    BY <1>1, <1>2, <1>4 DEF Heights
  <2> QED
    BY <1>1, <1>2, <2>1 DEF HeightOK
<1>8. /\ bh[kid[Other(sd)][up]] = bh[at] + 1
      /\ bh[up] = bh[kid[Other(sd)][up]] + (IF color[up] = "RED" THEN 0 ELSE 1)
  BY <1>6, <1>7
<1>9. kid[Other(sd)][up] # Nil
  BY <1>6, <1>8
<1>10. kid[Other(sd)][up] # at
  BY <1>6, <1>8
<1>11. ShortSide = sd
  BY <1>1, <1>10 DEF ShortSide, Side, Other
<1>12. Sibling = kid[Other(sd)][up]
  BY <1>11 DEF Sibling
<1>13. Sibling \in On(pos) /\ parent[Sibling] = up /\ Sibling # up
  BY <1>0, <1>1, <1>2, <1>9, <1>12, LinkFacts
<1>14. at # up
  BY <1>0, <1>1, <1>3, LinkFacts
<1>15. \A n \in On(pos) : ~(Red(n) /\ Red(parent[n]))
  BY <1>0, <1>1 DEF Calm, Short
<1>16. ~Red(root)
  BY <1>0, <1>1 DEF Calm
<1> QED
  BY <1>1, <1>2, <1>4, <1>6, <1>8, <1>9, <1>10, <1>11, <1>12, <1>13, <1>14, <1>15, <1>16

(* What painting in a fix-up leaves alone.                                 *)
LEMMA PaintFrame ==
  ASSUME NEW q, NEW pos, NEW ext, NEW bh, NEW sd, TreeIs(q, pos, ext, bh, sd),
         pc \in {"insert_fixup", "remove_fixup"}, UNCHANGED <<links, leftmost, count, pc, thread>>,
         color' \in [Node -> {"RED", "BLACK"}], at' \in Link, up' \in Link
  PROVE  /\ TreeTypeOK' /\ Shape(q, pos, ext, kid, parent, root)' /\ Sorted(q, key)'
         /\ Loose(pos)' /\ Cached(q)'
<1> USE DEF TreeIs
<1>1. UNCHANGED <<root, kid, parent, leftmost, count, pc, thread>>
  BY DEF links
<1>2. TreeTypeOK'
  BY <1>1 DEF TreeTypeOK
<1>3. Shape(q, pos, ext, kid, parent, root)' /\ Sorted(q, key)'
  BY <1>1
<1>4. Loose(pos)'
  BY <1>1 DEF Loose
<1>5. Cached(q)'
  BY <1>1 DEF Cached
<1> QED
  BY <1>2, <1>3, <1>4, <1>5

(* Climb moves the red pair two levels up.                                 *)
LEMMA ClimbStep ==
  ASSUME NEW q, NEW pos, NEW ext, NEW bh, NEW sd, TreeIs(q, pos, ext, bh, sd), Climb
  PROVE  \E bh2 : TreeIs(q, pos, ext, bh2, sd)'
<1>a. PICK p, g, u, d : p = Father /\ g = Grand /\ u = Uncle /\ d = FatherSide
  OBVIOUS
<1> DEFINE bh2 == [m \in Link |-> IF m = p \/ m = u THEN bh[m] + 1 ELSE bh[m]]
<1>0. /\ pc = "insert_fixup" /\ Red(p) /\ Red(u) /\ at' = g
      /\ color' = [color EXCEPT ![p] = "BLACK", ![u] = "BLACK", ![g] = "RED"]
      /\ UNCHANGED <<root, kid, parent, leftmost, count, pc, thread, up>>
  BY <1>a DEF Climb, links
<1>1. /\ at \in On(pos) /\ at # root /\ p \in On(pos) /\ p # at /\ p # root
      /\ g \in On(pos) /\ g # p /\ ~Red(g)
      /\ d \in Side /\ Other(d) \in Side
      /\ kid[d][g] = p /\ u # p
      /\ \A n \in On(pos) : Red(n) /\ Red(parent[n]) => n = at
      /\ Heights(pos, kid, color, bh, Nil, sd)
  BY <1>0, <1>a, InsertFacts
<1>2. /\ u = kid[Other(d)][g] /\ p = parent[at] /\ g = parent[p] /\ u # Nil
  BY <1>0, <1>a DEF Uncle, Grand, Father, Red
<1>3. Shape(q, pos, ext, kid, parent, root) /\ TreeTypeOK
  BY DEF TreeIs
<1>4. /\ On(pos) \subseteq Node /\ Nil \notin On(pos) /\ Nil \notin Node
      /\ kid \in [Side -> [Node -> Link]] /\ color \in [Node -> {"RED", "BLACK"}]
  BY <1>3, ShapeTypes DEF TreeTypeOK
<1>5. u \in On(pos) /\ parent[u] = g /\ u # g /\ u # root
  BY <1>1, <1>2, <1>3, LinkFacts
<1>6. p \in Node /\ g \in Node /\ u \in Node /\ p \in Link /\ u \in Link /\ g \in Link
  BY <1>1, <1>4, <1>5 DEF Link
<1>7. \A m \in Node : color'[m] = IF m = g THEN "RED" ELSE IF m = p \/ m = u THEN "BLACK" ELSE color[m]
  BY <1>0, <1>1, <1>4, <1>5, <1>6
<1>8. color' \in [Node -> {"RED", "BLACK"}] /\ up' \in Link /\ at' \in Link
  BY <1>0, <1>3, <1>4, <1>6 DEF TreeTypeOK
<1>9. /\ TreeTypeOK' /\ Shape(q, pos, ext, kid, parent, root)' /\ Sorted(q, key)'
      /\ Loose(pos)' /\ Cached(q)'
  BY <1>0, <1>8, PaintFrame DEF links
<1>10. bh \in [Link -> Nat] /\ bh[Nil] = 0
  BY <1>1 DEF Heights
<1>11. /\ bh2 \in [Link -> Nat] /\ bh2[Nil] = 0
       /\ \A m \in Link : bh2[m] = IF m = p \/ m = u THEN bh[m] + 1 ELSE bh[m]
  <2>1. \A m \in Link : bh2[m] = IF m = p \/ m = u THEN bh[m] + 1 ELSE bh[m]
    OBVIOUS
  <2>2. \A m \in Link : (IF m = p \/ m = u THEN bh[m] + 1 ELSE bh[m]) \in Nat
    BY <1>10
  <2>3. bh2 \in [Link -> Nat]
    BY <2>2
  <2>4. Nil \in Link /\ Nil # p /\ Nil # u
    BY <1>4, <1>6 DEF Link
  <2> QED
    BY <1>10, <2>1, <2>3, <2>4
<1> HIDE DEF bh2
<1>12. Heights(pos, kid, color', bh2, Nil, sd)
  <2>1. ASSUME NEW m \in On(pos), NEW e \in Side
        PROVE  HeightOK(kid, color', bh2, Nil, sd, m, e)
    <3>0. m \in Node /\ m \in Link /\ m # Nil /\ kid[e][m] \in Link
      BY <1>4 DEF Link
    <3>1. bh[m] = bh[kid[e][m]] + (IF color[m] = "RED" THEN 0 ELSE 1)
      <4>1. HeightOK(kid, color, bh, Nil, sd, m, e)
        BY <1>1 DEF Heights
      <4>2. bh[kid[e][m]] \in Nat
        BY <1>10, <3>0
      <4> QED
        BY <3>0, <4>1, <4>2 DEF HeightOK
    <3>2. bh[m] \in Nat /\ bh[kid[e][m]] \in Nat
      BY <1>10, <3>0
    <3>3. kid[e][m] = p \/ kid[e][m] = u <=> m = g
      <4>1. kid[e][m] # Nil => parent[kid[e][m]] = m
        BY <1>3, LinkFacts
      <4>2. e = d \/ e = Other(d)
        BY <1>1 DEF Side, Other
      <4>3. m = g => kid[e][m] = p \/ kid[e][m] = u
        BY <1>1, <1>2, <4>2
      <4>4. kid[e][m] = p \/ kid[e][m] = u => m = g
        BY <1>1, <1>2, <1>4, <1>5, <4>1
      <4> QED
        BY <4>3, <4>4
    <3>4. CASE m = g
      <4>1. color[m] = "BLACK" /\ color'[m] = "RED"
        BY <1>1, <1>4, <1>7, <3>0, <3>4 DEF Red
      <4>2. bh2[m] = bh[m] /\ bh2[kid[e][m]] = bh[kid[e][m]] + 1
        BY <1>1, <1>5, <1>11, <3>0, <3>3, <3>4
      <4> QED
        BY <3>0, <3>1, <3>2, <4>1, <4>2 DEF HeightOK
    <3>5. CASE m # g /\ (m = p \/ m = u)
      <4>1. color[m] = "RED" /\ color'[m] = "BLACK"
        BY <1>0, <1>7, <3>0, <3>5 DEF Red
      <4>2. bh2[m] = bh[m] + 1 /\ bh2[kid[e][m]] = bh[kid[e][m]]
        BY <1>11, <3>0, <3>3, <3>5
      <4> QED
        BY <3>0, <3>1, <3>2, <4>1, <4>2 DEF HeightOK
    <3>6. CASE m # g /\ m # p /\ m # u
      <4>1. color'[m] = color[m]
        BY <1>7, <3>0, <3>6
      <4>2. bh2[m] = bh[m] /\ bh2[kid[e][m]] = bh[kid[e][m]]
        BY <1>11, <3>0, <3>3, <3>6
      <4> QED
        BY <3>0, <3>1, <3>2, <4>1, <4>2 DEF HeightOK
    <3> QED
      BY <3>4, <3>5, <3>6
  <2> QED
    BY <1>11, <2>1 DEF Heights
<1>13. Calm(pos)'
  <2>1. ASSUME NEW n \in On(pos), Red(n)', (Red(parent[n]))' PROVE n = g
    <3> SUFFICES ASSUME n # g PROVE FALSE
      OBVIOUS
    <3>0. n \in Node /\ n # Nil
      BY <1>4
    <3>1. n # p /\ n # u /\ Red(n)
      BY <1>7, <2>1, <3>0 DEF Red
    <3>2. parent[n] # Nil /\ color'[parent[n]] = "RED"
      BY <1>0, <2>1 DEF Red
    <3>3. n # root /\ parent[n] \in On(pos) /\ \E e \in Side : kid[e][parent[n]] = n
      BY <1>3, <3>2, UpFacts
    <3>4. parent[n] # g
      <4>1. \A e \in Side : e = d \/ e = Other(d)
        BY <1>1 DEF Side, Other
      <4> QED
        BY <1>1, <1>2, <3>1, <3>3, <4>1
    <3>5. parent[n] # p /\ Red(parent[n])
      BY <1>4, <1>7, <3>2, <3>3, <3>4 DEF Red
    <3> QED
      BY <1>1, <1>2, <3>1, <3>5
  <2>2. Red(root)' => root = g
    <3> SUFFICES ASSUME Red(root)', root # g PROVE FALSE
      BY <1>0
    <3>1. root # Nil /\ root \in Node /\ color'[root] = "RED"
      BY <1>0, <1>3 DEF Red, TreeTypeOK, Link
    <3>2. Red(root)
      BY <1>1, <1>5, <1>7, <3>1 DEF Red
    <3> QED
      BY <1>1, <3>2 DEF TreeIs, Calm
  <2> QED
    BY <1>0, <2>1, <2>2 DEF Calm
<1>14. Cursor(q, pos, ext, sd)'
  <2>1. Red(g)'
    BY <1>4, <1>6, <1>7 DEF Red
  <2> QED
    BY <1>0, <1>1, <2>1 DEF Cursor, Red
<1>15. Heights(pos, kid, color, bh2, Indebted, sd)'
  <2>1. Indebted' = Nil /\ kid' = kid
    BY <1>0 DEF Indebted
  <2> QED
    BY <1>12, <2>1
<1>16. TreeIs(q, pos, ext, bh2, sd)'
  BY <1>9, <1>13, <1>14, <1>15 DEF TreeIs
<1> QED
  BY <1>16

(* The end of rb_insert: a red root is painted black.                      *)
LEMMA InsertedStep ==
  ASSUME NEW q, NEW pos, NEW ext, NEW bh, NEW sd, sd \in Side, TreeIs(q, pos, ext, bh, sd), Inserted
  PROVE  \E bh2 : TreeIs(q, pos, ext, bh2, sd)'
<1>0. /\ pc = "insert_fixup" /\ ~Red(Father) /\ color' = [color EXCEPT ![root] = "BLACK"]
      /\ count' = count + 1 /\ pc' = "idle" /\ thread' = Nil /\ at' = Nil /\ up' = Nil
      /\ UNCHANGED <<root, kid, parent, leftmost>>
  BY DEF Inserted, links, Return
<1>1. /\ Shape(q, pos, ext, kid, parent, root) /\ TreeTypeOK /\ Sorted(q, key)
      /\ Calm(pos) /\ Loose(pos) /\ Cached(q) /\ at \in On(pos)
  BY <1>0 DEF TreeIs, Cursor
<1>2. /\ On(pos) \subseteq Node /\ Nil \notin On(pos) /\ Nil \notin Node /\ Len(q) \in Nat
      /\ color \in [Node -> {"RED", "BLACK"}]
  BY <1>1, ShapeTypes DEF TreeTypeOK
<1>3. root \in On(pos)
  <2>1. \A n \in On(pos) : pos[n] \in 1 .. Len(q)
    BY <1>1 DEF Shape, Places
  <2>2. root # Nil
    BY <1>1, <2>1 DEF Shape, RootOK
  <2> QED
    BY <1>1, <2>2 DEF Shape, RootOK
<1>4. /\ color' \in [Node -> {"RED", "BLACK"}] /\ color'[root] = "BLACK"
      /\ \A m \in Node : m # root => color'[m] = color[m]
  BY <1>0, <1>2, <1>3
<1>5. Heights(pos, kid, color, bh, Nil, sd)
  BY <1>0 DEF TreeIs, Indebted
<1>6. \E bh2 : Heights(pos, kid, color', bh2, Nil, sd)
  <2>1. CASE color[root] = "RED"
    <3>1. Heights(pos, kid, [color EXCEPT ![root] = "BLACK"], [bh EXCEPT ![root] = bh[root] + 1], Nil, sd)
      BY <1>1, <1>2, <1>3, <1>5, <2>1, BlackenHeights
    <3> QED
      BY <1>0, <3>1
  <2>2. CASE color[root] # "RED"
    <3>1. color' = color
      BY <1>0, <1>2, <1>3, <2>2
    <3> QED
      BY <1>5, <3>1
  <2> QED
    BY <2>1, <2>2
<1>7. PICK bh2 : Heights(pos, kid, color', bh2, Nil, sd)
  BY <1>6
<1>8. Heights(pos, kid, color, bh2, Indebted, sd)'
  <2>1. Indebted' = Nil /\ kid' = kid
    BY <1>0 DEF Indebted
  <2> QED
    BY <1>7, <2>1
<1>9. Calm(pos)'
  <2>1. ~Red(root)'
    BY <1>0, <1>4 DEF Red
  <2>2. ASSUME NEW n \in On(pos), Red(n)', (Red(parent[n]))' PROVE FALSE
    <3>1. n \in Node /\ parent[n] \in Link /\ parent' = parent
      BY <1>0, <1>1, <1>2 DEF TreeTypeOK
    <3>2. Red(n)
      BY <1>4, <2>2, <3>1 DEF Red
    <3>3. Red(parent[n])
      BY <1>4, <2>2, <3>1 DEF Red, Link
    <3>4. n = at
      BY <1>0, <1>1, <3>2, <3>3 DEF Calm
    <3> QED
      BY <1>0, <3>3, <3>4 DEF Father
  <2> QED
    BY <1>0, <2>1, <2>2 DEF Calm
<1>10. TreeTypeOK' /\ Loose(pos)' /\ Cached(q)' /\ Cursor(q, pos, ext, sd)'
  <2>1. count + 1 = Len(q) /\ count + 1 \in Nat
    BY <1>0, <1>1, <1>2 DEF Cached
  <2>2. Cached(q)'
    BY <1>0, <1>1, <2>1 DEF Cached
  <2>3. TreeTypeOK'
    BY <1>0, <1>1, <1>4, <2>1 DEF TreeTypeOK, Link
  <2>4. Loose(pos)'
    BY <1>0, <1>1 DEF Loose
  <2>5. Cursor(q, pos, ext, sd)'
    BY <1>0 DEF Cursor
  <2> QED
    BY <2>2, <2>3, <2>4, <2>5
<1>11. Shape(q, pos, ext, kid, parent, root)' /\ Sorted(q, key)'
  BY <1>0, <1>1
<1>12. TreeIs(q, pos, ext, bh2, sd)'
  BY <1>8, <1>9, <1>10, <1>11 DEF TreeIs
<1> QED
  BY <1>12

(* The end of rb_remove_fixup: at is painted black, which pays its debt.   *)
LEMMA RepairedStep ==
  ASSUME NEW q, NEW pos, NEW ext, NEW bh, NEW sd, TreeIs(q, pos, ext, bh, sd), Repaired
  PROVE  \E bh2 : TreeIs(q, pos, ext, bh2, sd)'
<1>0. /\ pc = "remove_fixup" /\ (at = root \/ Red(at)) /\ color' = Paint(color, at, "BLACK")
      /\ pc' = "clear" /\ UNCHANGED <<root, kid, parent, leftmost, count, thread, at, up>>
  BY DEF Repaired, links
<1>1. /\ Shape(q, pos, ext, kid, parent, root) /\ TreeTypeOK /\ Sorted(q, key)
      /\ Calm(pos) /\ Loose(pos) /\ Cached(q) /\ RemoveCursor(pos, sd)
      /\ thread \in Node /\ pos[thread] = 0
  BY <1>0 DEF TreeIs, Cursor
<1>2. /\ On(pos) \subseteq Node /\ Nil \notin On(pos) /\ Nil \notin Node /\ Len(q) \in Nat
      /\ color \in [Node -> {"RED", "BLACK"}]
  BY <1>1, ShapeTypes DEF TreeTypeOK
<1>3. at \in On(pos) /\ sd \in Side
  BY <1>0, <1>1 DEF RemoveCursor, Red
<1>4. color' = [color EXCEPT ![at] = "BLACK"]
  BY <1>0, <1>2, <1>3 DEF Paint
<1>5. /\ color' \in [Node -> {"RED", "BLACK"}] /\ color'[at] = "BLACK"
      /\ \A m \in Node : m # at => color'[m] = color[m]
  BY <1>2, <1>3, <1>4
<1>6. Heights(pos, kid, color, bh, up, sd)
  BY <1>0 DEF TreeIs, Indebted
<1>7. (up = Nil /\ at = root) \/ (up \in On(pos) /\ kid[sd][up] = at)
  BY <1>1 DEF RemoveCursor
<1>8. \E bh2 : Heights(pos, kid, color', bh2, Nil, sd)
  <2>1. CASE color[at] = "RED"
    <3>1. Heights(pos, kid, [color EXCEPT ![at] = "BLACK"], [bh EXCEPT ![at] = bh[at] + 1], Nil, sd)
      BY <1>1, <1>2, <1>3, <1>6, <1>7, <2>1, BlackenHeights
    <3> QED
      BY <1>4, <3>1
  <2>2. CASE color[at] # "RED"
    <3>1. color' = color
      BY <1>2, <1>3, <1>4, <2>2
    <3>2. up = Nil
      BY <1>0, <1>1, <2>2 DEF Red, RemoveCursor
    <3> QED
      BY <1>6, <3>1, <3>2
  <2> QED
    BY <2>1, <2>2
<1>9. PICK bh2 : Heights(pos, kid, color', bh2, Nil, sd)
  BY <1>8
<1>10. Heights(pos, kid, color, bh2, Indebted, sd)'
  <2>1. Indebted' = Nil /\ kid' = kid
    BY <1>0 DEF Indebted
  <2> QED
    BY <1>9, <2>1
<1>11. Calm(pos)'
  <2>0. \A m \in Link : Red(m)' => Red(m) /\ m # at
    BY <1>2, <1>3, <1>5 DEF Red, Link
  <2>1. ~Red(root)'
    <3>1. root' = root /\ root \in Link
      BY <1>0, <1>1 DEF TreeTypeOK
    <3>2. Red(root)' => Red(root) /\ root # at
      BY <2>0, <3>1 DEF Red
    <3> QED
      BY <1>1, <3>2 DEF Calm
  <2>2. ASSUME NEW n \in On(pos), Red(n)', (Red(parent[n]))' PROVE FALSE
    <3>1. n \in Link /\ parent[n] \in Link /\ parent' = parent
      BY <1>0, <1>1, <1>2 DEF TreeTypeOK, Link
    <3>2. Red(n) /\ n # at
      BY <2>0, <2>2, <3>1
    <3>3. Red(parent[n]) /\ parent[n] # at
      BY <2>0, <2>2, <3>1 DEF Red
    <3> QED
      BY <1>0, <1>1, <3>2, <3>3 DEF Calm
  <2> QED
    BY <1>0, <2>1, <2>2 DEF Calm
<1>12. TreeTypeOK' /\ Loose(pos)' /\ Cached(q)' /\ Cursor(q, pos, ext, sd)'
  <2>1. TreeTypeOK'
    BY <1>0, <1>1, <1>5 DEF TreeTypeOK
  <2>2. Loose(pos)'
    BY <1>0, <1>1 DEF Loose
  <2>3. Cached(q)'
    BY <1>0, <1>1 DEF Cached
  <2>4. Cursor(q, pos, ext, sd)'
    BY <1>0, <1>1 DEF Cursor
  <2> QED
    BY <2>1, <2>2, <2>3, <2>4
<1>13. Shape(q, pos, ext, kid, parent, root)' /\ Sorted(q, key)'
  BY <1>0, <1>1
<1>14. TreeIs(q, pos, ext, bh2, sd)'
  BY <1>10, <1>11, <1>12, <1>13 DEF TreeIs
<1> QED
  BY <1>14

(* The end of rb_remove: the links of the removed thread are cleared.      *)
LEMMA RemovedStep ==
  ASSUME NEW q, NEW pos, NEW ext, NEW bh, NEW sd, TreeIs(q, pos, ext, bh, sd), Removed
  PROVE  TreeIs(q, pos, ext, bh, sd)'
<1>0. /\ pc = "clear" /\ kid' = [d \in Side |-> [kid[d] EXCEPT ![thread] = Nil]]
      /\ parent' = [parent EXCEPT ![thread] = Nil] /\ count' = count - 1
      /\ pc' = "idle" /\ thread' = Nil /\ at' = Nil /\ up' = Nil
      /\ UNCHANGED <<root, leftmost, color>>
  BY DEF Removed, Return
<1>1. /\ Shape(q, pos, ext, kid, parent, root) /\ TreeTypeOK /\ Sorted(q, key)
      /\ Calm(pos) /\ Loose(pos) /\ Cached(q)
      /\ thread \in Node /\ pos[thread] = 0
      /\ Heights(pos, kid, color, bh, Nil, sd)
  BY <1>0 DEF TreeIs, Cursor, Indebted
<1>2. /\ On(pos) \subseteq Node /\ Nil \notin On(pos) /\ Nil \notin Node /\ Len(q) \in Nat
      /\ kid \in [Side -> [Node -> Link]] /\ parent \in [Node -> Link]
  BY <1>1, ShapeTypes
<1>3. /\ kid' \in [Side -> [Node -> Link]]
      /\ \A m \in Node, d \in Side : kid'[d][m] = IF m = thread THEN Nil ELSE kid[d][m]
  BY <1>0, <1>1, <1>2 DEF Link
<1>4. /\ parent' \in [Node -> Link]
      /\ \A m \in Node : parent'[m] = IF m = thread THEN Nil ELSE parent[m]
  BY <1>0, <1>1, <1>2 DEF Link
<1>5. thread \notin On(pos)
  BY <1>1 DEF On
<1>6. /\ Shape(q, pos, ext, kid', parent', root)
      /\ Heights(pos, kid', color, bh, Nil, sd)
  <2>1. LinkTypes(kid', parent', root)
    BY <1>1, <1>3, <1>4 DEF LinkTypes, TreeTypeOK
  <2>2. \A n \in On(pos) : parent'[n] = parent[n] /\ \A d \in Side : kid'[d][n] = kid[d][n]
    BY <1>2, <1>3, <1>4, <1>5
  <2> QED
    BY <1>1, <2>1, <2>2, SameLinks
<1>7. Shape(q, pos, ext, kid, parent, root)' /\ Sorted(q, key)'
  BY <1>0, <1>1, <1>6
<1>8. Heights(pos, kid, color, bh, Indebted, sd)'
  <2>1. Indebted' = Nil /\ color' = color
    BY <1>0 DEF Indebted
  <2> QED
    BY <1>6, <2>1
<1>9. Calm(pos)'
  <2>1. \A n \in On(pos) : parent'[n] = parent[n]
    BY <1>2, <1>4, <1>5
  <2> QED
    BY <1>0, <1>1, <2>1 DEF Calm, Red
<1>10. Loose(pos)'
  BY <1>0, <1>1, <1>3 DEF Loose
<1>11. Cached(q)'
  <2>1. count' = Len(q)
    BY <1>0, <1>1, <1>2 DEF Cached
  <2> QED
    BY <1>0, <1>1, <2>1 DEF Cached
<1>12. TreeTypeOK'
  BY <1>0, <1>1, <1>2, <1>3, <1>4, <1>11 DEF TreeTypeOK, Cached, Link
<1>13. Cursor(q, pos, ext, sd)'
  BY <1>0 DEF Cursor
<1> QED
  BY <1>7, <1>8, <1>9, <1>10, <1>11, <1>12, <1>13 DEF TreeIs

(* PassUp paints the sibling red and passes the debt on to up.             *)
LEMMA PassUpStep ==
  ASSUME NEW q, NEW pos, NEW ext, NEW bh, NEW sd, TreeIs(q, pos, ext, bh, sd), PassUp
  PROVE  \E bh2, sd2 : TreeIs(q, pos, ext, bh2, sd2)'
<1>a. PICK p, x, w, g : p = up /\ x = at /\ w = Sibling /\ g = parent[up]
  OBVIOUS
<1>0. /\ pc = "remove_fixup" /\ Short /\ ~Red(w) /\ color' = Paint(color, w, "RED")
      /\ w = Nil \/ (~Red(kid[ShortSide][w]) /\ ~Red(kid[Other(ShortSide)][w]))
      /\ at' = p /\ up' = g
      /\ UNCHANGED <<root, kid, parent, leftmost, count, pc, thread>>
  BY <1>a DEF PassUp, links, Near, Far, Short
<1>1. /\ root # Nil /\ x # root /\ x \in On(pos) \cup {Nil}
      /\ p \in On(pos) /\ sd \in Side /\ Other(sd) \in Side /\ sd # Other(sd)
      /\ kid[sd][p] = x /\ ShortSide = sd /\ w = kid[Other(sd)][p]
      /\ w # Nil /\ w \in On(pos) /\ w # x /\ parent[w] = p
      /\ w # p /\ x # p /\ bh[x] \in Nat /\ bh[w] = bh[x] + 1
      /\ bh[p] = bh[w] + (IF color[p] = "RED" THEN 0 ELSE 1)
      /\ \A n \in On(pos) : ~(Red(n) /\ Red(parent[n]))
      /\ ~Red(root)
      /\ Heights(pos, kid, color, bh, p, sd)
  BY <1>0, <1>a, ShortFacts
<1>2. /\ Shape(q, pos, ext, kid, parent, root) /\ TreeTypeOK
      /\ thread \in Node /\ pos[thread] = 0
  BY <1>0 DEF TreeIs, Cursor
<1>3. /\ On(pos) \subseteq Node /\ Nil \notin On(pos) /\ Nil \notin Node
      /\ kid \in [Side -> [Node -> Link]] /\ parent \in [Node -> Link]
      /\ color \in [Node -> {"RED", "BLACK"}]
      /\ pos \in [Node -> Nat] /\ ext \in [Side -> [Node -> Int]] /\ "L" \in Side /\ "R" \in Side
  BY <1>2, ShapeTypes DEF TreeTypeOK
<1>4. w \in Node /\ p \in Node /\ w \in Link /\ p \in Link /\ x \in Link /\ g \in Link
  BY <1>1, <1>3, <1>a DEF Link
<1>5. /\ g = Nil <=> p = root
      /\ p # root => g \in On(pos) /\ g # p /\ \E e \in Side : kid[e][g] = p /\ kid[Other(e)][g] # p
  BY <1>1, <1>2, <1>a, UpFacts
<1>6. PICK sd2 \in Side : p # root => kid[sd2][g] = p /\ kid[Other(sd2)][g] # p
  BY <1>1, <1>5
<1>7. g # w
  <2>1. CASE p = root
    BY <1>1, <1>5, <2>1
  <2>2. CASE p # root
    <3>1. pos[g] < ext["L"][p] \/ ext["R"][p] < pos[g]
      BY <1>1, <1>2, <1>a, <2>2, UpFacts
    <3>2. ext["L"][p] <= pos[w] /\ pos[w] <= ext["R"][p]
      BY <1>1, <1>2, LinkFacts
    <3>3. ext["L"][p] \in Int /\ ext["R"][p] \in Int /\ pos[w] \in Nat
      BY <1>3, <1>4
    <3> QED
      BY <3>1, <3>2, <3>3
  <2> QED
    BY <2>1, <2>2
<1>8. /\ color' \in [Node -> {"RED", "BLACK"}] /\ color'[w] = "RED"
      /\ \A m \in Node : m # w => color'[m] = color[m]
  <2>1. color' = [color EXCEPT ![w] = "RED"]
    BY <1>0, <1>1 DEF Paint
  <2> QED
    BY <1>3, <1>4, <2>1
<1>9. color[w] = "BLACK"
  BY <1>0, <1>1, <1>3, <1>4 DEF Red
<1>10. /\ TreeTypeOK' /\ Shape(q, pos, ext, kid, parent, root)' /\ Sorted(q, key)'
       /\ Loose(pos)' /\ Cached(q)'
  BY <1>0, <1>4, <1>8, PaintFrame DEF links
<1> DEFINE bh2 == [m \in Link |-> IF m = p \/ m = w THEN bh[m] - 1 ELSE bh[m]]
<1>11. bh \in [Link -> Nat] /\ bh[Nil] = 0
  BY <1>1 DEF Heights
<1>12. bh[p] \in Nat /\ bh[p] >= 1 /\ bh[w] \in Nat /\ bh[w] >= 1
  BY <1>1, <1>4, <1>11
<1>13. /\ bh2 \in [Link -> Nat] /\ bh2[Nil] = 0
       /\ \A m \in Link : bh2[m] = IF m = p \/ m = w THEN bh[m] - 1 ELSE bh[m]
  <2>1. \A m \in Link : bh2[m] = IF m = p \/ m = w THEN bh[m] - 1 ELSE bh[m]
    OBVIOUS
  <2>2. \A m \in Link : (IF m = p \/ m = w THEN bh[m] - 1 ELSE bh[m]) \in Nat
    BY <1>11, <1>12
  <2>3. bh2 \in [Link -> Nat]
    BY <2>2
  <2>4. Nil \in Link /\ Nil # p /\ Nil # w
    BY <1>3, <1>4 DEF Link
  <2> QED
    BY <1>11, <2>1, <2>3, <2>4
<1> HIDE DEF bh2
<1>14. Heights(pos, kid, color', bh2, g, sd2)
  <2>1. ASSUME NEW m \in On(pos), NEW e \in Side
        PROVE  HeightOK(kid, color', bh2, g, sd2, m, e)
    <3> DEFINE c == kid[e][m]
               B == IF color[m] = "RED" THEN 0 ELSE 1
    <3>0. m \in Node /\ m \in Link /\ m # Nil /\ c \in Link
      BY <1>3 DEF Link
    <3>1. bh[m] = bh[c] + (IF m = p /\ e = sd THEN 1 ELSE 0) + B
      BY <1>1 DEF Heights, HeightOK
    <3>2. bh[m] \in Nat /\ bh[c] \in Nat /\ B \in Nat
      BY <1>11, <3>0
    <3>3. c # Nil => parent[c] = m /\ kid[Other(e)][m] # c
      BY <1>2, LinkFacts
    <3>4. e = sd \/ e = Other(sd)
      BY <1>1 DEF Side, Other
    <3>5. e = sd2 \/ e = Other(sd2)
      BY DEF Side, Other
    <3> HIDE DEF c, B
    <3>6. CASE m = p
      <4>1. m # g /\ m # w /\ bh2[m] = bh[m] - 1 /\ color'[m] = color[m]
        BY <1>1, <1>5, <1>8, <1>13, <3>0, <3>6
      <4>2. CASE e = sd
        <5>1. c = x /\ x # p /\ x # w
          BY <1>1, <3>6, <4>2 DEF c
        <5>2. bh2[c] = bh[c]
          BY <1>13, <3>0, <5>1
        <5>3. bh2[m] = bh2[c] + 0 + B
          BY <3>1, <3>2, <3>6, <4>1, <4>2, <5>2
        <5> QED
          BY <4>1, <5>3 DEF HeightOK, c, B
      <4>3. CASE e = Other(sd)
        <5>1. c = w /\ e # sd
          BY <1>1, <3>6, <4>3 DEF c
        <5>2. bh2[c] = bh[c] - 1
          BY <1>13, <3>0, <5>1
        <5>3. bh2[m] = bh2[c] + 0 + B
          BY <1>12, <3>1, <3>2, <3>6, <4>1, <5>1, <5>2
        <5> QED
          BY <4>1, <5>3 DEF HeightOK, c, B
      <4> QED
        BY <3>4, <4>2, <4>3
    <3>7. CASE m = w
      <4>1. m # g /\ m # p /\ bh2[m] = bh[m] - 1 /\ color'[m] = "RED" /\ B = 1
        BY <1>1, <1>7, <1>8, <1>9, <1>13, <3>0, <3>7 DEF B
      <4>2. c # p /\ c # w
        <5>1. c = p => m = g
          BY <1>3, <1>4, <1>a, <3>3
        <5>2. c = w => m = p
          BY <1>1, <3>3
        <5> QED
          BY <4>1, <5>1, <5>2
      <4>3. bh2[c] = bh[c]
        BY <1>13, <3>0, <4>2
      <4>4. bh2[m] = bh2[c] + 0 + 0
        BY <3>1, <3>2, <4>1, <4>3
      <4> QED
        BY <4>1, <4>4 DEF HeightOK, c
    <3>8. CASE m # p /\ m # w
      <4>1. bh2[m] = bh[m] /\ color'[m] = color[m] /\ c # w
        BY <1>1, <1>8, <1>13, <3>0, <3>3, <3>8
      <4>2. c = p <=> (m = g /\ e = sd2)
        <5>1. c = p => m = g /\ p # root
          BY <1>3, <1>4, <1>5, <1>a, <3>0, <3>3
        <5>2. m = g => p # root
          BY <1>5, <3>0
        <5> QED
          BY <1>6, <3>5, <5>1, <5>2 DEF c
      <4>3. CASE c = p
        <5>1. bh2[c] = bh[c] - 1
          BY <1>13, <3>0, <4>3
        <5>2. bh2[m] = bh2[c] + 1 + B
          BY <3>1, <3>2, <3>8, <4>1, <5>1
        <5> QED
          BY <4>1, <4>2, <4>3, <5>2 DEF HeightOK, c, B
      <4>4. CASE c # p
        <5>1. bh2[c] = bh[c]
          BY <1>13, <3>0, <4>1, <4>4
        <5>2. bh2[m] = bh2[c] + 0 + B
          BY <3>1, <3>2, <3>8, <4>1, <5>1
        <5>3. ~(m = g /\ e = sd2)
          BY <4>2, <4>4
        <5>4. (IF m = g /\ e = sd2 THEN 1 ELSE 0) = 0
          BY <5>3
        <5> QED
          BY <4>1, <5>2, <5>4 DEF HeightOK, c, B
      <4> QED
        BY <4>3, <4>4
    <3> QED
      BY <3>6, <3>7, <3>8
  <2> QED
    BY <1>13, <2>1 DEF Heights
<1>15. Heights(pos, kid, color, bh2, Indebted, sd2)'
  <2>1. Indebted' = g /\ kid' = kid
    BY <1>0 DEF Indebted
  <2> QED
    BY <1>14, <2>1
<1>16. Calm(pos)'
  <2>1. ASSUME NEW n \in On(pos), Red(n)', (Red(parent[n]))' PROVE n = p \/ parent[n] = p
    <3> SUFFICES ASSUME n # p, parent[n] # p PROVE FALSE
      OBVIOUS
    <3>0. n \in Node /\ n # Nil /\ parent' = parent
      BY <1>0, <1>3
    <3>1. n # w /\ Red(n)
      BY <1>1, <1>8, <2>1, <3>0 DEF Red
    <3>2. parent[n] # Nil /\ color'[parent[n]] = "RED" /\ parent[n] \in Node
      BY <1>3, <2>1, <3>0 DEF Red, Link
    <3>3. CASE parent[n] = w
      <4>1. \E e \in Side : kid[e][w] = n
        BY <1>2, <3>2, <3>3, UpFacts
      <4>2. \A e \in Side : e = sd \/ e = Other(sd)
        BY <1>1 DEF Side, Other
      <4> QED
        BY <1>0, <1>1, <3>1, <4>1, <4>2
    <3>4. CASE parent[n] # w
      BY <1>1, <1>8, <3>1, <3>2, <3>4 DEF Red
    <3> QED
      BY <3>3, <3>4
  <2>2. ~Red(root)'
    <3>1. w # root /\ root \in Node /\ root' = root
      <4>1. w # root
        BY <1>1, <1>2, LinkFacts
      <4> QED
        BY <1>0, <1>1, <1>2, <4>1 DEF TreeTypeOK, Link
    <3> QED
      BY <1>1, <1>8, <3>1 DEF Red
  <2> QED
    BY <1>0, <2>1, <2>2 DEF Calm
<1>17. Cursor(q, pos, ext, sd2)'
  <2>1. RemoveCursor(pos, sd2)'
    BY <1>0, <1>1, <1>5, <1>6 DEF RemoveCursor
  <2> QED
    BY <1>0, <1>2, <2>1 DEF Cursor
<1>18. TreeIs(q, pos, ext, bh2, sd2)'
  BY <1>10, <1>15, <1>16, <1>17 DEF TreeIs
<1> QED
  BY <1>18

(* What a rotation in a fix-up leaves alone, and the links after it.       *)
LEMMA TurnFrame ==
  ASSUME NEW q, NEW pos, NEW ext, NEW bh, NEW sd, TreeIs(q, pos, ext, bh, sd),
         NEW d \in Side, NEW n \in On(pos), NEW y, y = kid[Other(d)][n], y # Nil,
         rb_rotate(d, n),
         pc \in {"insert_fixup", "remove_fixup"}, UNCHANGED <<leftmost, count, pc, thread>>,
         color' \in [Node -> {"RED", "BLACK"}], at' \in Link, up' \in Link
  PROVE  /\ TreeTypeOK' /\ Shape(q, pos, TurnedSpans(pos, ext, d, n, y), kid, parent, root)'
         /\ Sorted(q, key)' /\ Loose(pos)' /\ Cached(q)'
         /\ y \in On(pos) /\ y # n /\ parent[y] = n /\ n # parent[n] /\ y # parent[n]
         /\ kid' = TurnedKids(kid, parent, d, n)
         /\ \A m \in Node, e \in Side :
              kid'[e][m] = IF m = n /\ e = Other(d) THEN kid[d][y]
                           ELSE IF m = y /\ e = d THEN n
                           ELSE IF m = parent[n] /\ kid[e][m] = n THEN y ELSE kid[e][m]
         /\ \A m \in Node :
              parent'[m] = IF m = n THEN y ELSE IF m = y THEN parent[n]
                           ELSE IF m = kid[d][y] THEN n ELSE parent[m]
         /\ root' = IF n = root THEN y ELSE root
<1>1. /\ TreeTypeOK /\ Shape(q, pos, ext, kid, parent, root) /\ Sorted(q, key)
      /\ Loose(pos) /\ Cached(q)
  BY DEF TreeIs
<1>2. /\ kid' = TurnedKids(kid, parent, d, n) /\ parent' = TurnedParents(kid, parent, d, n)
      /\ root' = IF parent[n] = Nil THEN y ELSE root
  BY DEF rb_rotate, Top
<1>3. /\ y \in On(pos) /\ y # n /\ y # parent[n] /\ n # parent[n]
      /\ TurnedKids(kid, parent, d, n) \in [Side -> [Node -> Link]]
      /\ \A m \in Node, e \in Side :
              TurnedKids(kid, parent, d, n)[e][m] =
                IF m = n /\ e = Other(d) THEN kid[d][y]
                ELSE IF m = y /\ e = d THEN n
                ELSE IF m = parent[n] /\ kid[e][m] = n THEN y ELSE kid[e][m]
      /\ TurnedParents(kid, parent, d, n) \in [Node -> Link]
      /\ \A m \in Node :
              TurnedParents(kid, parent, d, n)[m] =
                IF m = n THEN y ELSE IF m = y THEN parent[n]
                ELSE IF m = kid[d][y] THEN n ELSE parent[m]
  BY <1>1, TurnFacts
<1>4. Shape(q, pos, TurnedSpans(pos, ext, d, n, y), TurnedKids(kid, parent, d, n),
            TurnedParents(kid, parent, d, n), IF parent[n] = Nil THEN y ELSE root)
  BY <1>1, TurnShape
<1>5. Shape(q, pos, TurnedSpans(pos, ext, d, n, y), kid', parent', root')
  BY <1>2, <1>4
<1>6. root' \in Link
  BY <1>5, ShapeTypes
<1>7. parent[y] = n
  <2>1. Other(d) \in Side
    BY DEF Side, Other
  <2> QED
    BY <1>1, <2>1, LinkFacts
<1>8. n = root <=> parent[n] = Nil
  BY <1>1, UpFacts
<1>9. TreeTypeOK'
  BY <1>1, <1>2, <1>3, <1>6 DEF TreeTypeOK
<1>10. Loose(pos)'
  <2>1. ASSUME NEW m \in Node \ On(pos), NEW e \in Side PROVE kid'[e][m] = kid[e][m]
    <3>1. m # n /\ m # y
      BY <1>3
    <3>2. m = parent[n] => m = Nil
      BY <1>1, UpFacts
    <3>3. m # parent[n]
      BY <3>2, RBTreeAssumption
    <3> QED
      BY <1>2, <1>3, <3>1, <3>3
  <2> QED
    BY <1>1, <2>1 DEF Loose
<1>11. Cached(q)'
  BY <1>1 DEF Cached
<1> QED
  BY <1>1, <1>2, <1>3, <1>5, <1>7, <1>8, <1>9, <1>10, <1>11

(* TurnInside: the red pair changes places, and leans outwards.            *)
LEMMA TurnInsideStep ==
  ASSUME NEW q, NEW pos, NEW ext, NEW bh, NEW sd, TreeIs(q, pos, ext, bh, sd), TurnInside
  PROVE  \E ext2 : TreeIs(q, pos, ext2, bh, sd)'
<1>a. PICK p, g, d, y : p = Father /\ g = Grand /\ d = FatherSide /\ y = at
  OBVIOUS
<1>0. /\ pc = "insert_fixup" /\ Red(p) /\ y = kid[Other(d)][p] /\ rb_rotate(d, p) /\ at' = p
      /\ UNCHANGED <<leftmost, count, color, pc, thread, up>>
  BY <1>a DEF TurnInside
<1>1. /\ y \in On(pos) /\ Red(y) /\ y # root /\ p \in On(pos) /\ p # y /\ p # root
      /\ g \in On(pos) /\ g # p /\ ~Red(g) /\ d \in Side /\ Other(d) \in Side
      /\ \A n \in On(pos) : Red(n) /\ Red(parent[n]) => n = y
      /\ Heights(pos, kid, color, bh, Nil, sd)
  BY <1>0, <1>a, InsertFacts
<1>2. Shape(q, pos, ext, kid, parent, root) /\ TreeTypeOK /\ Calm(pos)
  BY DEF TreeIs
<1>3. /\ On(pos) \subseteq Node /\ Nil \notin On(pos) /\ Nil \notin Node
      /\ kid \in [Side -> [Node -> Link]] /\ color \in [Node -> {"RED", "BLACK"}]
  BY <1>2, ShapeTypes DEF TreeTypeOK
<1>4. y # Nil /\ color' \in [Node -> {"RED", "BLACK"}] /\ at' \in Link /\ up' \in Link
  BY <1>0, <1>1, <1>2, <1>3 DEF TreeTypeOK, Link
<1>5. /\ TreeTypeOK' /\ Shape(q, pos, TurnedSpans(pos, ext, d, p, y), kid, parent, root)'
      /\ Sorted(q, key)' /\ Loose(pos)' /\ Cached(q)'
      /\ kid' = TurnedKids(kid, parent, d, p)
      /\ \A m \in Node, e \in Side :
           kid'[e][m] = IF m = p /\ e = Other(d) THEN kid[d][y]
                        ELSE IF m = y /\ e = d THEN p
                        ELSE IF m = parent[p] /\ kid[e][m] = p THEN y ELSE kid[e][m]
      /\ \A m \in Node :
           parent'[m] = IF m = p THEN y ELSE IF m = y THEN parent[p]
                        ELSE IF m = kid[d][y] THEN p ELSE parent[m]
      /\ root' = IF p = root THEN y ELSE root
  BY <1>0, <1>1, <1>4, TurnFrame
<1>6. parent[y] = p /\ parent[p] = g /\ p \in Node /\ y \in Node /\ g \in Node
  BY <1>a, <1>1, <1>3 DEF Father, Grand
<1>7. bh \in [Link -> Nat] /\ bh[Nil] = 0
  BY <1>1 DEF Heights
<1>8. /\ bh[p] = bh[kid[d][p]] /\ bh[p] = bh[y] /\ bh[y] = bh[kid[d][y]] /\ bh[y] = bh[kid[Other(d)][y]]
  <2>1. \A m \in {p, y}, e \in Side : bh[m] = bh[kid[e][m]]
    <3> SUFFICES ASSUME NEW m \in {p, y}, NEW e \in Side PROVE bh[m] = bh[kid[e][m]]
      OBVIOUS
    <3>1. HeightOK(kid, color, bh, Nil, sd, m, e)
      BY <1>1 DEF Heights
    <3>2. m # Nil /\ color[m] = "RED" /\ m \in Link /\ kid[e][m] \in Link
      BY <1>0, <1>1, <1>3, <1>6 DEF Red, Link
    <3>3. bh[kid[e][m]] \in Nat
      BY <1>7, <3>2
    <3> QED
      BY <3>1, <3>2, <3>3 DEF HeightOK
  <2> QED
    BY <1>0, <1>1, <2>1
<1>9. \A e \in Side : HeightOK(kid', color', bh, Nil, sd, p, e) /\ HeightOK(kid', color', bh, Nil, sd, y, e)
  <2> SUFFICES ASSUME NEW e \in Side, NEW m \in {p, y}
               PROVE  HeightOK(kid', color', bh, Nil, sd, m, e)
    OBVIOUS
  <2>1. (e = d \/ e = Other(d)) /\ Other(d) # d
    BY <1>1 DEF Side, Other
  <2>2. m \in Node /\ m # Nil /\ color'[m] = "RED"
    BY <1>0, <1>1, <1>6 DEF Red
  <2>a. kid'[e][m] = IF m = p /\ e = Other(d) THEN kid[d][y]
                     ELSE IF m = y /\ e = d THEN p
                     ELSE IF m = parent[p] /\ kid[e][m] = p THEN y ELSE kid[e][m]
    BY <1>5, <2>2
  <2>b. y # g
    BY <1>0, <1>1
  <2>3. bh[m] = bh[kid'[e][m]]
    BY <1>0, <1>1, <1>6, <1>8, <2>1, <2>a, <2>b
  <2>4. bh[m] \in Nat
    BY <1>7, <2>2 DEF Link
  <2> QED
    BY <2>2, <2>3, <2>4 DEF HeightOK
<1>10. Heights(pos, kid', color', bh, Nil, sd)
  <2>1. \A m \in On(pos) : m \notin {p, y, Nil} =>
           /\ bh[m] = bh[m] /\ color'[m] = color[m]
           /\ \A e \in Side : (m = Nil /\ e = sd) <=> (m = Nil /\ e = sd)
    BY <1>0
  <2>a. /\ d \in Side /\ p \in On(pos) /\ y = kid[Other(d)][p] /\ y # Nil
        /\ Heights(pos, kid, color, bh, Nil, sd) /\ Shape(q, pos, ext, kid, parent, root)
    BY <1>0, <1>1, <1>2, <1>4
  <2>b. \A e \in Side : /\ HeightOK(TurnedKids(kid, parent, d, p), color', bh, Nil, sd, p, e)
                        /\ HeightOK(TurnedKids(kid, parent, d, p), color', bh, Nil, sd, y, e)
    BY <1>5, <1>9
  <2>c. bh[y] = bh[p]
    BY <1>8
  <2>2. Heights(pos, TurnedKids(kid, parent, d, p), color', bh, Nil, sd)
    BY <1>7, <2>1, <2>a, <2>b, <2>c, TurnHeights
  <2> QED
    BY <1>5, <2>2
<1>11. Heights(pos, kid, color, bh, Indebted, sd)'
  <2>1. Indebted' = Nil
    BY <1>0 DEF Indebted
  <2> QED
    BY <1>10, <2>1
<1>12. Calm(pos)'
  <2>1. ~Red(root)'
    BY <1>0, <1>1, <1>2, <1>5, <1>a DEF Calm, Red
  <2>2. ASSUME NEW m \in On(pos), Red(m)', (Red(parent[m]))' PROVE m = p
    <3> SUFFICES ASSUME m # p PROVE FALSE
      OBVIOUS
    <3>0. m \in Node /\ Red(m) /\ color' = color
      BY <1>0, <1>3, <2>2 DEF Red
    <3>1. CASE m = y
      BY <1>0, <1>1, <1>5, <1>6, <2>2, <3>0, <3>1 DEF Red
    <3>2. CASE m # y /\ m = kid[d][y]
      <4>1. parent[m] = y
        BY <1>1, <1>2, <1>3, <3>2, LinkFacts
      <4> QED
        BY <1>1, <3>0, <3>2, <4>1
    <3>3. CASE m # y /\ m # kid[d][y]
      BY <1>1, <1>5, <2>2, <3>0, <3>3 DEF Red
    <3> QED
      BY <3>1, <3>2, <3>3
  <2> QED
    BY <1>0, <2>1, <2>2 DEF Calm
<1>13. Cursor(q, pos, TurnedSpans(pos, ext, d, p, y), sd)'
  BY <1>0, <1>1 DEF Cursor, Red
<1>14. TreeIs(q, pos, TurnedSpans(pos, ext, d, p, y), bh, sd)'
  BY <1>5, <1>11, <1>12, <1>13 DEF TreeIs
<1> QED
  BY <1>14

(* TurnOutside: the father takes the place of the grandfather, and no red  *)
(* node is left below a red one.                                           *)
LEMMA TurnOutsideStep ==
  ASSUME NEW q, NEW pos, NEW ext, NEW bh, NEW sd, TreeIs(q, pos, ext, bh, sd), TurnOutside
  PROVE  \E ext2, bh2 : TreeIs(q, pos, ext2, bh2, sd)'
<1>a. PICK z, p, g, u, d, o : /\ z = at /\ p = Father /\ g = Grand /\ u = Uncle
                              /\ d = FatherSide /\ o = Other(d)
  OBVIOUS
<1>0. /\ pc = "insert_fixup" /\ Red(p) /\ ~Red(u) /\ z # kid[o][p] /\ rb_rotate(o, g)
      /\ color' = [color EXCEPT ![p] = "BLACK", ![g] = "RED"]
      /\ UNCHANGED <<leftmost, count, pc, thread, at, up>>
  BY <1>a DEF TurnOutside
<1>1. /\ z \in On(pos) /\ Red(z) /\ z # root /\ p \in On(pos) /\ p # z /\ p # root
      /\ g \in On(pos) /\ g # p /\ ~Red(g) /\ d \in Side /\ o \in Side /\ Other(o) = d
      /\ kid[d][g] = p /\ u # p
      /\ \E e \in Side : kid[e][p] = z
      /\ \A n \in On(pos) : Red(n) /\ Red(parent[n]) => n = z
      /\ Heights(pos, kid, color, bh, Nil, sd)
  BY <1>0, <1>a, InsertFacts
<1>2. Shape(q, pos, ext, kid, parent, root) /\ TreeTypeOK /\ Calm(pos)
  BY DEF TreeIs
<1>3. /\ On(pos) \subseteq Node /\ Nil \notin On(pos) /\ Nil \notin Node
      /\ kid \in [Side -> [Node -> Link]] /\ color \in [Node -> {"RED", "BLACK"}]
  BY <1>2, ShapeTypes DEF TreeTypeOK
<1>4. /\ p \in Node /\ g \in Node /\ z \in Node /\ p \in Link /\ g \in Link /\ p # Nil /\ g # Nil
      /\ parent[z] = p /\ parent[p] = g /\ u = kid[o][g] /\ o # d
      /\ \A e \in Side : e = d \/ e = o
  BY <1>a, <1>1, <1>3 DEF Father, Grand, Uncle, Link, Side, Other
<1>5. kid[d][p] = z /\ g # z
  BY <1>0, <1>1, <1>4
<1>6. /\ color' \in [Node -> {"RED", "BLACK"}] /\ color'[p] = "BLACK" /\ color'[g] = "RED"
      /\ \A m \in Node : m # p /\ m # g => color'[m] = color[m]
      /\ color[p] = "RED" /\ color[g] = "BLACK"
  BY <1>0, <1>1, <1>3, <1>4 DEF Red
<1>7. at' \in Link /\ up' \in Link
  BY <1>0, <1>2 DEF TreeTypeOK
<1>8. /\ TreeTypeOK' /\ Shape(q, pos, TurnedSpans(pos, ext, o, g, p), kid, parent, root)'
      /\ Sorted(q, key)' /\ Loose(pos)' /\ Cached(q)' /\ g # parent[g] /\ p # parent[g]
      /\ kid' = TurnedKids(kid, parent, o, g)
      /\ \A m \in Node, e \in Side :
           kid'[e][m] = IF m = g /\ e = Other(o) THEN kid[o][p]
                        ELSE IF m = p /\ e = o THEN g
                        ELSE IF m = parent[g] /\ kid[e][m] = g THEN p ELSE kid[e][m]
      /\ \A m \in Node :
           parent'[m] = IF m = g THEN p ELSE IF m = p THEN parent[g]
                        ELSE IF m = kid[o][p] THEN g ELSE parent[m]
      /\ root' = IF g = root THEN p ELSE root
  BY <1>0, <1>1, <1>4, <1>6, <1>7, TurnFrame
<1> DEFINE in == kid[o][p]
           bh2 == [m \in Link |-> IF m = p THEN bh[g] ELSE IF m = g THEN bh[p] ELSE bh[m]]
<1>9. bh \in [Link -> Nat] /\ bh[Nil] = 0
  BY <1>1 DEF Heights
<1>10. /\ bh2 \in [Link -> Nat] /\ bh2[Nil] = 0 /\ bh2[p] = bh[g] /\ bh2[g] = bh[p]
       /\ \A m \in Link : m # p /\ m # g => bh2[m] = bh[m]
  <2>1. \A m \in Link : bh2[m] = IF m = p THEN bh[g] ELSE IF m = g THEN bh[p] ELSE bh[m]
    OBVIOUS
  <2>2. \A m \in Link : (IF m = p THEN bh[g] ELSE IF m = g THEN bh[p] ELSE bh[m]) \in Nat
    BY <1>4, <1>9
  <2>3. bh2 \in [Link -> Nat]
    BY <2>2
  <2> QED
    BY <1>1, <1>4, <1>9, <2>1, <2>3 DEF Link
<1>11. in \in Link /\ u \in Link /\ z \in Link
  BY <1>1, <1>3, <1>4 DEF Link
<1>12. in # p /\ in # g /\ in # z /\ u # p /\ u # g
  <2>1. in # Nil => parent[in] = p /\ in # p
    BY <1>1, <1>2, LinkFacts
  <2>2. u # Nil => parent[u] = g /\ u # g
    BY <1>1, <1>2, <1>4, LinkFacts
  <2> QED
    BY <1>0, <1>1, <1>4, <1>8, <2>1, <2>2
<1>13. /\ bh[g] = bh[p] + 1 /\ bh[g] = bh[u] + 1 /\ bh[p] = bh[z] /\ bh[p] = bh[in]
       /\ bh[p] \in Nat /\ bh[u] \in Nat /\ bh[z] \in Nat /\ bh[in] \in Nat
  <2>1. /\ HeightOK(kid, color, bh, Nil, sd, g, d) /\ HeightOK(kid, color, bh, Nil, sd, g, o)
        /\ HeightOK(kid, color, bh, Nil, sd, p, d) /\ HeightOK(kid, color, bh, Nil, sd, p, o)
    BY <1>1 DEF Heights
  <2>2. bh[p] \in Nat /\ bh[u] \in Nat /\ bh[z] \in Nat /\ bh[in] \in Nat
    BY <1>4, <1>9, <1>11
  <2> QED
    BY <1>1, <1>4, <1>5, <1>6, <2>1, <2>2 DEF HeightOK, in
<1>14. /\ kid'[d][g] = in /\ kid'[o][g] = u /\ kid'[o][p] = g /\ kid'[d][p] = z
  BY <1>1, <1>4, <1>5, <1>8 DEF in
<1> HIDE DEF bh2, in
<1>15. \A e \in Side : /\ HeightOK(kid', color', bh2, Nil, sd, g, e)
                       /\ HeightOK(kid', color', bh2, Nil, sd, p, e)
  <2>1. bh2[in] = bh[in] /\ bh2[u] = bh[u] /\ bh2[z] = bh[z]
    BY <1>1, <1>5, <1>10, <1>11, <1>12
  <2>2. HeightOK(kid', color', bh2, Nil, sd, g, d) /\ HeightOK(kid', color', bh2, Nil, sd, g, o)
    BY <1>4, <1>6, <1>10, <1>13, <1>14, <2>1 DEF HeightOK
  <2>a. bh2[p] = bh2[kid'[d][p]] + 0 + 1
    <3>1. bh2[kid'[d][p]] = bh[z]
      BY <1>14, <2>1
    <3>2. bh2[p] = bh[z] + 1 /\ bh[z] \in Nat
      BY <1>10, <1>13
    <3> QED
      BY <3>1, <3>2
  <2>b. bh2[p] = bh2[kid'[o][p]] + 0 + 1
    BY <1>10, <1>13, <1>14
  <2>c. p # Nil /\ color'[p] # "RED"
    BY <1>4, <1>6
  <2>3. HeightOK(kid', color', bh2, Nil, sd, p, d) /\ HeightOK(kid', color', bh2, Nil, sd, p, o)
    BY <2>a, <2>b, <2>c DEF HeightOK
  <2> QED
    BY <1>4, <2>2, <2>3
<1>16. Heights(pos, kid', color', bh2, Nil, sd)
  <2>1. \A m \in On(pos) : m \notin {g, p, Nil} =>
           /\ bh2[m] = bh[m] /\ color'[m] = color[m]
           /\ \A e \in Side : (m = Nil /\ e = sd) <=> (m = Nil /\ e = sd)
    BY <1>3, <1>6, <1>10 DEF Link
  <2>2. Heights(pos, TurnedKids(kid, parent, o, g), color', bh2, Nil, sd)
    <3>1. /\ o \in Side /\ g \in On(pos) /\ p = kid[Other(o)][g] /\ p # Nil
          /\ Heights(pos, kid, color, bh, Nil, sd) /\ Shape(q, pos, ext, kid, parent, root)
      BY <1>1, <1>2, <1>4
    <3>2. \A e \in Side : /\ HeightOK(TurnedKids(kid, parent, o, g), color', bh2, Nil, sd, g, e)
                          /\ HeightOK(TurnedKids(kid, parent, o, g), color', bh2, Nil, sd, p, e)
      BY <1>8, <1>15
    <3>3. bh2 \in [Link -> Nat] /\ bh2[Nil] = 0 /\ bh2[p] = bh[g]
      BY <1>10
    <3> QED
      BY <2>1, <3>1, <3>2, <3>3, TurnHeights
  <2> QED
    BY <1>8, <2>2
<1>17. Heights(pos, kid, color, bh2, Indebted, sd)'
  <2>1. Indebted' = Nil
    BY <1>0 DEF Indebted
  <2> QED
    BY <1>16, <2>1
<1>18. Calm(pos)'
  <2>1. ~Red(root)'
    <3>1. ~Red(root)
      BY <1>1, <1>2, <1>a DEF Calm
    <3>2. CASE g = root
      BY <1>6, <1>8, <3>2 DEF Red
    <3>3. CASE g # root
      BY <1>1, <1>2, <1>6, <1>8, <3>1, <3>3 DEF Red, TreeTypeOK, Link
    <3> QED
      BY <3>2, <3>3
  <2>2. ASSUME NEW m \in On(pos), Red(m)', (Red(parent[m]))' PROVE FALSE
    <3>0. m \in Node /\ m # Nil /\ m # p /\ color'[m] = "RED" /\ parent'[m] # Nil
          /\ color'[parent'[m]] = "RED" /\ parent'[m] # p
      BY <1>3, <1>6, <2>2 DEF Red
    <3>1. m # g
      BY <1>8, <3>0
    <3>2. Red(m)
      BY <1>6, <3>0, <3>1 DEF Red
    <3>3. CASE m = in
      <4>1. parent[m] = p
        BY <1>1, <1>2, <3>0, <3>3, LinkFacts DEF in
      <4> QED
        BY <1>0, <1>1, <1>12, <3>2, <3>3, <4>1
    <3>4. CASE m # in
      <4>1. parent'[m] = parent[m]
        BY <1>8, <3>0, <3>1, <3>4 DEF in
      <4>2. CASE parent[m] = g
        <5>1. \E e \in Side : kid[e][g] = m
          BY <1>1, <1>2, <1>3, <4>2, UpFacts
        <5>2. m = p \/ m = u
          BY <1>1, <1>4, <5>1
        <5> QED
          BY <1>0, <3>0, <3>2, <5>2
      <4>3. CASE parent[m] # g
        <5>1. parent[m] \in Node
          BY <1>2, <3>0, <4>1 DEF TreeTypeOK, Link
        <5>2. Red(parent[m])
          BY <1>6, <3>0, <4>1, <4>3, <5>1 DEF Red
        <5> QED
          BY <1>1, <1>4, <3>0, <3>2, <4>1, <5>2
      <4> QED
        BY <4>2, <4>3
    <3> QED
      BY <3>3, <3>4
  <2> QED
    BY <1>0, <2>1, <2>2 DEF Calm
<1>19. Cursor(q, pos, TurnedSpans(pos, ext, o, g, p), sd)'
  <2>1. at' = z /\ Red(z)'
    BY <1>0, <1>1, <1>4, <1>5, <1>6, <1>a DEF Red
  <2>2. Red(at)'
    BY <2>1 DEF Red
  <2> QED
    BY <1>0, <1>1, <2>1, <2>2 DEF Cursor
<1>20. TreeIs(q, pos, TurnedSpans(pos, ext, o, g, p), bh2, sd)'
  BY <1>8, <1>17, <1>18, <1>19 DEF TreeIs
<1> QED
  BY <1>20

(* RedSibling: the sibling takes the place of up, and at stays as short as *)
(* it was, below a black sibling.                                          *)
LEMMA RedSiblingStep ==
  ASSUME NEW q, NEW pos, NEW ext, NEW bh, NEW sd, TreeIs(q, pos, ext, bh, sd), RedSibling
  PROVE  \E ext2, bh2 : TreeIs(q, pos, ext2, bh2, sd)'
<1>a. PICK x, p, w, o : x = at /\ p = up /\ w = Sibling /\ o = Other(sd)
  OBVIOUS
<1>0. /\ pc = "remove_fixup" /\ Short /\ Red(w) /\ rb_rotate(ShortSide, p)
      /\ color' = [color EXCEPT ![w] = "BLACK", ![p] = "RED"]
      /\ UNCHANGED <<leftmost, count, pc, thread, at, up>>
  BY <1>a DEF RedSibling, Short
<1>1. /\ root # Nil /\ x # root /\ x \in On(pos) \cup {Nil} /\ ~Red(x)
      /\ p \in On(pos) /\ sd \in Side /\ o \in Side /\ Other(o) = sd /\ sd # o
      /\ kid[sd][p] = x /\ ShortSide = sd /\ w = kid[o][p]
      /\ w # Nil /\ w \in On(pos) /\ w # x /\ parent[w] = p
      /\ w # p /\ x # p /\ bh[x] \in Nat /\ bh[w] = bh[x] + 1
      /\ bh[p] = bh[w] + (IF color[p] = "RED" THEN 0 ELSE 1)
      /\ \A n \in On(pos) : ~(Red(n) /\ Red(parent[n]))
      /\ ~Red(root)
      /\ Heights(pos, kid, color, bh, p, sd)
  BY <1>0, <1>a, ShortFacts
<1>2. /\ Shape(q, pos, ext, kid, parent, root) /\ TreeTypeOK
      /\ thread \in Node /\ pos[thread] = 0
  BY <1>0 DEF TreeIs, Cursor
<1>3. /\ On(pos) \subseteq Node /\ Nil \notin On(pos) /\ Nil \notin Node
      /\ kid \in [Side -> [Node -> Link]] /\ color \in [Node -> {"RED", "BLACK"}]
  BY <1>2, ShapeTypes DEF TreeTypeOK
<1>4. /\ p \in Node /\ w \in Node /\ p \in Link /\ w \in Link /\ x \in Link /\ p # Nil
      /\ \A e \in Side : e = sd \/ e = o
  BY <1>a, <1>1, <1>3 DEF Link, Side, Other
<1>5. color[w] = "RED" /\ color[p] = "BLACK"
  BY <1>0, <1>1, <1>3, <1>4 DEF Red
<1>6. /\ color' \in [Node -> {"RED", "BLACK"}] /\ color'[w] = "BLACK" /\ color'[p] = "RED"
      /\ \A m \in Node : m # w /\ m # p => color'[m] = color[m]
  BY <1>0, <1>1, <1>3, <1>4
<1>7. at' \in Link /\ up' \in Link
  BY <1>0, <1>2 DEF TreeTypeOK
<1>8. /\ TreeTypeOK' /\ Shape(q, pos, TurnedSpans(pos, ext, sd, p, w), kid, parent, root)'
      /\ Sorted(q, key)' /\ Loose(pos)' /\ Cached(q)' /\ p # parent[p] /\ w # parent[p]
      /\ kid' = TurnedKids(kid, parent, sd, p)
      /\ \A m \in Node, e \in Side :
           kid'[e][m] = IF m = p /\ e = Other(sd) THEN kid[sd][w]
                        ELSE IF m = w /\ e = sd THEN p
                        ELSE IF m = parent[p] /\ kid[e][m] = p THEN w ELSE kid[e][m]
      /\ \A m \in Node :
           parent'[m] = IF m = p THEN w ELSE IF m = w THEN parent[p]
                        ELSE IF m = kid[sd][w] THEN p ELSE parent[m]
      /\ root' = IF p = root THEN w ELSE root
  BY <1>0, <1>1, <1>6, <1>7, <1>a, TurnFrame
<1>b. PICK in, far : in = kid[sd][w] /\ far = kid[o][w]
  OBVIOUS
<1> DEFINE bh2 == [m \in Link |-> IF m = w THEN bh[p] ELSE IF m = p THEN bh[w] ELSE bh[m]]
<1>9. bh \in [Link -> Nat] /\ bh[Nil] = 0
  BY <1>1 DEF Heights
<1>10. /\ bh2 \in [Link -> Nat] /\ bh2[Nil] = 0 /\ bh2[w] = bh[p] /\ bh2[p] = bh[w]
       /\ \A m \in Link : m # w /\ m # p => bh2[m] = bh[m]
  <2>1. \A m \in Link : bh2[m] = IF m = w THEN bh[p] ELSE IF m = p THEN bh[w] ELSE bh[m]
    OBVIOUS
  <2>2. \A m \in Link : (IF m = w THEN bh[p] ELSE IF m = p THEN bh[w] ELSE bh[m]) \in Nat
    BY <1>4, <1>9
  <2>3. bh2 \in [Link -> Nat]
    BY <2>2
  <2> QED
    BY <1>1, <1>4, <1>9, <2>1, <2>3 DEF Link
<1>11. in \in Link /\ far \in Link
  BY <1>1, <1>3, <1>4, <1>b
<1>12. in # p /\ in # w /\ far # p /\ far # w
  <2>1. in # Nil => parent[in] = w /\ in # w
    BY <1>1, <1>2, <1>b, LinkFacts
  <2>2. far # Nil => parent[far] = w /\ far # w
    BY <1>1, <1>2, <1>b, LinkFacts
  <2> QED
    BY <1>1, <1>4, <1>8, <2>1, <2>2
<1>13. bh[in] = bh[w] /\ bh[far] = bh[w] /\ bh[w] \in Nat /\ bh[p] = bh[w] + 1
  <2>1. HeightOK(kid, color, bh, p, sd, w, sd) /\ HeightOK(kid, color, bh, p, sd, w, o)
    BY <1>1 DEF Heights
  <2>2. bh[in] \in Nat /\ bh[far] \in Nat /\ bh[w] \in Nat
    BY <1>4, <1>9, <1>11
  <2> QED
    BY <1>1, <1>5, <1>b, <2>1, <2>2 DEF HeightOK
<1>14. /\ kid'[sd][p] = x /\ kid'[o][p] = in /\ kid'[sd][w] = p /\ kid'[o][w] = far
  BY <1>1, <1>4, <1>8, <1>a, <1>b
<1> HIDE DEF bh2
<1>15. \A e \in Side : /\ HeightOK(kid', color', bh2, p, sd, p, e)
                       /\ HeightOK(kid', color', bh2, p, sd, w, e)
  <2>1. bh2[in] = bh[w] /\ bh2[far] = bh[w] /\ bh2[x] = bh[x]
    BY <1>1, <1>4, <1>10, <1>11, <1>12, <1>13
  <2>2. bh2[p] = bh2[x] + 1 + 0 /\ bh2[p] = bh2[in] + 0 + 0
    BY <1>1, <1>10, <1>13, <2>1
  <2>3. bh2[w] = bh2[p] + 0 + 1 /\ bh2[w] = bh2[far] + 0 + 1
    BY <1>10, <1>13, <2>1
  <2>4. HeightOK(kid', color', bh2, p, sd, p, sd) /\ HeightOK(kid', color', bh2, p, sd, p, o)
    BY <1>1, <1>6, <1>14, <2>2 DEF HeightOK
  <2>5. HeightOK(kid', color', bh2, p, sd, w, sd) /\ HeightOK(kid', color', bh2, p, sd, w, o)
    BY <1>1, <1>6, <1>14, <2>3 DEF HeightOK
  <2> QED
    BY <1>4, <2>4, <2>5
<1>16. Heights(pos, kid', color', bh2, p, sd)
  <2>1. \A m \in On(pos) : m \notin {p, w, Nil} =>
           /\ bh2[m] = bh[m] /\ color'[m] = color[m]
           /\ \A e \in Side : (m = p /\ e = sd) <=> (m = p /\ e = sd)
    BY <1>3, <1>6, <1>10 DEF Link
  <2>2. Heights(pos, TurnedKids(kid, parent, sd, p), color', bh2, p, sd)
    <3>1. /\ sd \in Side /\ p \in On(pos) /\ w = kid[Other(sd)][p] /\ w # Nil
          /\ Heights(pos, kid, color, bh, p, sd) /\ Shape(q, pos, ext, kid, parent, root)
      BY <1>1, <1>2, <1>a
    <3>2. \A e \in Side : /\ HeightOK(TurnedKids(kid, parent, sd, p), color', bh2, p, sd, p, e)
                          /\ HeightOK(TurnedKids(kid, parent, sd, p), color', bh2, p, sd, w, e)
      BY <1>8, <1>15
    <3>3. bh2 \in [Link -> Nat] /\ bh2[Nil] = 0 /\ bh2[w] = bh[p]
      BY <1>10
    <3> QED
      BY <2>1, <3>1, <3>2, <3>3, TurnHeights
  <2> QED
    BY <1>8, <2>2
<1>17. Heights(pos, kid, color, bh2, Indebted, sd)'
  <2>1. Indebted' = p
    BY <1>0, <1>a DEF Indebted
  <2> QED
    BY <1>16, <2>1
<1>18. Calm(pos)'
  <2>1. ~Red(root)'
    BY <1>1, <1>2, <1>6, <1>8 DEF Red, TreeTypeOK, Link
  <2>2. ASSUME NEW m \in On(pos), Red(m)', (Red(parent[m]))' PROVE FALSE
    <3>0. /\ m \in Node /\ m # Nil /\ m # w /\ color'[m] = "RED" /\ parent'[m] # Nil
          /\ color'[parent'[m]] = "RED" /\ parent'[m] # w
      BY <1>3, <1>6, <2>2 DEF Red
    <3>1. m # p
      BY <1>8, <3>0
    <3>2. Red(m)
      BY <1>6, <3>0, <3>1 DEF Red
    <3>3. CASE m = in
      <4>1. parent[m] = w
        BY <1>1, <1>2, <1>b, <3>0, <3>3, LinkFacts
      <4> QED
        BY <1>0, <1>1, <3>2, <4>1
    <3>4. CASE m # in
      <4>1. parent'[m] = parent[m]
        BY <1>8, <1>b, <3>0, <3>1, <3>4
      <4>2. CASE parent[m] = p
        <5>1. \E e \in Side : kid[e][p] = m
          BY <1>1, <1>2, <1>3, <4>2, UpFacts
        <5>2. m = x \/ m = w
          BY <1>1, <1>4, <5>1
        <5> QED
          BY <1>1, <3>0, <3>2, <5>2
      <4>3. CASE parent[m] # p
        <5>1. parent[m] \in Node
          BY <1>2, <3>0, <4>1 DEF TreeTypeOK, Link
        <5>2. Red(parent[m])
          BY <1>6, <3>0, <4>1, <4>3, <5>1 DEF Red
        <5> QED
          BY <1>1, <3>2, <5>2
      <4> QED
        BY <4>2, <4>3
    <3> QED
      BY <3>3, <3>4
  <2> QED
    BY <1>0, <2>1, <2>2 DEF Calm
<1>19. Cursor(q, pos, TurnedSpans(pos, ext, sd, p, w), sd)'
  <2>1. root' # Nil /\ at' = x /\ up' = p /\ x # root'
    BY <1>0, <1>1, <1>8, <1>a
  <2>2. RemoveCursor(pos, sd)'
    BY <1>1, <1>14, <2>1 DEF RemoveCursor
  <2> QED
    BY <1>0, <1>2, <2>2 DEF Cursor
<1>20. TreeIs(q, pos, TurnedSpans(pos, ext, sd, p, w), bh2, sd)'
  BY <1>8, <1>17, <1>18, <1>19 DEF TreeIs
<1> QED
  BY <1>20

(* TurnNear: the near nephew takes the place of the sibling.               *)
LEMMA TurnNearStep ==
  ASSUME NEW q, NEW pos, NEW ext, NEW bh, NEW sd, TreeIs(q, pos, ext, bh, sd), TurnNear
  PROVE  \E ext2, bh2 : TreeIs(q, pos, ext2, bh2, sd)'
<1>a. PICK x, p, w, o, y, far : /\ x = at /\ p = up /\ w = Sibling /\ o = Other(sd)
                                /\ y = Near /\ far = Far
  OBVIOUS
<1>0. /\ pc = "remove_fixup" /\ Short /\ ~Red(w) /\ Red(y) /\ ~Red(far)
      /\ rb_rotate(Other(ShortSide), w)
      /\ color' = [color EXCEPT ![y] = "BLACK", ![w] = "RED"]
      /\ UNCHANGED <<leftmost, count, pc, thread, at, up>>
  BY <1>a DEF TurnNear, Short
<1>1. /\ root # Nil /\ x # root /\ x \in On(pos) \cup {Nil}
      /\ p \in On(pos) /\ sd \in Side /\ o \in Side /\ Other(o) = sd /\ sd # o
      /\ kid[sd][p] = x /\ ShortSide = sd
      /\ w # Nil /\ w \in On(pos) /\ w # x /\ parent[w] = p /\ w # p
      /\ \A n \in On(pos) : ~(Red(n) /\ Red(parent[n]))
      /\ ~Red(root)
      /\ Heights(pos, kid, color, bh, p, sd)
  BY <1>0, <1>a, ShortFacts
<1>2. /\ Shape(q, pos, ext, kid, parent, root) /\ TreeTypeOK
      /\ thread \in Node /\ pos[thread] = 0
  BY <1>0 DEF TreeIs, Cursor
<1>3. /\ On(pos) \subseteq Node /\ Nil \notin On(pos) /\ Nil \notin Node
      /\ kid \in [Side -> [Node -> Link]] /\ color \in [Node -> {"RED", "BLACK"}]
  BY <1>2, ShapeTypes DEF TreeTypeOK
<1>b. /\ y = kid[sd][w] /\ far = kid[o][w] /\ y # Nil
  BY <1>0, <1>1, <1>a DEF Near, Far, Red
<1>c. y \in On(pos) /\ parent[y] = w /\ y # w /\ w # root /\ y # root
  <2>1. y \in On(pos) /\ parent[y] = w /\ y # w /\ y # root
    BY <1>1, <1>2, <1>b, LinkFacts
  <2>2. w # root
    BY <1>1, <1>2, <1>3, UpFacts
  <2> QED
    BY <2>1, <2>2
<1>4. /\ p \in Node /\ w \in Node /\ y \in Node /\ y \in Link /\ w \in Link /\ far \in Link /\ p # Nil
      /\ \A e \in Side : e = sd \/ e = o
  BY <1>a, <1>b, <1>c, <1>1, <1>3 DEF Link, Side, Other
<1>5. color[y] = "RED" /\ color[w] = "BLACK"
  BY <1>0, <1>1, <1>3, <1>4 DEF Red
<1>6. /\ color' \in [Node -> {"RED", "BLACK"}] /\ color'[y] = "BLACK" /\ color'[w] = "RED"
      /\ \A m \in Node : m # w /\ m # y => color'[m] = color[m]
  BY <1>0, <1>c, <1>3, <1>4
<1>7. at' \in Link /\ up' \in Link
  BY <1>0, <1>2 DEF TreeTypeOK
<1>d. y = kid[Other(o)][w] /\ rb_rotate(o, w)
  BY <1>0, <1>1, <1>a, <1>b
<1>8. /\ TreeTypeOK' /\ Shape(q, pos, TurnedSpans(pos, ext, o, w, y), kid, parent, root)'
      /\ Sorted(q, key)' /\ Loose(pos)' /\ Cached(q)' /\ w # parent[w] /\ y # parent[w]
      /\ kid' = TurnedKids(kid, parent, o, w)
      /\ \A m \in Node, e \in Side :
           kid'[e][m] = IF m = w /\ e = Other(o) THEN kid[o][y]
                        ELSE IF m = y /\ e = o THEN w
                        ELSE IF m = parent[w] /\ kid[e][m] = w THEN y ELSE kid[e][m]
      /\ \A m \in Node :
           parent'[m] = IF m = w THEN y ELSE IF m = y THEN parent[w]
                        ELSE IF m = kid[o][y] THEN w ELSE parent[m]
      /\ root' = IF w = root THEN y ELSE root
  BY <1>0, <1>1, <1>6, <1>7, <1>b, <1>d, TurnFrame
<1>e. PICK in, out : in = kid[o][y] /\ out = kid[sd][y]
  OBVIOUS
<1> DEFINE bh2 == [m \in Link |-> IF m = y THEN bh[w] ELSE IF m = w THEN bh[y] ELSE bh[m]]
<1>9. bh \in [Link -> Nat] /\ bh[Nil] = 0
  BY <1>1 DEF Heights
<1>10. /\ bh2 \in [Link -> Nat] /\ bh2[Nil] = 0 /\ bh2[y] = bh[w] /\ bh2[w] = bh[y]
       /\ \A m \in Link : m # w /\ m # y => bh2[m] = bh[m]
  <2>1. \A m \in Link : bh2[m] = IF m = y THEN bh[w] ELSE IF m = w THEN bh[y] ELSE bh[m]
    OBVIOUS
  <2>2. \A m \in Link : (IF m = y THEN bh[w] ELSE IF m = w THEN bh[y] ELSE bh[m]) \in Nat
    BY <1>4, <1>9
  <2>3. bh2 \in [Link -> Nat]
    BY <2>2
  <2> QED
    BY <1>1, <1>b, <1>c, <1>4, <1>9, <2>1, <2>3 DEF Link
<1>11. in \in Link /\ out \in Link
  BY <1>1, <1>3, <1>4, <1>e
<1>12. in # w /\ in # y /\ out # w /\ out # y /\ far # w /\ far # y
  <2>1. in # Nil => parent[in] = y /\ in # y
    BY <1>1, <1>c, <1>2, <1>e, LinkFacts
  <2>2. out # Nil => parent[out] = y /\ out # y
    BY <1>1, <1>c, <1>2, <1>e, LinkFacts
  <2>3. far # Nil => far # w
    BY <1>1, <1>2, <1>b, LinkFacts
  <2>4. far # y
    BY <1>0, <1>b
  <2> QED
    BY <1>1, <1>b, <1>8, <2>1, <2>2, <2>3, <2>4
<1>13. /\ bh[in] = bh[y] /\ bh[out] = bh[y] /\ bh[far] = bh[y] /\ bh[y] \in Nat
       /\ bh[w] = bh[y] + 1
  <2>1. HeightOK(kid, color, bh, p, sd, w, sd) /\ HeightOK(kid, color, bh, p, sd, w, o)
    BY <1>1 DEF Heights
  <2>2. HeightOK(kid, color, bh, p, sd, y, sd) /\ HeightOK(kid, color, bh, p, sd, y, o)
    BY <1>1, <1>c DEF Heights
  <2>3. bh[in] \in Nat /\ bh[out] \in Nat /\ bh[far] \in Nat /\ bh[w] \in Nat /\ bh[y] \in Nat
    BY <1>4, <1>9, <1>11
  <2>4. bh[w] = bh[y] + 1 /\ bh[w] = bh[far] + 1
    BY <1>1, <1>5, <1>b, <2>1, <2>3 DEF HeightOK
  <2>5. y # p
    BY <1>1, <1>8
  <2>6. bh[y] = bh[in] /\ bh[y] = bh[out]
    BY <1>5, <1>e, <2>2, <2>3, <2>5 DEF HeightOK
  <2> QED
    BY <2>3, <2>4, <2>6
<1>14. /\ kid'[sd][w] = in /\ kid'[o][w] = far /\ kid'[o][y] = w /\ kid'[sd][y] = out
       /\ kid'[sd][p] = x
  <2>1. kid'[sd][w] = in /\ kid'[o][w] = far
    BY <1>1, <1>c, <1>4, <1>8, <1>b, <1>e
  <2>2. kid'[o][y] = w /\ kid'[sd][y] = out
    BY <1>1, <1>c, <1>4, <1>8, <1>b, <1>e
  <2>3. kid'[sd][p] = x
    BY <1>1, <1>4, <1>8
  <2> QED
    BY <2>1, <2>2, <2>3
<1> HIDE DEF bh2
<1>15. \A e \in Side : /\ HeightOK(kid', color', bh2, p, sd, w, e)
                       /\ HeightOK(kid', color', bh2, p, sd, y, e)
  <2>1. bh2[in] = bh[y] /\ bh2[out] = bh[y] /\ bh2[far] = bh[y]
    BY <1>4, <1>10, <1>11, <1>12, <1>13
  <2>2. bh2[w] = bh2[in] + 0 + 0 /\ bh2[w] = bh2[far] + 0 + 0
    BY <1>10, <1>13, <2>1
  <2>3. bh2[y] = bh2[w] + 0 + 1 /\ bh2[y] = bh2[out] + 0 + 1
    BY <1>10, <1>13, <2>1
  <2>4. HeightOK(kid', color', bh2, p, sd, w, sd) /\ HeightOK(kid', color', bh2, p, sd, w, o)
    BY <1>1, <1>6, <1>14, <2>2 DEF HeightOK
  <2>5. y # p
    BY <1>1, <1>8
  <2>6. HeightOK(kid', color', bh2, p, sd, y, sd) /\ HeightOK(kid', color', bh2, p, sd, y, o)
    BY <1>6, <1>14, <2>3, <2>5 DEF HeightOK
  <2> QED
    BY <1>4, <2>4, <2>6
<1>16. Heights(pos, kid', color', bh2, p, sd)
  <2>1. \A m \in On(pos) : m \notin {w, y, Nil} =>
           /\ bh2[m] = bh[m] /\ color'[m] = color[m]
           /\ \A e \in Side : (m = p /\ e = sd) <=> (m = p /\ e = sd)
    BY <1>3, <1>6, <1>10 DEF Link
  <2>3. \A e \in Side :
          /\ HeightOK(TurnedKids(kid, parent, o, w), color', bh2, p, sd, w, e)
          /\ HeightOK(TurnedKids(kid, parent, o, w), color', bh2, p, sd, y, e)
    BY <1>8, <1>15
  <2>4. /\ Heights(pos, kid, color, bh, p, sd) /\ o \in Side /\ w \in On(pos)
        /\ y = kid[Other(o)][w] /\ y # Nil
    BY <1>1, <1>b, <1>d
  <2>5. bh2 \in [Link -> Nat] /\ bh2[Nil] = 0 /\ bh2[y] = bh[w]
    BY <1>10
  <2>2. Heights(pos, TurnedKids(kid, parent, o, w), color', bh2, p, sd)
    BY <1>2, <2>1, <2>3, <2>4, <2>5, TurnHeights
  <2> QED
    BY <1>8, <2>2
<1>17. Heights(pos, kid, color, bh2, Indebted, sd)'
  <2>1. Indebted' = p
    BY <1>0, <1>a DEF Indebted
  <2> QED
    BY <1>16, <2>1
<1>18. Calm(pos)'
  <2>1. ~Red(root)'
    BY <1>1, <1>c, <1>2, <1>6, <1>8 DEF Red, TreeTypeOK, Link
  <2>2. ASSUME NEW m \in On(pos), Red(m)', (Red(parent[m]))' PROVE FALSE
    <3>0. /\ m \in Node /\ m # Nil /\ m # y /\ color'[m] = "RED" /\ parent'[m] # Nil
          /\ color'[parent'[m]] = "RED" /\ parent'[m] # y
      BY <1>3, <1>6, <2>2 DEF Red
    <3>1. m # w
      BY <1>8, <3>0
    <3>2. Red(m)
      BY <1>6, <3>0, <3>1 DEF Red
    <3>3. CASE m = in
      <4>1. parent[m] = y
        BY <1>1, <1>c, <1>2, <1>e, <3>0, <3>3, LinkFacts
      <4> QED
        BY <1>0, <1>1, <3>2, <4>1
    <3>4. CASE m # in
      <4>1. parent'[m] = parent[m]
        BY <1>8, <1>e, <3>0, <3>1, <3>4
      <4>2. CASE parent[m] = w
        <5>1. \E e \in Side : kid[e][w] = m
          BY <1>1, <1>2, <1>3, <4>2, UpFacts
        <5>2. m = y \/ m = far
          BY <1>1, <1>b, <1>4, <5>1
        <5> QED
          BY <1>0, <3>0, <3>2, <5>2
      <4>3. CASE parent[m] # w
        <5>1. parent[m] \in Node
          BY <1>2, <3>0, <4>1 DEF TreeTypeOK, Link
        <5>2. Red(parent[m])
          BY <1>6, <3>0, <4>1, <4>3, <5>1 DEF Red
        <5> QED
          BY <1>1, <3>2, <5>2
      <4> QED
        BY <4>2, <4>3
    <3> QED
      BY <3>3, <3>4
  <2> QED
    BY <1>0, <2>1, <2>2 DEF Calm
<1>19. Cursor(q, pos, TurnedSpans(pos, ext, o, w, y), sd)'
  <2>1. root' # Nil /\ at' = x /\ up' = p /\ x # root'
    BY <1>0, <1>1, <1>c, <1>8, <1>a
  <2>2. RemoveCursor(pos, sd)'
    BY <1>1, <1>14, <2>1 DEF RemoveCursor
  <2> QED
    BY <1>0, <1>2, <2>2 DEF Cursor
<1>20. TreeIs(q, pos, TurnedSpans(pos, ext, o, w, y), bh2, sd)'
  BY <1>8, <1>17, <1>18, <1>19 DEF TreeIs
<1> QED
  BY <1>20

(* TurnFar: the sibling takes the place and the colour of up, and at gets  *)
(* the black node it was short of.                                         *)
LEMMA TurnFarStep ==
  ASSUME NEW q, NEW pos, NEW ext, NEW bh, NEW sd, TreeIs(q, pos, ext, bh, sd), TurnFar
  PROVE  \E ext2, bh2 : TreeIs(q, pos, ext2, bh2, sd)'
<1>a. PICK x, p, w, o, near, f : /\ x = at /\ p = up /\ w = Sibling /\ o = Other(sd)
                                 /\ near = Near /\ f = Far
  OBVIOUS
<1>0. /\ pc = "remove_fixup" /\ Short /\ ~Red(w) /\ Red(f) /\ rb_rotate(ShortSide, p)
      /\ color' = [color EXCEPT ![w] = color[p], ![p] = "BLACK", ![f] = "BLACK"]
      /\ at' = root' /\ up' = Nil
      /\ UNCHANGED <<leftmost, count, pc, thread>>
  BY <1>a DEF TurnFar, Short
<1>1. /\ root # Nil /\ x # root /\ x \in On(pos) \cup {Nil}
      /\ p \in On(pos) /\ sd \in Side /\ o \in Side /\ Other(o) = sd /\ sd # o
      /\ kid[sd][p] = x /\ ShortSide = sd /\ w = kid[o][p]
      /\ w # Nil /\ w \in On(pos) /\ w # x /\ parent[w] = p
      /\ w # p /\ x # p /\ bh[x] \in Nat /\ bh[w] = bh[x] + 1
      /\ bh[p] = bh[w] + (IF color[p] = "RED" THEN 0 ELSE 1)
      /\ \A n \in On(pos) : ~(Red(n) /\ Red(parent[n]))
      /\ Heights(pos, kid, color, bh, p, sd)
  BY <1>0, <1>a, ShortFacts
<1>2. /\ Shape(q, pos, ext, kid, parent, root) /\ TreeTypeOK
      /\ thread \in Node /\ pos[thread] = 0
  BY <1>0 DEF TreeIs, Cursor
<1>3. /\ On(pos) \subseteq Node /\ Nil \notin On(pos) /\ Nil \notin Node
      /\ kid \in [Side -> [Node -> Link]] /\ color \in [Node -> {"RED", "BLACK"}]
  BY <1>2, ShapeTypes DEF TreeTypeOK
<1>b. near = kid[sd][w] /\ f = kid[o][w] /\ f # Nil
  BY <1>0, <1>1, <1>a DEF Near, Far, Red
<1>c. f \in On(pos) /\ parent[f] = w /\ f # w /\ kid[sd][w] # f /\ near # f /\ f # p
  <2>1. f \in On(pos) /\ parent[f] = w /\ f # w /\ kid[sd][w] # f
    BY <1>1, <1>2, <1>b, LinkFacts
  <2>2. parent[p] # w
    BY <1>1, <1>2, <1>a, TurnFacts
  <2> QED
    BY <1>b, <2>1, <2>2
<1>4. /\ p \in Node /\ w \in Node /\ f \in Node /\ p \in Link /\ w \in Link /\ f \in Link
      /\ x \in Link /\ near \in Link /\ p # Nil /\ Nil \in Link
      /\ \A e \in Side : e = sd \/ e = o
  BY <1>a, <1>b, <1>c, <1>1, <1>3 DEF Link, Side, Other
<1>5. color[f] = "RED" /\ color[w] = "BLACK"
  BY <1>0, <1>1, <1>3, <1>4 DEF Red
<1>6. /\ color' \in [Node -> {"RED", "BLACK"}]
      /\ color'[w] = color[p] /\ color'[p] = "BLACK" /\ color'[f] = "BLACK"
      /\ \A m \in Node : m # w /\ m # p /\ m # f => color'[m] = color[m]
  BY <1>0, <1>1, <1>c, <1>3, <1>4
<1>7. root' \in {root, w} /\ at' \in Link /\ up' \in Link
  BY <1>0, <1>1, <1>2, <1>4, <1>a DEF TreeTypeOK, rb_rotate, Top
<1>8. /\ TreeTypeOK' /\ Shape(q, pos, TurnedSpans(pos, ext, sd, p, w), kid, parent, root)'
      /\ Sorted(q, key)' /\ Loose(pos)' /\ Cached(q)' /\ p # parent[p] /\ w # parent[p]
      /\ kid' = TurnedKids(kid, parent, sd, p)
      /\ \A m \in Node, e \in Side :
           kid'[e][m] = IF m = p /\ e = Other(sd) THEN kid[sd][w]
                        ELSE IF m = w /\ e = sd THEN p
                        ELSE IF m = parent[p] /\ kid[e][m] = p THEN w ELSE kid[e][m]
      /\ \A m \in Node :
           parent'[m] = IF m = p THEN w ELSE IF m = w THEN parent[p]
                        ELSE IF m = kid[sd][w] THEN p ELSE parent[m]
      /\ root' = IF p = root THEN w ELSE root
  BY <1>0, <1>1, <1>6, <1>7, <1>a, TurnFrame
<1> DEFINE bh2 == [m \in Link |-> IF m = w THEN bh[p] ELSE IF m = p \/ m = f THEN bh[w] ELSE bh[m]]
<1>9. bh \in [Link -> Nat] /\ bh[Nil] = 0
  BY <1>1 DEF Heights
<1>10. /\ bh2 \in [Link -> Nat] /\ bh2[Nil] = 0
       /\ bh2[w] = bh[p] /\ bh2[p] = bh[w] /\ bh2[f] = bh[w]
       /\ \A m \in Link : m # w /\ m # p /\ m # f => bh2[m] = bh[m]
  <2>1. \A m \in Link : bh2[m] = IF m = w THEN bh[p] ELSE IF m = p \/ m = f THEN bh[w] ELSE bh[m]
    OBVIOUS
  <2>2. \A m \in Link : (IF m = w THEN bh[p] ELSE IF m = p \/ m = f THEN bh[w] ELSE bh[m]) \in Nat
    BY <1>4, <1>9
  <2>3. bh2 \in [Link -> Nat]
    BY <2>2
  <2> QED
    BY <1>1, <1>b, <1>c, <1>4, <1>9, <2>1, <2>3
<1>11. near # p /\ near # w /\ x # f
  <2>1. near # Nil => parent[near] = w /\ near # w
    BY <1>1, <1>2, <1>b, LinkFacts
  <2>2. x # Nil => parent[x] = p
    BY <1>1, <1>2, LinkFacts
  <2> QED
    BY <1>1, <1>b, <1>c, <1>4, <1>8, <2>1, <2>2
<1>12. \A e \in Side : kid[e][f] \in Link /\ kid[e][f] # p /\ kid[e][f] # w /\ kid[e][f] # f
  <2> SUFFICES ASSUME NEW e \in Side
               PROVE  kid[e][f] \in Link /\ kid[e][f] # p /\ kid[e][f] # w /\ kid[e][f] # f
    OBVIOUS
  <2>0. kid[e][f] \in Link
    BY <1>3, <1>4
  <2>1. kid[e][f] # Nil => /\ parent[kid[e][f]] = f /\ kid[e][f] # f
                           /\ pos[f] < ext["L"][kid[e][f]] \/ ext["R"][kid[e][f]] < pos[f]
    BY <1>2, <1>c, LinkFacts
  <2>2. kid[e][f] # w
    BY <1>1, <1>c, <1>3, <2>1
  <2>3. kid[e][f] # p
    <3> SUFFICES ASSUME kid[e][f] = p PROVE FALSE
      OBVIOUS
    <3>1. pos[f] < ext["L"][p] \/ ext["R"][p] < pos[f]
      BY <1>4, <2>1
    <3>2. ext[o][w] = ext[o][p] /\ ext[sd][w] = pos[p] + Sign(o)
      BY <1>1, <1>2, LinkFacts
    <3>3. ext["L"][w] <= pos[f] /\ pos[f] <= ext["R"][w]
      BY <1>1, <1>2, <1>b, LinkFacts
    <3>4. /\ ext["L"][p] \in Int /\ ext["R"][p] \in Int /\ pos[p] \in Int /\ pos[f] \in Int
          /\ ext["L"][w] \in Int /\ ext["R"][w] \in Int
          /\ ext["L"][p] <= pos[p] /\ pos[p] <= ext["R"][p]
      BY <1>1, <1>2, <1>c, KidSpans
    <3>5. ext["L"][p] <= ext["L"][w] /\ ext["R"][w] <= ext["R"][p]
      BY <1>1, <1>a, <3>2, <3>4 DEF Side, Other, Sign
    <3> QED
      BY <3>1, <3>3, <3>4, <3>5
  <2> QED
    BY <2>0, <2>1, <2>2, <2>3, <1>c, <1>3
<1>13. /\ bh[w] = bh[near] + 1 /\ bh[w] = bh[f] + 1 /\ bh[w] \in Nat /\ bh[f] \in Nat
       /\ bh[near] \in Nat /\ \A e \in Side : bh[f] = bh[kid[e][f]]
  <2>1. HeightOK(kid, color, bh, p, sd, w, sd) /\ HeightOK(kid, color, bh, p, sd, w, o)
    BY <1>1 DEF Heights
  <2>2. bh[near] \in Nat /\ bh[f] \in Nat /\ bh[w] \in Nat
    BY <1>4, <1>9
  <2>3. bh[w] = bh[near] + 1 /\ bh[w] = bh[f] + 1
    BY <1>1, <1>5, <1>b, <2>1, <2>2 DEF HeightOK
  <2>4. ASSUME NEW e \in Side PROVE bh[f] = bh[kid[e][f]]
    <3>1. HeightOK(kid, color, bh, p, sd, f, e)
      BY <1>1, <1>c DEF Heights
    <3>2. bh[kid[e][f]] \in Nat
      BY <1>9, <1>12
    <3> QED
      BY <1>5, <1>c, <3>1, <3>2 DEF HeightOK
  <2> QED
    BY <2>2, <2>3, <2>4
<1>14. /\ kid'[sd][p] = x /\ kid'[o][p] = near /\ kid'[sd][w] = p /\ kid'[o][w] = f
  BY <1>1, <1>4, <1>8, <1>a, <1>b
<1>d. \A e \in Side : bh2[kid'[e][f]] = bh[f]
  <2> SUFFICES ASSUME NEW e \in Side PROVE bh2[kid'[e][f]] = bh[f]
    OBVIOUS
  <2>1. kid'[e][f] = kid[e][f]
    BY <1>8, <1>c, <1>4, <1>12
  <2>2. bh2[kid[e][f]] = bh[kid[e][f]]
    BY <1>10, <1>12
  <2> QED
    BY <1>13, <2>1, <2>2
<1> HIDE DEF bh2
<1>15. \A e \in Side : /\ HeightOK(kid', color', bh2, Nil, sd, p, e)
                       /\ HeightOK(kid', color', bh2, Nil, sd, w, e)
                       /\ HeightOK(kid', color', bh2, Nil, sd, f, e)
  <2>1. bh2[near] = bh[near] /\ bh2[x] = bh[x]
    BY <1>1, <1>c, <1>4, <1>10, <1>11
  <2>2. bh2[p] = bh2[x] + 0 + 1 /\ bh2[p] = bh2[near] + 0 + 1
    BY <1>1, <1>10, <1>13, <2>1
  <2>3. /\ bh2[w] = bh2[p] + 0 + (IF color'[w] = "RED" THEN 0 ELSE 1)
        /\ bh2[w] = bh2[f] + 0 + (IF color'[w] = "RED" THEN 0 ELSE 1)
    BY <1>1, <1>6, <1>10, <1>13
  <2>4. \A e \in Side : bh2[f] = bh2[kid'[e][f]] + 0 + 1
    BY <1>10, <1>13, <1>d
  <2>5. HeightOK(kid', color', bh2, Nil, sd, p, sd) /\ HeightOK(kid', color', bh2, Nil, sd, p, o)
    BY <1>4, <1>6, <1>14, <2>2 DEF HeightOK
  <2>6. HeightOK(kid', color', bh2, Nil, sd, w, sd) /\ HeightOK(kid', color', bh2, Nil, sd, w, o)
    BY <1>1, <1>14, <2>3 DEF HeightOK
  <2>7. \A e \in Side : HeightOK(kid', color', bh2, Nil, sd, f, e)
    BY <1>6, <1>b, <2>4 DEF HeightOK
  <2> QED
    BY <1>4, <2>5, <2>6, <2>7
<1>16. Heights(pos, kid', color', bh2, Nil, sd)
  <2>1. \A m \in On(pos) : m \notin {p, w, f} =>
           /\ bh2[m] = bh[m] /\ color'[m] = color[m]
           /\ \A e \in Side : (m = Nil /\ e = sd) <=> (m = p /\ e = sd)
    BY <1>3, <1>6, <1>10 DEF Link
  <2>2. f = kid[Other(sd)][w] /\ w = kid[Other(sd)][p]
    BY <1>1, <1>a, <1>b
  <2>3. \A e \in Side :
          /\ HeightOK(TurnedKids(kid, parent, sd, p), color', bh2, Nil, sd, p, e)
          /\ HeightOK(TurnedKids(kid, parent, sd, p), color', bh2, Nil, sd, w, e)
          /\ f # Nil => HeightOK(TurnedKids(kid, parent, sd, p), color', bh2, Nil, sd, f, e)
    BY <1>8, <1>15
  <2>4. Heights(pos, kid, color, bh, p, sd) /\ sd \in Side /\ p \in On(pos) /\ w # Nil
    BY <1>1
  <2>5. bh2 \in [Link -> Nat] /\ bh2[Nil] = 0 /\ bh2[w] = bh[p]
    BY <1>10
  <2>6. Heights(pos, TurnedKids(kid, parent, sd, p), color', bh2, Nil, sd)
    BY <1>2, <2>1, <2>2, <2>3, <2>4, <2>5, TurnHeights
  <2> QED
    BY <1>8, <2>6
<1>17. Heights(pos, kid, color, bh2, Indebted, sd)'
  <2>1. Indebted' = Nil
    BY <1>0 DEF Indebted
  <2> QED
    BY <1>16, <2>1
<1>18. Calm(pos)'
  <2>2. ASSUME NEW m \in On(pos), Red(m)', (Red(parent[m]))' PROVE FALSE
    <3>0. /\ m \in Node /\ m # Nil /\ m # p /\ m # f /\ color'[m] = "RED" /\ parent'[m] # Nil
          /\ color'[parent'[m]] = "RED" /\ parent'[m] # p /\ parent'[m] # f
      BY <1>3, <1>6, <2>2 DEF Red
    <3>1. CASE m = w
      <4>1. Red(p) /\ parent'[m] = parent[p]
        BY <1>4, <1>6, <1>8, <3>0, <3>1, <1>1 DEF Red
      <4>2. parent[p] \in Node
        BY <1>2, <1>4, <3>0, <4>1 DEF TreeTypeOK, Link
      <4>3. Red(parent[p])
        BY <1>6, <1>8, <3>0, <4>1, <4>2 DEF Red
      <4> QED
        BY <1>1, <4>1, <4>3
    <3>2. CASE m # w
      <4>0. Red(m)
        BY <1>6, <3>0, <3>2 DEF Red
      <4>1. m # near
        BY <1>8, <1>b, <3>0, <3>2
      <4>2. parent'[m] = parent[m]
        BY <1>8, <1>b, <3>0, <3>2, <4>1
      <4>3. parent[m] # w
        <5> SUFFICES ASSUME parent[m] = w PROVE FALSE
          OBVIOUS
        <5>1. \E e \in Side : kid[e][w] = m
          BY <1>1, <1>2, <1>3, UpFacts
        <5> QED
          BY <1>4, <1>b, <3>0, <4>1, <5>1
      <4>4. parent[m] \in Node
        BY <1>2, <3>0, <4>2 DEF TreeTypeOK, Link
      <4>5. Red(parent[m])
        BY <1>6, <3>0, <4>2, <4>3, <4>4 DEF Red
      <4> QED
        BY <1>1, <4>0, <4>5
    <3> QED
      BY <3>1, <3>2
  <2> QED
    BY <1>0, <2>2 DEF Calm
<1>19. Cursor(q, pos, TurnedSpans(pos, ext, sd, p, w), sd)'
  <2>1. root' # Nil /\ root' \in On(pos)
    <3>1. root \in On(pos)
      BY <1>1, <1>2 DEF Shape, RootOK
    <3> QED
      BY <1>1, <1>3, <1>8, <3>1
  <2>2. RemoveCursor(pos, sd)'
    BY <1>0, <1>1, <2>1 DEF RemoveCursor
  <2> QED
    BY <1>0, <1>2, <2>2 DEF Cursor
<1>20. TreeIs(q, pos, TurnedSpans(pos, ext, sd, p, w), bh2, sd)'
  BY <1>8, <1>17, <1>18, <1>19 DEF TreeIs
<1> QED
  BY <1>20

(* Where RunOrder inserts a thread: behind the first k places, when those  *)
(* are the ones whose keys are not above its own.                          *)
LEMMA InsertIs ==
  ASSUME NEW q \in Seq(Node), NEW t \in Node, NEW k \in 0 .. Len(q),
         \A i \in 1 .. Len(q) : i <= k => key[q[i]] <= key[t],
         \A i \in 1 .. Len(q) : i > k => key[t] < key[q[i]]
  PROVE  LET s == Contract!InsertBy(q, t, key) IN
         /\ s \in Seq(Node) /\ Len(s) = Len(q) + 1
         /\ \A i \in 1 .. k : s[i] = q[i]
         /\ s[k + 1] = t
         /\ \A i \in k + 1 .. Len(q) : s[i + 1] = q[i]
<1> DEFINE B == {0} \cup {i \in DOMAIN q : key[q[i]] <= key[t]}
           K == Contract!Max(B)
<1>1. /\ Len(q) \in Nat /\ DOMAIN q = 1 .. Len(q) /\ key[t] \in Nat
      /\ \A i \in 1 .. Len(q) : q[i] \in Node /\ key[q[i]] \in Nat
  BY RBTreeAssumption
<1>2. B = 0 .. k
  <2>1. ASSUME NEW i \in B PROVE i \in 0 .. k
    BY <1>1
  <2>2. ASSUME NEW i \in 0 .. k PROVE i \in B
    BY <1>1
  <2> QED
    BY <2>1, <2>2
<1>3. K = k
  <2>1. K = CHOOSE x \in B : \A y \in B : x >= y
    BY Zenon DEF Contract!Max
  <2>2. \A x \in 0 .. k : (\A y \in 0 .. k : x >= y) <=> x = k
    OBVIOUS
  <2>3. k \in 0 .. k
    OBVIOUS
  <2> HIDE DEF K, B
  <2>4. \E x \in B : \A y \in B : x >= y
    BY <1>2, <2>2, <2>3
  <2>5. K \in B /\ \A y \in B : K >= y
    BY <2>1, <2>4
  <2> QED
    BY <1>2, <2>2, <2>5
<1>4. Contract!InsertBy(q, t, key) = Append(SubSeq(q, 1, K), t) \o SubSeq(q, K + 1, Len(q))
  BY Zenon DEF Contract!InsertBy
<1> HIDE DEF K
<1>5. PICK s : s = Contract!InsertBy(q, t, key)
  OBVIOUS
<1>6. s = Splice(q, t, k)
  BY <1>3, <1>4, <1>5 DEF Splice
<1>7. s \in Seq(Node)
  BY <1>6, SpliceFacts
<1>8. Len(s) = Len(q) + 1 /\ s[k + 1] = t
  <2>1. Len(Splice(q, t, k)) = Len(q) + 1 /\ Splice(q, t, k)[k + 1] = t
    BY SpliceFacts
  <2> QED
    BY <1>6, <2>1
<1>9. \A i \in 1 .. k : s[i] = q[i]
  BY <1>6, SpliceFacts
<1>10. \A i \in k + 1 .. Len(q) : s[i + 1] = q[i]
  <2>1. \A i \in k + 1 .. Len(q) : Splice(q, t, k)[i + 1] = q[i]
    BY SpliceFacts
  <2> QED
    BY <1>6, <2>1
<1> QED
  BY <1>5, <1>7, <1>8, <1>9, <1>10

(* What RunOrder leaves of a list without its k-th member.                 *)
LEMMA WithoutIs ==
  ASSUME NEW q \in Seq(Node), NEW k \in 1 .. Len(q),
         \A i \in 1 .. Len(q) : q[i] = q[k] => i = k
  PROVE  LET s == Contract!Without(q, q[k]) IN
         /\ s \in Seq(Node) /\ Len(s) = Len(q) - 1
         /\ \A i \in 1 .. Len(q) - 1 : s[i] = IF i < k THEN q[i] ELSE q[i + 1]
<1> DEFINE K == CHOOSE i \in DOMAIN q : q[i] = q[k]
           e == SubSeq(q, 1, k - 1) \o SubSeq(q, k + 1, Len(q))
<1>1. DOMAIN q = 1 .. Len(q)
  OBVIOUS
<1>2. K = k
  BY <1>1
<1>3. q[k] \in Contract!Range(q)
  BY <1>1 DEF Contract!Range
<1>4. Contract!Without(q, q[k]) = SubSeq(q, 1, K - 1) \o SubSeq(q, K + 1, Len(q))
  BY <1>3, Zenon DEF Contract!Without
<1>5. Contract!Without(q, q[k]) = e
  BY <1>2, <1>4
<1>6. /\ e \in Seq(Node) /\ Len(e) = Len(q) - 1
      /\ \A i \in 1 .. Len(q) - 1 : e[i] = IF i < k THEN q[i] ELSE q[i + 1]
  BY UnlinkFacts, Zenon
<1> HIDE DEF e
<1> QED
  BY <1>5, <1>6

(* The places and the spans after t has been put at place k + 1, below the *)
(* node at place s: k is s or s - 1.                                       *)
GrownPlaces(pos, t, k) ==
  [m \in Node |-> IF m = t THEN k + 1 ELSE IF pos[m] > k THEN pos[m] + 1 ELSE pos[m]]

(* The spans: those that end at s or hold it grow by one place.            *)
GrownSpans(ext, t, k, s) ==
  [e \in Side |-> [m \in Node |->
     IF m = t THEN k + 1
     ELSE IF e = "L" THEN (IF ext[e][m] > s THEN ext[e][m] + 1 ELSE ext[e][m])
     ELSE (IF ext[e][m] >= s THEN ext[e][m] + 1 ELSE ext[e][m])]]

(* A list with t at place k + 1.                                           *)
Grown(q, q2, t, k) ==
  /\ q2 \in Seq(Node) /\ Len(q2) = Len(q) + 1 /\ k \in 0 .. Len(q)
  /\ \A i \in 1 .. k : q2[i] = q[i]
  /\ q2[k + 1] = t
  /\ \A i \in k + 1 .. Len(q) : q2[i + 1] = q[i]

(* Its places.                                                             *)
LEMMA GrowPlaces ==
  ASSUME NEW q, NEW pos, Places(q, pos), NEW t \in Node, pos[t] = 0,
         NEW q2, NEW k, Grown(q, q2, t, k)
  PROVE  LET pos2 == GrownPlaces(pos, t, k) IN
         /\ Places(q2, pos2) /\ On(pos2) = On(pos) \cup {t} /\ pos2[t] = k + 1
         /\ \A m \in Node : m # t => pos2[m] = IF pos[m] > k THEN pos[m] + 1 ELSE pos[m]
<1> DEFINE pos2 == GrownPlaces(pos, t, k)
<1>1. /\ q \in Seq(Node) /\ pos \in [Node -> Nat] /\ Len(q) \in Nat
      /\ \A n \in On(pos) : pos[n] \in 1 .. Len(q) /\ q[pos[n]] = n
      /\ \A i \in 1 .. Len(q) : pos[q[i]] = i
  BY DEF Places
<1>2. /\ q2 \in Seq(Node) /\ Len(q2) = Len(q) + 1 /\ k \in 0 .. Len(q)
      /\ \A i \in 1 .. k : q2[i] = q[i]
      /\ q2[k + 1] = t
      /\ \A i \in k + 1 .. Len(q) : q2[i + 1] = q[i]
  BY DEF Grown
<1>3. /\ pos2[t] = k + 1
      /\ \A m \in Node : m # t => pos2[m] = IF pos[m] > k THEN pos[m] + 1 ELSE pos[m]
  BY DEF GrownPlaces
<1>4. pos2 \in [Node -> Nat]
  <2>1. \A m \in Node : (IF m = t THEN k + 1 ELSE IF pos[m] > k THEN pos[m] + 1 ELSE pos[m]) \in Nat
    BY <1>1, <1>2
  <2> QED
    BY <2>1 DEF GrownPlaces
<1> HIDE DEF pos2
<1>5. On(pos2) = On(pos) \cup {t}
  <2>1. ASSUME NEW m \in Node PROVE pos2[m] # 0 <=> pos[m] # 0 \/ m = t
    <3>1. pos[m] \in Nat
      BY <1>1
    <3> QED
      BY <1>2, <1>3, <3>1
  <2> QED
    BY <2>1 DEF On
<1>6. ASSUME NEW m \in On(pos2) PROVE pos2[m] \in 1 .. Len(q2) /\ q2[pos2[m]] = m
  <2>1. CASE m = t
    BY <1>1, <1>2, <1>3, <2>1
  <2>2. CASE m # t
    <3>1. m \in On(pos) /\ m \in Node
      BY <1>5, <2>2 DEF On
    <3>2. pos[m] \in 1 .. Len(q) /\ q[pos[m]] = m
      BY <1>1, <3>1
    <3>3. CASE pos[m] > k
      <4>1. pos[m] \in k + 1 .. Len(q) /\ pos2[m] = pos[m] + 1
        BY <1>2, <1>3, <2>2, <3>1, <3>2, <3>3
      <4>2. q2[pos[m] + 1] = q[pos[m]]
        BY <1>2, <4>1
      <4>3. pos[m] + 1 \in 1 .. Len(q) + 1
        BY <1>1, <3>2
      <4> QED
        BY <1>2, <3>2, <4>1, <4>2, <4>3
    <3>4. CASE ~(pos[m] > k)
      <4>1. pos[m] \in 1 .. k /\ pos2[m] = pos[m]
        BY <1>2, <1>3, <2>2, <3>1, <3>2, <3>4
      <4> QED
        BY <1>1, <1>2, <3>2, <4>1
    <3> QED
      BY <3>3, <3>4
  <2> QED
    BY <2>1, <2>2
<1>7. ASSUME NEW i \in 1 .. Len(q2) PROVE pos2[q2[i]] = i
  <2>0. i \in 1 .. k \/ i = k + 1 \/ (i - 1 \in k + 1 .. Len(q) /\ (i - 1) + 1 = i)
    BY <1>1, <1>2
  <2>1. \A j \in 1 .. Len(q) : q[j] # t /\ q[j] \in Node /\ pos[q[j]] = j
    BY <1>1
  <2>2. CASE i \in 1 .. k
    <3>1. q2[i] = q[i] /\ i \in 1 .. Len(q) /\ ~(i > k)
      <4>1. q2[i] = q[i]
        BY <1>2, <2>2
      <4>2. k \in 0 .. Len(q) /\ Len(q) \in Nat
        BY <1>1, <1>2
      <4> QED
        BY <2>2, <4>1, <4>2
    <3> QED
      BY <1>3, <2>1, <3>1
  <2>3. CASE i = k + 1
    BY <1>2, <1>3, <2>3
  <2>4. CASE i - 1 \in k + 1 .. Len(q) /\ (i - 1) + 1 = i
    <3>0. k \in Nat /\ Len(q) \in Nat
      BY <1>1, <1>2
    <3>a. q2[(i - 1) + 1] = q[i - 1]
      BY <1>2, <2>4
    <3>1. q2[i] = q[i - 1] /\ i - 1 \in 1 .. Len(q) /\ i - 1 > k
      BY <3>0, <3>a, <2>4
    <3> QED
      BY <1>3, <2>1, <2>4, <3>1
  <2> QED
    BY <2>0, <2>2, <2>3, <2>4
<1>8. Places(q2, pos2)
  BY <1>2, <1>4, <1>6, <1>7 DEF Places
<1> QED
  BY <1>3, <1>5, <1>8 DEF pos2

(* A new leaf t below n, on a side where n had no child.                   *)
LEMMA GrowShape ==
  ASSUME NEW q, NEW pos, NEW ext, NEW kd, NEW par, NEW rt,
         Shape(q, pos, ext, kd, par, rt),
         NEW t \in Node, pos[t] = 0, NEW n \in On(pos), NEW d \in Side, kd[d][n] = Nil,
         NEW k, (d = "L" /\ k = pos[n] - 1) \/ (d = "R" /\ k = pos[n]),
         NEW q2, Grown(q, q2, t, k),
         NEW kd2, NEW par2, LinkTypes(kd2, par2, rt),
         \A m \in On(pos) \cup {t}, e \in Side :
           kd2[e][m] = IF m = t THEN Nil ELSE IF m = n /\ e = d THEN t ELSE kd[e][m],
         \A m \in On(pos) \cup {t} : par2[m] = IF m = t THEN n ELSE par[m]
  PROVE  Shape(q2, GrownPlaces(pos, t, k), GrownSpans(ext, t, k, pos[n]), kd2, par2, rt)
<1> DEFINE pos2 == GrownPlaces(pos, t, k)
           ext2 == GrownSpans(ext, t, k, pos[n])
           s == pos[n]
<1>1. /\ q \in Seq(Node) /\ Len(q) \in Nat /\ pos \in [Node -> Nat]
      /\ ext \in [Side -> [Node -> Int]]
      /\ On(pos) \subseteq Node /\ Nil \notin Node /\ Nil \notin On(pos)
      /\ "L" \in Side /\ "R" \in Side
  BY ShapeTypes
<1>2. Places(q, pos)
  BY DEF Shape
<1>3. /\ Places(q2, pos2) /\ On(pos2) = On(pos) \cup {t} /\ pos2[t] = k + 1
      /\ \A m \in Node : m # t => pos2[m] = IF pos[m] > k THEN pos[m] + 1 ELSE pos[m]
  BY <1>2, GrowPlaces
<1>4. t \notin On(pos) /\ t # Nil
  BY <1>1 DEF On
<1>5. /\ s \in 1 .. Len(q) /\ Len(q2) = Len(q) + 1 /\ k \in 0 .. Len(q) /\ n # t
      /\ (d = "L" /\ k = s - 1) \/ (d = "R" /\ k = s)
  <2>1. s \in 1 .. Len(q)
    BY KidSpans
  <2>2. (d = "L" /\ k = s - 1) \/ (d = "R" /\ k = s)
    BY DEF Side
  <2>3. Len(q2) = Len(q) + 1 /\ k \in 0 .. Len(q)
    BY DEF Grown
  <2> QED
    BY <1>4, <2>1, <2>2, <2>3
<1>6. /\ ext2["L"][t] = k + 1 /\ ext2["R"][t] = k + 1
      /\ \A m \in Node : m # t =>
           /\ ext2["L"][m] = IF ext["L"][m] > s THEN ext["L"][m] + 1 ELSE ext["L"][m]
           /\ ext2["R"][m] = IF ext["R"][m] >= s THEN ext["R"][m] + 1 ELSE ext["R"][m]
  BY <1>1 DEF GrownSpans
<1>7. ext2 \in [Side -> [Node -> Int]]
  <2> SUFFICES ASSUME NEW e \in Side, NEW m \in Node
               PROVE  (IF m = t THEN k + 1
                       ELSE IF e = "L" THEN (IF ext[e][m] > s THEN ext[e][m] + 1 ELSE ext[e][m])
                       ELSE (IF ext[e][m] >= s THEN ext[e][m] + 1 ELSE ext[e][m])) \in Int
    BY DEF GrownSpans
  <2>1. ext[e][m] \in Int
    BY <1>1
  <2> QED
    BY <1>5, <2>1
<1>8. ASSUME NEW m \in On(pos)
      PROVE  /\ m \in Node /\ m # t /\ pos[m] \in 1 .. Len(q) /\ (pos[m] = s => m = n)
             /\ ext["L"][m] \in 1 .. pos[m] /\ ext["R"][m] \in pos[m] .. Len(q)
             /\ pos2[m] = IF pos[m] > k THEN pos[m] + 1 ELSE pos[m]
             /\ ext2["L"][m] = IF ext["L"][m] > s THEN ext["L"][m] + 1 ELSE ext["L"][m]
             /\ ext2["R"][m] = IF ext["R"][m] >= s THEN ext["R"][m] + 1 ELSE ext["R"][m]
  <2>1. /\ pos[m] \in 1 .. Len(q) /\ q[pos[m]] = m
        /\ ext["L"][m] \in 1 .. pos[m] /\ ext["R"][m] \in pos[m] .. Len(q)
    BY KidSpans
  <2>2. q[s] = n
    BY KidSpans
  <2> QED
    BY <1>1, <1>3, <1>4, <1>6, <2>1, <2>2
<1> HIDE DEF pos2, ext2, s
<1>a. Len(q) \in Nat /\ Len(q2) \in Nat /\ s \in Nat /\ k \in Nat /\ k <= Len(q) /\ s <= Len(q)
  BY <1>1, <1>5
<1>9. Spans(q2, pos2, ext2)
  <2>1. ASSUME NEW m \in On(pos2)
        PROVE  /\ 1 <= ext2["L"][m] /\ ext2["L"][m] <= pos2[m]
               /\ pos2[m] <= ext2["R"][m] /\ ext2["R"][m] <= Len(q2)
    <3>1. CASE m = t
      <4>1. k + 1 <= Len(q2) /\ 1 <= k + 1 /\ k + 1 <= k + 1
        BY <1>a, <1>5
      <4> QED
        BY <1>3, <1>6, <3>1, <4>1
    <3>2. CASE m # t
      <4>1. /\ pos[m] \in 1 .. Len(q)
            /\ ext["L"][m] \in 1 .. pos[m] /\ ext["R"][m] \in pos[m] .. Len(q)
            /\ pos2[m] = IF pos[m] > k THEN pos[m] + 1 ELSE pos[m]
            /\ ext2["L"][m] = IF ext["L"][m] > s THEN ext["L"][m] + 1 ELSE ext["L"][m]
            /\ ext2["R"][m] = IF ext["R"][m] >= s THEN ext["R"][m] + 1 ELSE ext["R"][m]
        BY <1>3, <1>8, <3>2
      <4>2. k = s - 1 \/ k = s
        BY <1>5
      <4>3. 1 <= ext2["L"][m] /\ ext2["L"][m] <= pos2[m]
        BY <1>a, <4>1, <4>2
      <4>4. pos2[m] <= ext2["R"][m]
        BY <1>a, <4>1, <4>2
      <4>5. ext2["R"][m] <= Len(q2)
        <5>1. Len(q2) = Len(q) + 1
          BY <1>5
        <5> QED
          BY <1>a, <4>1, <5>1
      <4> QED
        BY <4>3, <4>4, <4>5
    <3> QED
      BY <3>1, <3>2
  <2> QED
    BY <1>7, <2>1 DEF Spans
<1>10. ASSUME NEW m \in On(pos2), NEW e \in Side PROVE KidOK(pos2, ext2, kd2, par2, m, e)
  <2>0. e = "L" \/ e = "R"
    BY DEF Side
  <2>1. CASE m = t
    <3>1. kd2[e][m] = Nil
      BY <2>1
    <3>2. ext2[e][m] = pos2[m]
      BY <1>3, <1>6, <2>0, <2>1
    <3> QED
      BY <3>1, <3>2 DEF KidOK
  <2>2. CASE m = n /\ e = d
    <3>1. kd2[e][m] = t /\ par2[t] = m
      BY <1>5, <2>2
    <3>2. ext[d][n] = s
      BY <2>0, <2>2, KidSpans DEF s
    <3>3. /\ pos2[n] = IF s > k THEN s + 1 ELSE s
          /\ ext2["L"][n] = IF ext["L"][n] > s THEN ext["L"][n] + 1 ELSE ext["L"][n]
          /\ ext2["R"][n] = IF ext["R"][n] >= s THEN ext["R"][n] + 1 ELSE ext["R"][n]
      BY <1>8 DEF s
    <3>4. ext2[d][t] = ext2[d][n] /\ ext2[Other(d)][t] = pos2[n] + Sign(d)
      BY <1>5, <1>6, <3>2, <3>3 DEF Other, Sign
    <3>5. t \in On(pos2)
      BY <1>3
    <3> QED
      BY <1>4, <2>2, <3>1, <3>4, <3>5 DEF KidOK
  <2>3. CASE m # t /\ ~(m = n /\ e = d)
    <3>0. m \in On(pos) /\ kd2[e][m] = kd[e][m]
      BY <1>3, <2>3
    <3>1. /\ pos[m] \in 1 .. Len(q) /\ (pos[m] = s => m = n)
          /\ ext["L"][m] \in 1 .. pos[m] /\ ext["R"][m] \in pos[m] .. Len(q)
          /\ pos2[m] = IF pos[m] > k THEN pos[m] + 1 ELSE pos[m]
          /\ ext2["L"][m] = IF ext["L"][m] > s THEN ext["L"][m] + 1 ELSE ext["L"][m]
          /\ ext2["R"][m] = IF ext["R"][m] >= s THEN ext["R"][m] + 1 ELSE ext["R"][m]
      BY <1>8, <3>0
    <3>2. CASE kd[e][m] = Nil
      <4>1. ext[e][m] = pos[m]
        BY <2>0, <3>0, <3>2, KidSpans
      <4>2. ext2[e][m] = pos2[m]
        BY <1>5, <2>0, <2>3, <3>1, <4>1
      <4> QED
        BY <3>0, <3>2, <4>2 DEF KidOK
    <3>3. CASE kd[e][m] # Nil
      <4>1. PICK c : c = kd[e][m]
        OBVIOUS
      <4>2. /\ c \in On(pos) /\ par[c] = m
            /\ e = "L" => ext["L"][c] = ext["L"][m] /\ ext["R"][c] = pos[m] - 1
            /\ e = "R" => ext["R"][c] = ext["R"][m] /\ ext["L"][c] = pos[m] + 1
        BY <2>0, <3>0, <3>3, <4>1, KidSpans
      <4>3. /\ ext2["L"][c] = IF ext["L"][c] > s THEN ext["L"][c] + 1 ELSE ext["L"][c]
            /\ ext2["R"][c] = IF ext["R"][c] >= s THEN ext["R"][c] + 1 ELSE ext["R"][c]
            /\ c # t /\ c \in On(pos2)
        BY <1>3, <1>8, <4>2
      <4>4. par2[c] = m
        BY <1>3, <4>2, <4>3
      <4>a. ~(m = n /\ e = d)
        BY <2>3
      <4>5. CASE e = "L"
        <5>1. ext2["L"][c] = ext2["L"][m]
          BY <3>1, <4>2, <4>3, <4>5
        <5>2. ext2["R"][c] = pos2[m] - 1
          <6>1. pos[m] \in Nat /\ s \in Nat /\ (k = s \/ (k = s - 1 /\ pos[m] # s))
            BY <1>5, <3>1, <4>5, <4>a
          <6>2. ext2["R"][c] = IF pos[m] - 1 >= s THEN pos[m] ELSE pos[m] - 1
            BY <4>2, <4>3, <4>5, <6>1
          <6>3. pos2[m] = IF pos[m] > k THEN pos[m] + 1 ELSE pos[m]
            BY <3>1
          <6> QED
            BY <6>1, <6>2, <6>3
        <5>3. pos2[m] \in Int
          BY <3>1
        <5> QED
          BY <1>1, <3>0, <3>3, <4>1, <4>3, <4>4, <4>5, <5>1, <5>2, <5>3 DEF KidOK, Other, Sign
      <4>6. CASE e = "R"
        <5>1. ext2["R"][c] = ext2["R"][m]
          BY <3>1, <4>2, <4>3, <4>6
        <5>2. ext2["L"][c] = pos2[m] + 1
          BY <1>5, <3>1, <4>2, <4>3, <4>6, <4>a
        <5> QED
          BY <1>1, <3>0, <3>3, <4>1, <4>3, <4>4, <4>6, <5>1, <5>2 DEF KidOK, Other, Sign
      <4> QED
        BY <2>0, <4>5, <4>6
    <3> QED
      BY <3>2, <3>3
  <2> QED
    BY <2>1, <2>2, <2>3
<1>11. RootOK(q2, pos2, ext2, par2, rt)
  <2>1. RootOK(q, pos, ext, par, rt)
    BY DEF Shape
  <2>2. rt # Nil
    BY <1>5, <2>1 DEF RootOK
  <2>3. rt \in On(pos) /\ par[rt] = Nil /\ ext["L"][rt] = 1 /\ ext["R"][rt] = Len(q)
    BY <2>1, <2>2 DEF RootOK
  <2>4. par2[rt] = Nil
    BY <1>4, <2>3
  <2>5. ext2["L"][rt] = 1 /\ ext2["R"][rt] = Len(q2)
    <3>1. /\ ext2["L"][rt] = IF ext["L"][rt] > s THEN ext["L"][rt] + 1 ELSE ext["L"][rt]
          /\ ext2["R"][rt] = IF ext["R"][rt] >= s THEN ext["R"][rt] + 1 ELSE ext["R"][rt]
      BY <1>8, <2>3
    <3> QED
      BY <1>1, <1>5, <2>3, <3>1
  <2> QED
    BY <1>3, <2>2, <2>3, <2>4, <2>5 DEF RootOK
<1>12. ASSUME NEW m \in On(pos2) PROVE UpOK(pos2, kd2, par2, rt, m)
  <2>1. CASE m = t
    <3>1. par2[m] = n /\ kd2[d][n] = t
      BY <1>3, <1>5, <2>1
    <3> QED
      BY <1>3, <2>1, <3>1 DEF UpOK
  <2>2. CASE m # t
    <3>1. m \in On(pos) /\ par2[m] = par[m]
      BY <1>3, <2>2
    <3>2. ASSUME m # rt PROVE par[m] \in On(pos2) /\ \E e \in Side : kd2[e][par[m]] = m
      <4>1. par[m] \in On(pos) /\ \E e \in Side : kd[e][par[m]] = m
        BY <3>1, <3>2, UpFacts
      <4>2. PICK e \in Side : kd[e][par[m]] = m
        BY <4>1
      <4>3. ~(par[m] = n /\ e = d)
        BY <1>1, <3>1, <4>2
      <4>4. kd2[e][par[m]] = m
        BY <1>3, <1>4, <4>1, <4>2, <4>3
      <4> QED
        BY <1>3, <4>1, <4>4
    <3> QED
      BY <3>1, <3>2 DEF UpOK
  <2> QED
    BY <2>1, <2>2
<1>13. Shape(q2, pos2, ext2, kd2, par2, rt)
  BY <1>3, <1>9, <1>10, <1>11, <1>12 DEF Shape
<1> QED
  BY <1>13 DEF pos2, ext2, s

(* A first node t in an empty tree.                                        *)
LEMMA FirstShape ==
  ASSUME NEW pos, NEW ext, NEW kd, NEW par,
         Shape(<<>>, pos, ext, kd, par, Nil),
         NEW t \in Node, NEW q2, Grown(<<>>, q2, t, 0),
         NEW kd2, NEW par2, LinkTypes(kd2, par2, t),
         \A e \in Side : kd2[e][t] = Nil, par2[t] = Nil
  PROVE  /\ Shape(q2, GrownPlaces(pos, t, 0), GrownSpans(ext, t, 0, 0), kd2, par2, t)
         /\ On(pos) = {} /\ pos[t] = 0
<1> DEFINE pos2 == GrownPlaces(pos, t, 0)
           ext2 == GrownSpans(ext, t, 0, 0)
<1>1. /\ pos \in [Node -> Nat] /\ ext \in [Side -> [Node -> Int]]
      /\ On(pos) \subseteq Node /\ Nil \notin Node /\ "L" \in Side /\ "R" \in Side
  BY ShapeTypes
<1>2. Places(<<>>, pos) /\ Len(<<>>) = 0
  BY DEF Shape
<1>3. On(pos) = {}
  <2>1. \A n \in On(pos) : pos[n] \in 1 .. 0
    BY <1>2 DEF Places
  <2> QED
    BY <2>1
<1>4. pos[t] = 0
  BY <1>3 DEF On
<1>5. Places(q2, pos2) /\ On(pos2) = {t} /\ pos2[t] = 1
  <2>1. Places(q2, pos2) /\ On(pos2) = On(pos) \cup {t} /\ pos2[t] = 0 + 1
    BY <1>2, <1>4, GrowPlaces
  <2> QED
    BY <1>3, <2>1
<1>6. ext2["L"][t] = 1 /\ ext2["R"][t] = 1
  BY <1>1 DEF GrownSpans
<1>7. ext2 \in [Side -> [Node -> Int]]
  <2> SUFFICES ASSUME NEW e \in Side, NEW m \in Node
               PROVE  (IF m = t THEN 0 + 1
                       ELSE IF e = "L" THEN (IF ext[e][m] > 0 THEN ext[e][m] + 1 ELSE ext[e][m])
                       ELSE (IF ext[e][m] >= 0 THEN ext[e][m] + 1 ELSE ext[e][m])) \in Int
    BY DEF GrownSpans
  <2>1. ext[e][m] \in Int
    BY <1>1
  <2> QED
    BY <2>1
<1>8. Len(q2) = 1
  BY <1>2 DEF Grown
<1> HIDE DEF pos2, ext2
<1>9. Spans(q2, pos2, ext2)
  BY <1>5, <1>6, <1>7, <1>8 DEF Spans
<1>10. RootOK(q2, pos2, ext2, par2, t)
  BY <1>1, <1>5, <1>6, <1>8 DEF RootOK
<1>11. \A n \in On(pos2), d \in Side : KidOK(pos2, ext2, kd2, par2, n, d)
  BY <1>5, <1>6 DEF KidOK, Side
<1>12. \A n \in On(pos2) : UpOK(pos2, kd2, par2, t, n)
  BY <1>5 DEF UpOK
<1>13. Shape(q2, pos2, ext2, kd2, par2, t)
  BY <1>5, <1>9, <1>10, <1>11, <1>12 DEF Shape
<1> QED
  BY <1>3, <1>4, <1>13 DEF pos2, ext2

(* A list that t splits into keys not above and keys above its own stays   *)
(* sorted with t between them.                                             *)
LEMMA GrownSorted ==
  ASSUME NEW q \in Seq(Node), Sorted(q, key), NEW t \in Node, NEW q2, NEW k, Grown(q, q2, t, k),
         \A i \in 1 .. Len(q) : i <= k => key[q[i]] <= key[t],
         \A i \in 1 .. Len(q) : i > k => key[t] < key[q[i]]
  PROVE  Sorted(q2, key) /\ q2 # <<>>
         /\ q2[1] = IF q = <<>> \/ key[t] < key[q[1]] THEN t ELSE q[1]
<1>1. /\ q2 \in Seq(Node) /\ Len(q2) = Len(q) + 1 /\ k \in 0 .. Len(q) /\ Len(q) \in Nat
      /\ \A i \in 1 .. k : q2[i] = q[i]
      /\ q2[k + 1] = t
      /\ \A i \in k + 1 .. Len(q) : q2[i + 1] = q[i]
  BY DEF Grown
<1>2. key[t] \in Nat /\ \A i \in 1 .. Len(q) : key[q[i]] \in Nat
  BY RBTreeAssumption
<1>3. ASSUME NEW i \in 1 .. Len(q) + 1
      PROVE  \/ i \in 1 .. k /\ i \in 1 .. Len(q) /\ q2[i] = q[i]
             \/ i = k + 1 /\ q2[i] = t
             \/ i - 1 \in k + 1 .. Len(q) /\ i - 1 \in 1 .. Len(q) /\ q2[i] = q[i - 1]
  <2>1. \/ i \in 1 .. k /\ i \in 1 .. Len(q)
        \/ i = k + 1
        \/ i - 1 \in k + 1 .. Len(q) /\ i - 1 \in 1 .. Len(q) /\ (i - 1) + 1 = i
    BY <1>1
  <2> QED
    BY <1>1, <2>1
<1>4. ASSUME NEW i \in 1 .. Len(q2), NEW j \in 1 .. Len(q2), i < j
      PROVE  key[q2[i]] <= key[q2[j]]
  <2>0. i \in 1 .. Len(q) + 1 /\ j \in 1 .. Len(q) + 1
    BY <1>1
  <2>1. CASE i \in 1 .. k /\ i \in 1 .. Len(q) /\ q2[i] = q[i]
    <3>1. key[q[i]] <= key[t]
      BY <1>1, <2>1
    <3>2. CASE j \in 1 .. k /\ j \in 1 .. Len(q) /\ q2[j] = q[j]
      BY <1>4, <2>1, <3>2 DEF Sorted
    <3>3. CASE j = k + 1 /\ q2[j] = t
      BY <2>1, <3>1, <3>3
    <3>4. CASE j - 1 \in k + 1 .. Len(q) /\ j - 1 \in 1 .. Len(q) /\ q2[j] = q[j - 1]
      <4>1. i < j - 1
        BY <1>1, <2>1, <3>4
      <4> QED
        BY <2>1, <3>4, <4>1 DEF Sorted
    <3> QED
      BY <1>3, <2>0, <3>2, <3>3, <3>4
  <2>2. CASE i = k + 1 /\ q2[i] = t
    <3>1. j - 1 \in k + 1 .. Len(q) /\ j - 1 \in 1 .. Len(q) /\ q2[j] = q[j - 1]
      BY <1>1, <1>3, <1>4, <2>0, <2>2
    <3>2. key[t] < key[q[j - 1]]
      BY <1>1, <3>1
    <3> QED
      BY <1>2, <2>2, <3>1, <3>2
  <2>3. CASE i - 1 \in k + 1 .. Len(q) /\ i - 1 \in 1 .. Len(q) /\ q2[i] = q[i - 1]
    <3>1. j - 1 \in k + 1 .. Len(q) /\ j - 1 \in 1 .. Len(q) /\ q2[j] = q[j - 1]
      BY <1>1, <1>3, <1>4, <2>0, <2>3
    <3>2. i - 1 < j - 1
      BY <1>4, <2>0
    <3> QED
      BY <2>3, <3>1, <3>2 DEF Sorted
  <2> QED
    BY <1>3, <2>0, <2>1, <2>2, <2>3
<1>5. Sorted(q2, key) /\ q2 # <<>>
  <2>1. Sorted(q2, key)
    BY <1>4 DEF Sorted
  <2>2. q2 # <<>>
    BY <1>1
  <2> QED
    BY <2>1, <2>2
<1>6. CASE q = <<>>
  BY <1>1, <1>5, <1>6
<1>7. CASE q # <<>>
  <2>0. 1 \in 1 .. Len(q)
    BY <1>1, <1>7
  <2>1. CASE k = 0
    BY <1>1, <1>5, <1>7, <2>0, <2>1
  <2>2. CASE k # 0
    <3>1. 1 \in 1 .. k /\ 1 <= k
      BY <1>1, <2>2
    <3>2. key[q[1]] <= key[t]
      BY <2>0, <3>1
    <3>3. ~(key[t] < key[q[1]])
      BY <1>2, <2>0, <3>2
    <3> QED
      BY <1>1, <1>5, <1>7, <3>1, <3>3
  <2> QED
    BY <2>1, <2>2
<1> QED
  BY <1>5, <1>6, <1>7

(* The place the descent of rb_insert has found is the one RunOrder wants. *)
LEMMA InsertPlace ==
  ASSUME NEW q, NEW pos, NEW ext, NEW bh, NEW sd, TreeIs(q, pos, ext, bh, sd),
         pc = "insert", at = Nil,
         NEW q2, q2 = Contract!InsertBy(q, thread, key)
  PROVE  \E k : /\ Grown(q, q2, thread, k)
                /\ \A i \in 1 .. Len(q) : i <= k => key[q[i]] <= key[thread]
                /\ \A i \in 1 .. Len(q) : i > k => key[thread] < key[q[i]]
                /\ up = Nil => k = 0 /\ q = <<>> /\ root = Nil
                /\ up # Nil => k = IF Toward(thread, up) = "L" THEN pos[up] - 1 ELSE pos[up]
<1>1. /\ Shape(q, pos, ext, kid, parent, root) /\ Sorted(q, key) /\ InsertCursor(q, pos, ext)
  BY DEF TreeIs, Cursor
<1>2. /\ q \in Seq(Node) /\ Len(q) \in Nat /\ pos \in [Node -> Nat]
      /\ On(pos) \subseteq Node /\ thread \in Node
  BY <1>1, ShapeTypes DEF InsertCursor
<1>3. key[thread] \in Nat /\ \A i \in 1 .. Len(q) : q[i] \in Node /\ key[q[i]] \in Nat
  BY <1>2, RBTreeAssumption
<1>4. ASSUME NEW k \in 0 .. Len(q),
             \A i \in 1 .. Len(q) : i <= k => key[q[i]] <= key[thread],
             \A i \in 1 .. Len(q) : i > k => key[thread] < key[q[i]]
      PROVE  Grown(q, q2, thread, k)
  <2>1. /\ q2 \in Seq(Node) /\ Len(q2) = Len(q) + 1
        /\ \A i \in 1 .. k : q2[i] = q[i]
        /\ q2[k + 1] = thread
        /\ \A i \in k + 1 .. Len(q) : q2[i + 1] = q[i]
    <3>1. LET s == Contract!InsertBy(q, thread, key) IN
          /\ s \in Seq(Node) /\ Len(s) = Len(q) + 1
          /\ \A i \in 1 .. k : s[i] = q[i]
          /\ s[k + 1] = thread
          /\ \A i \in k + 1 .. Len(q) : s[i + 1] = q[i]
      BY <1>2, <1>4, InsertIs
    <3> QED
      BY <3>1, Zenon
  <2> QED
    BY <2>1 DEF Grown
<1>5. CASE up = Nil
  <2>1. root = Nil /\ q = <<>>
    BY <1>1, <1>5 DEF InsertCursor, Shape, RootOK
  <2>2. Len(q) = 0
    BY <2>1
  <2>3. /\ \A i \in 1 .. Len(q) : i <= 0 => key[q[i]] <= key[thread]
        /\ \A i \in 1 .. Len(q) : i > 0 => key[thread] < key[q[i]]
    BY <2>2
  <2>4. Grown(q, q2, thread, 0)
    BY <1>4, <2>2, <2>3
  <2> QED
    BY <1>5, <2>1, <2>3, <2>4
<1>6. CASE up # Nil
  <2>1. /\ up \in On(pos) /\ kid[Toward(thread, up)][up] = Nil
        /\ Fits(q, thread, ext["L"][up], ext["R"][up])
    BY <1>1, <1>6 DEF InsertCursor
  <2>2. /\ pos[up] \in 1 .. Len(q) /\ q[pos[up]] = up
        /\ kid["L"][up] = Nil => ext["L"][up] = pos[up]
        /\ kid["R"][up] = Nil => ext["R"][up] = pos[up]
        /\ ext["L"][up] \in 1 .. pos[up] /\ ext["R"][up] \in pos[up] .. Len(q)
    BY <1>1, <2>1, KidSpans
  <2>3. CASE key[thread] < key[up]
    <3>0. Toward(thread, up) = "L"
      BY <2>3 DEF Toward
    <3>1. ext["L"][up] = pos[up] /\ pos[up] - 1 \in 0 .. Len(q)
      BY <1>2, <2>1, <2>2, <3>0
    <3>2. ASSUME NEW i \in 1 .. Len(q), i <= pos[up] - 1 PROVE key[q[i]] <= key[thread]
      <4>1. i < ext["L"][up]
        <5>1. pos[up] \in Nat /\ i \in Nat
          BY <2>2, <1>2
        <5> QED
          BY <3>1, <3>2, <5>1
      <4> QED
        BY <2>1, <4>1 DEF Fits
    <3>3. ASSUME NEW i \in 1 .. Len(q), i > pos[up] - 1 PROVE key[thread] < key[q[i]]
      <4>1. i = pos[up] \/ pos[up] < i
        BY <2>2, <3>3
      <4>2. i = pos[up] \/ key[up] <= key[q[i]]
        BY <1>1, <2>2, <4>1 DEF Sorted
      <4>3. key[up] \in Nat
        BY <1>3, <2>2
      <4> QED
        BY <1>3, <2>2, <2>3, <4>2, <4>3
    <3>4. Grown(q, q2, thread, pos[up] - 1)
      BY <1>4, <3>1, <3>2, <3>3
    <3> QED
      BY <1>6, <3>0, <3>2, <3>3, <3>4
  <2>4. CASE ~(key[thread] < key[up])
    <3>0. Toward(thread, up) = "R"
      BY <2>4 DEF Toward
    <3>1. ext["R"][up] = pos[up] /\ pos[up] \in 0 .. Len(q)
      BY <1>2, <2>1, <2>2, <3>0
    <3>2. ASSUME NEW i \in 1 .. Len(q), i <= pos[up] PROVE key[q[i]] <= key[thread]
      <4>1. i = pos[up] \/ i < pos[up]
        BY <2>2, <3>2
      <4>2. i = pos[up] \/ key[q[i]] <= key[up]
        BY <1>1, <2>2, <4>1 DEF Sorted
      <4>3. key[up] \in Nat
        BY <1>3, <2>2
      <4> QED
        BY <1>3, <2>2, <2>4, <4>2, <4>3
    <3>3. \A i \in 1 .. Len(q) : i > pos[up] => key[thread] < key[q[i]]
      BY <1>2, <2>1, <2>2, <3>1 DEF Fits
    <3>4. Grown(q, q2, thread, pos[up])
      BY <1>4, <3>1, <3>2, <3>3
    <3>5. (IF Toward(thread, up) = "L" THEN pos[up] - 1 ELSE pos[up]) = pos[up]
      BY <3>0
    <3> QED
      BY <1>6, <3>2, <3>3, <3>4, <3>5
  <2> QED
    BY <2>3, <2>4
<1> QED
  BY <1>5, <1>6

(* rb_insert links its thread as a red leaf, at that place.                *)
LEMMA InsertStep ==
  ASSUME NEW q, NEW pos, NEW ext, NEW bh, NEW sd, TreeIs(q, pos, ext, bh, sd), rb_insert
  PROVE  \E q2, pos2, ext2, bh2 :
           q2 = Contract!InsertBy(q, thread, key) /\ TreeIs(q2, pos2, ext2, bh2, sd)'
<1>a. PICK t, n, d, q2 : /\ t = thread /\ n = up /\ q2 = Contract!InsertBy(q, thread, key)
                         /\ d = IF up = Nil THEN "L" ELSE Toward(thread, up)
  OBVIOUS
<1>0. /\ pc = "insert" /\ at = Nil
      /\ root' = IF n = Nil THEN t ELSE root
      /\ parent' = [parent EXCEPT ![t] = n]
      /\ color' = [color EXCEPT ![t] = "RED"]
      /\ leftmost' = IF leftmost = Nil \/ key[t] < key[leftmost] THEN t ELSE leftmost
      /\ pc' = "insert_fixup" /\ at' = t /\ up' = Nil /\ UNCHANGED <<count, thread>>
  BY <1>a DEF rb_insert, Top, CacheMoves
<1>1. /\ Shape(q, pos, ext, kid, parent, root) /\ Sorted(q, key) /\ TreeTypeOK
      /\ Calm(pos) /\ Loose(pos) /\ Cached(q) /\ Heights(pos, kid, color, bh, Nil, sd)
      /\ InsertCursor(q, pos, ext)
  BY <1>0 DEF TreeIs, Cursor, Indebted
<1>2. /\ q \in Seq(Node) /\ Len(q) \in Nat /\ pos \in [Node -> Nat]
      /\ On(pos) \subseteq Node /\ Nil \notin Node /\ Nil \notin On(pos)
      /\ kid \in [Side -> [Node -> Link]] /\ parent \in [Node -> Link] /\ root \in Link
      /\ color \in [Node -> {"RED", "BLACK"}]
  BY <1>1, ShapeTypes DEF TreeTypeOK
<1>3. /\ t \in Node /\ pos[t] = 0 /\ t \notin On(pos) /\ t \in Link /\ n \in Link /\ d \in Side
      /\ n # Nil => n \in On(pos) /\ kid[d][n] = Nil
      /\ n = Nil => root = Nil
  <2>1. /\ t \in Node /\ pos[t] = 0 /\ n = Nil => root = Nil
        /\ n # Nil => n \in On(pos) /\ kid[d][n] = Nil
    BY <1>0, <1>1, <1>a DEF InsertCursor
  <2>2. d \in Side
    BY <1>a DEF Toward, Side
  <2> QED
    BY <1>0, <1>1, <1>2, <1>a, <2>1, <2>2 DEF On, Link, InsertCursor
<1>4. PICK k : /\ Grown(q, q2, t, k)
               /\ \A i \in 1 .. Len(q) : i <= k => key[q[i]] <= key[t]
               /\ \A i \in 1 .. Len(q) : i > k => key[t] < key[q[i]]
               /\ n = Nil => k = 0 /\ q = <<>> /\ root = Nil
               /\ n # Nil => k = IF d = "L" THEN pos[n] - 1 ELSE pos[n]
  BY <1>0, <1>a, InsertPlace
<1>5. /\ kid' \in [Side -> [Node -> Link]]
      /\ \A m \in Node, e \in Side :
           kid'[e][m] = IF m = n /\ e = d THEN t ELSE IF m = t THEN Nil ELSE kid[e][m]
  <2> DEFINE bare == [e \in Side |-> [kid[e] EXCEPT ![t] = Nil]]
  <2>1. kid' = IF n = Nil THEN bare ELSE [bare EXCEPT ![d][n] = t]
    BY <1>a DEF rb_insert
  <2>2. /\ bare \in [Side -> [Node -> Link]]
        /\ \A m \in Node, e \in Side : bare[e][m] = IF m = t THEN Nil ELSE kid[e][m]
    BY <1>2, <1>3 DEF Link
  <2> HIDE DEF bare
  <2>3. CASE n = Nil
    BY <1>2, <2>1, <2>2, <2>3
  <2>4. CASE n # Nil
    <3>1. n \in Node /\ d \in Side /\ t \in Link
      BY <1>2, <1>3, <2>4
    <3> QED
      BY <2>1, <2>2, <2>4, <3>1
  <2> QED
    BY <2>3, <2>4
<1>6. /\ parent' \in [Node -> Link] /\ \A m \in Node : parent'[m] = IF m = t THEN n ELSE parent[m]
  BY <1>0, <1>2, <1>3
<1>7. /\ color' \in [Node -> {"RED", "BLACK"}]
      /\ \A m \in Node : color'[m] = IF m = t THEN "RED" ELSE color[m]
  BY <1>0, <1>2, <1>3
<1>8. root' \in Link /\ LinkTypes(kid', parent', root')
  BY <1>0, <1>2, <1>3, <1>5, <1>6 DEF LinkTypes
<1>9. n # t
  BY <1>2, <1>3
<1>10. \E pos2, ext2 : Shape(q2, pos2, ext2, kid', parent', root') /\ On(pos2) = On(pos) \cup {t}
  <2>1. On(GrownPlaces(pos, t, k)) = On(pos) \cup {t}
    <3>1. Places(q, pos)
      BY <1>1 DEF Shape
    <3> QED
      BY <1>3, <1>4, <3>1, GrowPlaces
  <2>2. CASE n = Nil
    <3>1. Shape(<<>>, pos, ext, kid, parent, Nil) /\ Grown(<<>>, q2, t, 0)
      BY <1>1, <1>4, <2>2
    <3>2. LinkTypes(kid', parent', t) /\ parent'[t] = Nil /\ \A e \in Side : kid'[e][t] = Nil
      BY <1>0, <1>2, <1>3, <1>5, <1>6, <1>8, <2>2
    <3>3. Shape(q2, GrownPlaces(pos, t, 0), GrownSpans(ext, t, 0, 0), kid', parent', t)
      BY <1>3, <3>1, <3>2, FirstShape
    <3> QED
      BY <1>0, <1>4, <2>1, <2>2, <3>3
  <2>3. CASE n # Nil
    <3>1. n \in On(pos) /\ kid[d][n] = Nil /\ k = IF d = "L" THEN pos[n] - 1 ELSE pos[n]
      BY <1>3, <1>4, <2>3
    <3>2. \A m \in On(pos) \cup {t}, e \in Side :
            kid'[e][m] = IF m = t THEN Nil ELSE IF m = n /\ e = d THEN t ELSE kid[e][m]
      BY <1>2, <1>3, <1>5, <1>9
    <3>3. \A m \in On(pos) \cup {t} : parent'[m] = IF m = t THEN n ELSE parent[m]
      BY <1>2, <1>3, <1>6
    <3>4. LinkTypes(kid', parent', root) /\ root' = root
      BY <1>0, <1>8, <2>3
    <3>5. Shape(q2, GrownPlaces(pos, t, k), GrownSpans(ext, t, k, pos[n]), kid', parent', root)
      <4>1. Shape(q, pos, ext, kid, parent, root)
        BY <1>1
      <4>2. t \in Node /\ pos[t] = 0 /\ n \in On(pos) /\ d \in Side /\ kid[d][n] = Nil
        BY <1>3, <3>1
      <4>3. (d = "L" /\ k = pos[n] - 1) \/ (d = "R" /\ k = pos[n])
        BY <3>1, <4>2 DEF Side
      <4>4. Grown(q, q2, t, k)
        BY <1>4
      <4>5. LinkTypes(kid', parent', root)
        BY <3>4
      <4> QED
        BY <4>1, <4>2, <4>3, <4>4, <4>5, <3>2, <3>3, GrowShape, SMT
    <3> QED
      BY <2>1, <3>4, <3>5
  <2> QED
    BY <2>2, <2>3
<1>11. PICK pos2, ext2 : /\ Shape(q2, pos2, ext2, kid', parent', root')
                         /\ On(pos2) = On(pos) \cup {t}
  BY <1>10
<1>12. /\ Sorted(q2, key) /\ q2 # <<>> /\ Len(q2) = Len(q) + 1
       /\ q2[1] = IF q = <<>> \/ key[t] < key[q[1]] THEN t ELSE q[1]
  <2>1. Len(q2) = Len(q) + 1
    BY <1>4 DEF Grown
  <2>2. /\ q \in Seq(Node) /\ Sorted(q, key) /\ t \in Node /\ Grown(q, q2, t, k)
        /\ \A i \in 1 .. Len(q) : i <= k => key[q[i]] <= key[t]
        /\ \A i \in 1 .. Len(q) : i > k => key[t] < key[q[i]]
    BY <1>1, <1>2, <1>3, <1>4
  <2>3. Sorted(q2, key) /\ q2 # <<>>
    BY <2>2, GrownSorted
  <2>4. q2[1] = IF q = <<>> \/ key[t] < key[q[1]] THEN t ELSE q[1]
    BY <2>2, GrownSorted
  <2> QED
    BY <2>1, <2>3, <2>4
<1> DEFINE bh2 == [m \in Link |-> IF m = t THEN 0 ELSE bh[m]]
<1>13. bh \in [Link -> Nat] /\ bh[Nil] = 0 /\ Nil \in Link
  BY <1>1 DEF Heights, Link
<1>14. /\ bh2 \in [Link -> Nat] /\ bh2[t] = 0 /\ \A m \in Link : m # t => bh2[m] = bh[m]
  <2>1. \A m \in Link : (IF m = t THEN 0 ELSE bh[m]) \in Nat
    BY <1>13
  <2> QED
    BY <1>3, <2>1
<1> HIDE DEF bh2
<1>15. Heights(pos2, kid', color', bh2, Nil, sd)
  <2>0. bh2[Nil] = 0
    BY <1>2, <1>3, <1>13, <1>14
  <2>1. ASSUME NEW m \in On(pos2), NEW e \in Side
        PROVE  HeightOK(kid', color', bh2, Nil, sd, m, e)
    <3>1. CASE m = t
      <4>1. kid'[e][m] = Nil /\ color'[m] = "RED" /\ m # Nil
        BY <1>2, <1>3, <1>5, <1>7, <1>9, <3>1
      <4> QED
        BY <1>14, <2>0, <3>1, <4>1 DEF HeightOK
    <3>2. CASE m # t
      <4>1. m \in On(pos) /\ m \in Node /\ m \in Link /\ m # Nil /\ kid[e][m] \in Link
        BY <1>2, <1>11, <3>2 DEF Link
      <4>2. HeightOK(kid, color, bh, Nil, sd, m, e)
        BY <1>1, <4>1 DEF Heights
      <4>3. bh2[kid'[e][m]] = bh[kid[e][m]]
        <5>1. CASE m = n /\ e = d
          BY <1>3, <1>5, <1>13, <1>14, <4>1, <5>1
        <5>2. CASE ~(m = n /\ e = d)
          <6>1. kid'[e][m] = kid[e][m]
            BY <1>5, <3>2, <4>1, <5>2
          <6>2. kid[e][m] # t
            <7>1. kid[e][m] # Nil => kid[e][m] \in On(pos)
              BY <1>1, <4>1, LinkFacts
            <7> QED
              BY <1>2, <1>3, <7>1
          <6> QED
            BY <1>14, <4>1, <6>1, <6>2
        <5> QED
          BY <5>1, <5>2
      <4>4. bh2[m] = bh[m] /\ color'[m] = color[m]
        BY <1>7, <1>14, <3>2, <4>1
      <4> QED
        BY <4>2, <4>3, <4>4 DEF HeightOK
    <3> QED
      BY <3>1, <3>2
  <2> QED
    BY <1>14, <2>0, <2>1 DEF Heights
<1>16. TreeTypeOK'
  <2>1. leftmost' \in Link /\ count' \in Nat /\ at' \in Link /\ up' \in Link /\ thread' \in Link
    BY <1>0, <1>1, <1>3 DEF TreeTypeOK, Link
  <2> QED
    BY <1>0, <1>5, <1>6, <1>7, <1>8, <2>1 DEF TreeTypeOK
<1>17. Cached(q2)'
  <2>0. leftmost = IF q = <<>> THEN Nil ELSE q[1]
    BY <1>1 DEF Cached
  <2>1. q # <<>> => q[1] \in Node
    BY <1>2
  <2>2. leftmost' = q2[1]
    BY <1>0, <1>2, <1>12, <2>0, <2>1
  <2>3. count = Len(q)
    BY <1>0, <1>1 DEF Cached
  <2>4. count' = Len(q2) - 1
    BY <1>0, <1>2, <1>12, <2>3
  <2> QED
    BY <1>0, <1>12, <2>2, <2>4 DEF Cached
<1>18. Loose(pos2)'
  <2>1. ASSUME NEW m \in Node \ On(pos2), NEW e \in Side PROVE kid'[e][m] = Nil
    <3>1. m \in Node \ On(pos) /\ m # t /\ m # n
      BY <1>2, <1>3, <1>11
    <3>2. kid[e][m] = Nil
      BY <1>0, <1>1, <3>1 DEF Loose
    <3> QED
      BY <1>5, <3>1, <3>2
  <2> QED
    BY <2>1 DEF Loose
<1>19. Calm(pos2)'
  <2>1. Red(root)' => at' = root'
    <3>1. CASE n = Nil
      BY <1>0, <3>1
    <3>2. CASE n # Nil
      <4>1. ~Red(root) /\ root' = root
        BY <1>0, <1>1, <3>2 DEF Calm
      <4>2. root # t /\ root # Nil => root \in Node
        BY <1>2 DEF Link
      <4>3. root # t
        <5>1. root # Nil => root \in On(pos)
          BY <1>1 DEF Shape, RootOK
        <5> QED
          BY <1>2, <1>3, <5>1
      <4> QED
        BY <1>7, <4>1, <4>2, <4>3 DEF Red
    <3> QED
      BY <3>1, <3>2
  <2>2. ASSUME NEW m \in On(pos2), Red(m)', (Red(parent[m]))' PROVE m = t
    <3> SUFFICES ASSUME m # t PROVE FALSE
      OBVIOUS
    <3>1. m \in On(pos) /\ m \in Node /\ m # Nil
      BY <1>2, <1>11
    <3>2. Red(m) /\ parent'[m] = parent[m]
      BY <1>6, <1>7, <2>2, <3>1 DEF Red
    <3>3. parent[m] # Nil /\ color'[parent[m]] = "RED" /\ parent[m] \in Node
      BY <1>2, <2>2, <3>1, <3>2 DEF Red, Link
    <3>4. parent[m] \in On(pos)
      BY <1>1, <3>1, <3>3, UpFacts
    <3>5. Red(parent[m])
      BY <1>3, <1>7, <3>3, <3>4 DEF Red
    <3> QED
      BY <1>0, <1>1, <3>1, <3>2, <3>5 DEF Calm
  <2> QED
    BY <1>0, <2>1, <2>2 DEF Calm
<1>20. Cursor(q2, pos2, ext2, sd)'
  <2>1. Red(at)'
    BY <1>0, <1>2, <1>3, <1>7 DEF Red
  <2> QED
    BY <1>0, <1>11, <2>1 DEF Cursor
<1>21. Heights(pos2, kid, color, bh2, Indebted, sd)'
  <2>1. Indebted' = Nil
    BY <1>0 DEF Indebted
  <2> QED
    BY <1>15, <2>1
<1>22. TreeIs(q2, pos2, ext2, bh2, sd)'
  BY <1>11, <1>12, <1>16, <1>17, <1>18, <1>19, <1>20, <1>21 DEF TreeIs
<1> QED
  BY <1>a, <1>22

(* q2 is the list q without its place k.                                   *)
Shrunk(q, q2, k) ==
  /\ q2 \in Seq(Node) /\ Len(q2) = Len(q) - 1 /\ k \in 1 .. Len(q)
  /\ \A i \in 1 .. Len(q) - 1 : q2[i] = IF i < k THEN q[i] ELSE q[i + 1]

(* The places of the others once y is out of the order.                    *)
CutPlaces(pos, y) ==
  [m \in Node |-> IF m = y THEN 0 ELSE IF pos[m] > pos[y] THEN pos[m] - 1 ELSE pos[m]]

(* The spans once the place k is out of the order.                         *)
CutSpans(ext, k) ==
  [e \in Side |-> [m \in Node |->
     IF e = "L" THEN (IF ext[e][m] > k THEN ext[e][m] - 1 ELSE ext[e][m])
     ELSE (IF ext[e][m] >= k THEN ext[e][m] - 1 ELSE ext[e][m])]]

(* x is the only child of y, or Nil when y has none.                       *)
OnlyKid(kd, y, x) == \E d \in Side : kd[d][y] = x /\ kd[Other(d)][y] = Nil

(* The links once x has taken the place of y: transplant, seen from the    *)
(* nodes that stay.                                                        *)
CutLinks(pos, kd, par, rt, y, x, kd2, par2, rt2) ==
  /\ LinkTypes(kd2, par2, rt2)
  /\ \A m \in On(pos) \ {y}, e \in Side : kd2[e][m] = IF kd[e][m] = y THEN x ELSE kd[e][m]
  /\ \A m \in On(pos) \ {y} : par2[m] = IF m = x THEN par[y] ELSE par[m]
  /\ rt2 = IF rt = y THEN x ELSE rt

(* The places without y.                                                   *)
LEMMA CutPlacesAre ==
  ASSUME NEW q, NEW pos, Places(q, pos), NEW y \in On(pos), NEW q2, Shrunk(q, q2, pos[y])
  PROVE  /\ Places(q2, CutPlaces(pos, y)) /\ On(CutPlaces(pos, y)) = On(pos) \ {y}
         /\ CutPlaces(pos, y)[y] = 0
         /\ \A m \in Node : m # y =>
              CutPlaces(pos, y)[m] = IF pos[m] > pos[y] THEN pos[m] - 1 ELSE pos[m]
<1> DEFINE pos2 == CutPlaces(pos, y)
           k == pos[y]
<1>1. /\ q \in Seq(Node) /\ pos \in [Node -> Nat] /\ Len(q) \in Nat
      /\ \A n \in On(pos) : pos[n] \in 1 .. Len(q) /\ q[pos[n]] = n
      /\ \A i \in 1 .. Len(q) : pos[q[i]] = i
  BY DEF Places
<1>2. /\ q2 \in Seq(Node) /\ Len(q2) = Len(q) - 1 /\ k \in 1 .. Len(q)
      /\ \A i \in 1 .. Len(q) - 1 : q2[i] = IF i < k THEN q[i] ELSE q[i + 1]
  BY DEF Shrunk
<1>3. /\ pos2[y] = 0 /\ y \in Node
      /\ \A m \in Node : m # y => pos2[m] = IF pos[m] > k THEN pos[m] - 1 ELSE pos[m]
  BY DEF CutPlaces, On
<1>4. pos2 \in [Node -> Nat]
  <2>1. \A m \in Node : (IF m = y THEN 0 ELSE IF pos[m] > k THEN pos[m] - 1 ELSE pos[m]) \in Nat
    BY <1>1, <1>2
  <2> QED
    BY <2>1 DEF CutPlaces
<1>5. k \in Nat /\ k >= 1 /\ k <= Len(q) /\ q[k] = y
  BY <1>1, <1>2
<1> HIDE DEF pos2, k
<1>6. On(pos2) = On(pos) \ {y}
  <2>1. ASSUME NEW m \in Node PROVE pos2[m] # 0 <=> pos[m] # 0 /\ m # y
    <3>1. pos[m] \in Nat
      BY <1>1
    <3> QED
      BY <1>3, <1>5, <3>1
  <2> QED
    BY <2>1 DEF On
<1>7. ASSUME NEW m \in On(pos2) PROVE pos2[m] \in 1 .. Len(q2) /\ q2[pos2[m]] = m
  <2>1. m \in On(pos) /\ m \in Node /\ m # y
    BY <1>6 DEF On
  <2>2. pos[m] \in 1 .. Len(q) /\ q[pos[m]] = m /\ pos[m] # k
    BY <1>1, <1>5, <2>1
  <2>3. CASE pos[m] > k
    <3>1. pos2[m] = pos[m] - 1
      BY <1>3, <2>1, <2>3
    <3>2. pos[m] - 1 \in 1 .. Len(q) - 1 /\ ~(pos[m] - 1 < k) /\ (pos[m] - 1) + 1 = pos[m]
      BY <1>1, <1>5, <2>2, <2>3
    <3> QED
      BY <1>2, <2>2, <3>1, <3>2
  <2>4. CASE ~(pos[m] > k)
    <3>1. pos2[m] = pos[m]
      BY <1>3, <2>1, <2>4
    <3>2. pos[m] \in 1 .. Len(q) - 1 /\ pos[m] < k
      BY <1>1, <1>5, <2>2, <2>4
    <3> QED
      BY <1>2, <2>2, <3>1, <3>2
  <2> QED
    BY <2>3, <2>4
<1>8. ASSUME NEW i \in 1 .. Len(q2) PROVE pos2[q2[i]] = i
  <2>0. i \in 1 .. Len(q) - 1
    BY <1>2
  <2>1. \A j \in 1 .. Len(q) : q[j] \in Node /\ pos[q[j]] = j
    BY <1>1
  <2>2. CASE i < k
    <3>1. q2[i] = q[i] /\ i \in 1 .. Len(q)
      BY <1>1, <1>2, <2>0, <2>2
    <3>2. q[i] \in Node /\ pos[q[i]] = i /\ ~(i > k) /\ q[i] # y
      BY <1>1, <1>5, <2>1, <2>2, <3>1 DEF k
    <3> QED
      BY <1>3, <3>1, <3>2
  <2>3. CASE ~(i < k)
    <3>1. q2[i] = q[i + 1] /\ i + 1 \in 1 .. Len(q)
      BY <1>1, <1>2, <2>0, <2>3
    <3>2. q[i + 1] \in Node /\ pos[q[i + 1]] = i + 1
      BY <2>1, <3>1
    <3>3. i + 1 > k /\ i + 1 # k /\ (i + 1) - 1 = i
      BY <1>5, <2>0, <2>3
    <3>4. q[i + 1] # y
      BY <3>2, <3>3 DEF k
    <3> QED
      BY <1>3, <3>1, <3>2, <3>3, <3>4
  <2> QED
    BY <2>2, <2>3
<1>9. Places(q2, pos2)
  BY <1>2, <1>4, <1>7, <1>8 DEF Places
<1> QED
  BY <1>3, <1>6, <1>9 DEF pos2, k

(* The shape that is left when a node with at most one child goes.         *)
LEMMA CutShape ==
  ASSUME NEW q, NEW pos, NEW ext, NEW kd, NEW par, NEW rt,
         Shape(q, pos, ext, kd, par, rt),
         NEW y \in On(pos), NEW x, OnlyKid(kd, y, x),
         NEW q2, Shrunk(q, q2, pos[y]),
         NEW kd2, NEW par2, NEW rt2, CutLinks(pos, kd, par, rt, y, x, kd2, par2, rt2)
  PROVE  Shape(q2, CutPlaces(pos, y), CutSpans(ext, pos[y]), kd2, par2, rt2)
<1> DEFINE pos2 == CutPlaces(pos, y)
           ext2 == CutSpans(ext, pos[y])
           k == pos[y]
<1>1. /\ q \in Seq(Node) /\ Len(q) \in Nat /\ pos \in [Node -> Nat]
      /\ ext \in [Side -> [Node -> Int]]
      /\ On(pos) \subseteq Node /\ Nil \notin Node /\ Nil \notin On(pos)
      /\ "L" \in Side /\ "R" \in Side
  BY ShapeTypes
<1>2. Places(q, pos)
  BY DEF Shape
<1>3. /\ Places(q2, pos2) /\ On(pos2) = On(pos) \ {y}
      /\ \A m \in Node : m # y => pos2[m] = IF pos[m] > k THEN pos[m] - 1 ELSE pos[m]
  BY <1>2, CutPlacesAre
<1>4. /\ LinkTypes(kd2, par2, rt2)
      /\ \A m \in On(pos) \ {y}, e \in Side : kd2[e][m] = IF kd[e][m] = y THEN x ELSE kd[e][m]
      /\ \A m \in On(pos) \ {y} : par2[m] = IF m = x THEN par[y] ELSE par[m]
      /\ rt2 = IF rt = y THEN x ELSE rt
  BY DEF CutLinks
<1>5. Len(q2) = Len(q) - 1 /\ k \in 1 .. Len(q)
  BY DEF Shrunk
<1>6. \A m \in Node :
        /\ ext2["L"][m] = IF ext["L"][m] > k THEN ext["L"][m] - 1 ELSE ext["L"][m]
        /\ ext2["R"][m] = IF ext["R"][m] >= k THEN ext["R"][m] - 1 ELSE ext["R"][m]
  BY <1>1 DEF CutSpans
<1>7. ext2 \in [Side -> [Node -> Int]]
  <2> SUFFICES ASSUME NEW e \in Side, NEW m \in Node
               PROVE  (IF e = "L" THEN (IF ext[e][m] > k THEN ext[e][m] - 1 ELSE ext[e][m])
                       ELSE (IF ext[e][m] >= k THEN ext[e][m] - 1 ELSE ext[e][m])) \in Int
    BY DEF CutSpans
  <2>1. ext[e][m] \in Int
    BY <1>1
  <2> QED
    BY <2>1
<1>8. k \in Nat /\ k >= 1 /\ k <= Len(q) /\ Len(q) \in Nat /\ q[k] = y
  <2>1. q[k] = y
    BY KidSpans
  <2> QED
    BY <1>1, <1>5, <2>1
<1> HIDE DEF pos2, ext2, k
<1>9. ASSUME NEW m \in On(pos2)
      PROVE  /\ m \in On(pos) /\ m \in Node /\ m # y /\ pos[m] \in Nat /\ pos[m] # k
             /\ ext["L"][m] \in Nat /\ ext["R"][m] \in Nat
             /\ 1 <= ext["L"][m] /\ ext["L"][m] <= pos[m]
             /\ pos[m] <= ext["R"][m] /\ ext["R"][m] <= Len(q)
             /\ pos2[m] = IF pos[m] > k THEN pos[m] - 1 ELSE pos[m]
             /\ ext2["L"][m] = IF ext["L"][m] > k THEN ext["L"][m] - 1 ELSE ext["L"][m]
             /\ ext2["R"][m] = IF ext["R"][m] >= k THEN ext["R"][m] - 1 ELSE ext["R"][m]
  <2>1. m \in On(pos) /\ m \in Node /\ m # y
    BY <1>1, <1>3
  <2>2. /\ pos[m] \in 1 .. Len(q) /\ q[pos[m]] = m
        /\ ext["L"][m] \in 1 .. pos[m] /\ ext["R"][m] \in pos[m] .. Len(q)
    BY <2>1, KidSpans
  <2>3. pos[m] # k
    BY <1>8, <2>1, <2>2
  <2>4. /\ pos[m] \in Nat /\ ext["L"][m] \in Nat /\ ext["R"][m] \in Nat
        /\ 1 <= ext["L"][m] /\ ext["L"][m] <= pos[m]
        /\ pos[m] <= ext["R"][m] /\ ext["R"][m] <= Len(q)
    BY <1>8, <2>2
  <2> QED
    BY <1>3, <1>6, <2>1, <2>3, <2>4
(* Where x was in the span of y.                                           *)
<1>10. /\ ext["L"][y] \in Nat /\ ext["R"][y] \in Nat /\ ext["L"][y] <= k /\ k <= ext["R"][y]
       /\ ext["L"][y] >= 1 /\ ext["R"][y] <= Len(q)
       /\ x = Nil => ext["L"][y] = k /\ ext["R"][y] = k
       /\ x # Nil => /\ x \in On(pos) /\ x # y /\ par[x] = y
                     /\ \/ /\ ext["L"][x] = ext["L"][y] /\ ext["R"][x] = k - 1 /\ ext["R"][y] = k
                        \/ /\ ext["R"][x] = ext["R"][y] /\ ext["L"][x] = k + 1 /\ ext["L"][y] = k
  <2>1. PICK d \in Side : kd[d][y] = x /\ kd[Other(d)][y] = Nil
    BY DEF OnlyKid
  <2>2. /\ ext["L"][y] \in 1 .. k /\ ext["R"][y] \in k .. Len(q)
        /\ kd["L"][y] = Nil => ext["L"][y] = k
        /\ kd["R"][y] = Nil => ext["R"][y] = k
        /\ kd["L"][y] # Nil =>
             /\ kd["L"][y] \in On(pos) /\ par[kd["L"][y]] = y
             /\ ext["L"][kd["L"][y]] = ext["L"][y] /\ ext["R"][kd["L"][y]] = k - 1
        /\ kd["R"][y] # Nil =>
             /\ kd["R"][y] \in On(pos) /\ par[kd["R"][y]] = y
             /\ ext["R"][kd["R"][y]] = ext["R"][y] /\ ext["L"][kd["R"][y]] = k + 1
    BY KidSpans DEF k
  <2>3. /\ ext["L"][y] \in Nat /\ ext["R"][y] \in Nat /\ ext["L"][y] <= k /\ k <= ext["R"][y]
        /\ ext["L"][y] >= 1 /\ ext["R"][y] <= Len(q)
    BY <1>8, <2>2
  <2>4. x # Nil => x # y
    BY <2>1, LinkFacts
  <2>5. (d = "L" /\ Other(d) = "R") \/ (d = "R" /\ Other(d) = "L")
    BY DEF Side, Other
  <2> QED
    BY <2>1, <2>2, <2>3, <2>4, <2>5
<1>11. x # Nil => x \in On(pos2)
  BY <1>3, <1>10
(* What the span of x becomes is what is left of the span of y.            *)
<1>12. x # Nil => /\ ext2["L"][x] = ext["L"][y] /\ ext2["R"][x] = ext["R"][y] - 1
  <2> SUFFICES ASSUME x # Nil
               PROVE  ext2["L"][x] = ext["L"][y] /\ ext2["R"][x] = ext["R"][y] - 1
    OBVIOUS
  <2>1. /\ ext2["L"][x] = IF ext["L"][x] > k THEN ext["L"][x] - 1 ELSE ext["L"][x]
        /\ ext2["R"][x] = IF ext["R"][x] >= k THEN ext["R"][x] - 1 ELSE ext["R"][x]
    BY <1>9, <1>11
  <2>2. CASE ext["L"][x] = ext["L"][y] /\ ext["R"][x] = k - 1 /\ ext["R"][y] = k
    BY <1>8, <1>10, <2>1, <2>2
  <2>3. CASE ext["R"][x] = ext["R"][y] /\ ext["L"][x] = k + 1 /\ ext["L"][y] = k
    BY <1>8, <1>10, <2>1, <2>3
  <2> QED
    BY <1>10, <2>2, <2>3
<1>13. Spans(q2, pos2, ext2)
  <2>1. ASSUME NEW m \in On(pos2)
        PROVE  /\ 1 <= ext2["L"][m] /\ ext2["L"][m] <= pos2[m]
               /\ pos2[m] <= ext2["R"][m] /\ ext2["R"][m] <= Len(q2)
    <3>1. /\ pos[m] \in Nat /\ ext["L"][m] \in Nat /\ ext["R"][m] \in Nat /\ pos[m] # k
          /\ 1 <= ext["L"][m] /\ ext["L"][m] <= pos[m]
          /\ pos[m] <= ext["R"][m] /\ ext["R"][m] <= Len(q)
      BY <1>9
    <3>2. /\ pos2[m] = IF pos[m] > k THEN pos[m] - 1 ELSE pos[m]
          /\ ext2["L"][m] = IF ext["L"][m] > k THEN ext["L"][m] - 1 ELSE ext["L"][m]
          /\ ext2["R"][m] = IF ext["R"][m] >= k THEN ext["R"][m] - 1 ELSE ext["R"][m]
      BY <1>9
    <3>3. Len(q2) = Len(q) - 1 /\ k \in Nat /\ k >= 1 /\ k <= Len(q) /\ Len(q) \in Nat
      BY <1>5, <1>8
    <3>4. 1 <= ext2["L"][m] /\ ext2["L"][m] <= pos2[m]
      BY <3>1, <3>2, <3>3
    <3>5. pos2[m] <= ext2["R"][m]
      BY <3>1, <3>2, <3>3
    <3>6. ext2["R"][m] <= Len(q2)
      BY <3>1, <3>2, <3>3
    <3> QED
      BY <3>4, <3>5, <3>6
  <2> QED
    BY <1>7, <2>1 DEF Spans
<1>14. ASSUME NEW m \in On(pos2), NEW e \in Side PROVE KidOK(pos2, ext2, kd2, par2, m, e)
  <2>0. (e = "L" /\ Other(e) = "R" /\ Sign(e) = -1) \/ (e = "R" /\ Other(e) = "L" /\ Sign(e) = 1)
    BY DEF Side, Other, Sign
  <2>1. /\ m \in On(pos) /\ m \in Node /\ m # y /\ pos[m] \in Nat /\ pos[m] # k
        /\ ext["L"][m] \in Nat /\ ext["R"][m] \in Nat
        /\ pos2[m] = IF pos[m] > k THEN pos[m] - 1 ELSE pos[m]
        /\ ext2["L"][m] = IF ext["L"][m] > k THEN ext["L"][m] - 1 ELSE ext["L"][m]
        /\ ext2["R"][m] = IF ext["R"][m] >= k THEN ext["R"][m] - 1 ELSE ext["R"][m]
    BY <1>9
  <2>2. kd2[e][m] = IF kd[e][m] = y THEN x ELSE kd[e][m]
    BY <1>4, <2>1
  <2>3. CASE kd[e][m] = Nil
    <3>1. kd2[e][m] = Nil
      BY <1>1, <2>2, <2>3
    <3>2. ext[e][m] = pos[m]
      BY <2>0, <2>1, <2>3, KidSpans
    <3>3. ext2[e][m] = pos2[m]
      BY <1>8, <2>0, <2>1, <3>2
    <3> QED
      BY <3>1, <3>3 DEF KidOK
  <2>4. CASE kd[e][m] = y
    <3>1. /\ e = "L" => ext["L"][y] = ext["L"][m] /\ ext["R"][y] = pos[m] - 1
          /\ e = "R" => ext["R"][y] = ext["R"][m] /\ ext["L"][y] = pos[m] + 1
          /\ par[y] = m
      <4>1. y # Nil
        BY <1>1
      <4> QED
        BY <2>0, <2>1, <2>4, <4>1, KidSpans
    <3>2. /\ e = "L" => ext2["L"][m] = ext["L"][y] /\ pos2[m] = ext["R"][y]
          /\ e = "R" => ext2["R"][m] = ext["R"][y] - 1 /\ pos2[m] = ext["L"][y] - 1
      <4>a. /\ ext["L"][y] \in Nat /\ ext["R"][y] \in Nat /\ k \in Nat
            /\ ext["L"][y] <= k /\ k <= ext["R"][y]
        BY <1>8, <1>10
      <4>1. CASE e = "L"
        <5>1. pos[m] > k /\ ~(ext["L"][m] > k)
          BY <2>1, <3>1, <4>1, <4>a
        <5> QED
          BY <2>1, <3>1, <4>1, <5>1
      <4>2. CASE e = "R"
        <5>1. ~(pos[m] > k) /\ ext["R"][m] >= k
          BY <2>1, <3>1, <4>2, <4>a
        <5> QED
          BY <2>1, <3>1, <4>2, <5>1
      <4> QED
        BY <2>0, <4>1, <4>2
    <3>3. CASE x = Nil
      <4>1. kd2[e][m] = Nil /\ ext["L"][y] = k /\ ext["R"][y] = k
        BY <1>10, <2>2, <2>4, <3>3
      <4>2. ext2[e][m] = pos2[m]
        BY <2>0, <3>2, <4>1
      <4> QED
        BY <4>1, <4>2 DEF KidOK
    <3>4. CASE x # Nil
      <4>1. kd2[e][m] = x /\ x \in On(pos2)
        BY <1>11, <2>2, <2>4, <3>4
      <4>2. par2[x] = m
        BY <1>3, <1>4, <3>1, <4>1
      <4>3. ext2["L"][x] = ext["L"][y] /\ ext2["R"][x] = ext["R"][y] - 1
        BY <1>12, <3>4
      <4>4. ext["L"][y] \in Nat /\ ext["R"][y] \in Nat
        BY <1>10
      <4>5. ext2[e][x] = ext2[e][m] /\ ext2[Other(e)][x] = pos2[m] + Sign(e)
        BY <2>0, <3>2, <4>3, <4>4
      <4> QED
        BY <3>4, <4>1, <4>2, <4>5 DEF KidOK
    <3> QED
      BY <3>3, <3>4
  <2>5. CASE kd[e][m] # Nil /\ kd[e][m] # y
    <3>1. PICK c : c = kd[e][m]
      OBVIOUS
    <3>2. /\ e = "L" => ext["L"][c] = ext["L"][m] /\ ext["R"][c] = pos[m] - 1
          /\ e = "R" => ext["R"][c] = ext["R"][m] /\ ext["L"][c] = pos[m] + 1
          /\ par[c] = m /\ c \in On(pos) /\ c # Nil
      BY <2>0, <2>1, <2>5, <3>1, KidSpans
    <3>3. c \in On(pos2) /\ kd2[e][m] = c
      BY <1>3, <2>2, <2>5, <3>1, <3>2
    <3>4. par2[c] = m
      <4>1. c # x
        BY <1>10, <2>1, <3>2
      <4> QED
        BY <1>3, <1>4, <3>2, <3>3, <4>1
    <3>5. /\ ext2["L"][c] = IF ext["L"][c] > k THEN ext["L"][c] - 1 ELSE ext["L"][c]
          /\ ext2["R"][c] = IF ext["R"][c] >= k THEN ext["R"][c] - 1 ELSE ext["R"][c]
      BY <1>9, <3>3
    <3>6. ext2[e][c] = ext2[e][m] /\ ext2[Other(e)][c] = pos2[m] + Sign(e)
      <4>1. CASE e = "L"
        <5>1. ext2["L"][c] = ext2["L"][m]
          BY <2>1, <3>2, <3>5, <4>1
        <5>2. ext2["R"][c] = pos2[m] - 1
          BY <1>8, <2>1, <3>2, <3>5, <4>1
        <5>3. pos2[m] - 1 = pos2[m] + (-1)
          BY <2>1
        <5> QED
          BY <2>0, <4>1, <5>1, <5>2, <5>3
      <4>2. CASE e = "R"
        <5>1. ext2["R"][c] = ext2["R"][m]
          BY <2>1, <3>2, <3>5, <4>2
        <5>2. ext2["L"][c] = pos2[m] + 1
          <6>1. ext2["L"][c] = IF pos[m] + 1 > k THEN pos[m] ELSE pos[m] + 1
            BY <2>1, <3>2, <3>5, <4>2
          <6>2. pos[m] \in Nat /\ pos[m] # k /\ pos2[m] = IF pos[m] > k THEN pos[m] - 1 ELSE pos[m]
            BY <2>1
          <6> QED
            BY <1>8, <6>1, <6>2
        <5> QED
          BY <2>0, <4>2, <5>1, <5>2
      <4> QED
        BY <2>0, <4>1, <4>2
    <3> QED
      BY <3>2, <3>3, <3>4, <3>6 DEF KidOK
  <2> QED
    BY <2>3, <2>4, <2>5
<1>15. RootOK(q2, pos2, ext2, par2, rt2)
  <2>1. /\ rt # Nil /\ rt \in On(pos) /\ par[rt] = Nil
        /\ ext["L"][rt] = 1 /\ ext["R"][rt] = Len(q)
    <3>1. RootOK(q, pos, ext, par, rt)
      BY DEF Shape
    <3>2. q # <<>>
      BY <1>1, <1>8
    <3> QED
      BY <3>1, <3>2 DEF RootOK
  <2>2. CASE rt # y
    <3>1. rt2 = rt /\ rt \in On(pos2)
      BY <1>3, <1>4, <2>1, <2>2
    <3>2. par2[rt] = Nil
      <4>1. rt # x
        BY <1>1, <1>10, <2>1
      <4> QED
        BY <1>4, <2>1, <2>2, <4>1
    <3>3. ext2["L"][rt] = 1 /\ ext2["R"][rt] = Len(q2)
      <4>1. /\ ext2["L"][rt] = IF ext["L"][rt] > k THEN ext["L"][rt] - 1 ELSE ext["L"][rt]
            /\ ext2["R"][rt] = IF ext["R"][rt] >= k THEN ext["R"][rt] - 1 ELSE ext["R"][rt]
        BY <1>9, <3>1
      <4> QED
        BY <1>5, <1>8, <2>1, <4>1
    <3> QED
      BY <2>1, <3>1, <3>2, <3>3 DEF RootOK
  <2>3. CASE rt = y
    <3>1. rt2 = x /\ ext["L"][y] = 1 /\ ext["R"][y] = Len(q) /\ par[y] = Nil
      BY <1>4, <2>1, <2>3
    <3>2. CASE x = Nil
      <4>1. Len(q2) = 0
        BY <1>5, <1>8, <1>10, <3>1, <3>2
      <4>2. q2 = <<>>
        BY <1>3, <4>1 DEF Places
      <4> QED
        BY <3>1, <3>2, <4>2 DEF RootOK
    <3>3. CASE x # Nil
      <4>1. par2[x] = Nil
        BY <1>3, <1>4, <1>11, <3>1, <3>3
      <4>2. ext2["L"][x] = 1 /\ ext2["R"][x] = Len(q2)
        BY <1>5, <1>12, <3>1, <3>3
      <4> QED
        BY <1>11, <3>1, <3>3, <4>1, <4>2 DEF RootOK
    <3> QED
      BY <3>2, <3>3
  <2> QED
    BY <2>2, <2>3
<1>16. ASSUME NEW m \in On(pos2) PROVE UpOK(pos2, kd2, par2, rt2, m)
  <2> SUFFICES ASSUME m # rt2
               PROVE  par2[m] \in On(pos2) /\ \E e \in Side : kd2[e][par2[m]] = m
    BY DEF UpOK
  <2>1. m \in On(pos) /\ m # y /\ m # Nil
    BY <1>1, <1>3
  <2>2. CASE m = x
    <3>1. par2[m] = par[y] /\ y # rt
      BY <1>4, <2>1, <2>2
    <3>2. par[y] \in On(pos) /\ par[y] # y /\ \E e \in Side : kd[e][par[y]] = y
      BY <3>1, UpFacts
    <3> QED
      BY <1>3, <1>4, <2>2, <3>1, <3>2
  <2>3. CASE m # x
    <3>1. par2[m] = par[m] /\ m # rt
      BY <1>4, <2>1, <2>3
    <3>2. PICK e \in Side : kd[e][par[m]] = m
      BY <2>1, <3>1, UpFacts
    <3>3. par[m] \in On(pos)
      BY <2>1, <3>1, UpFacts
    <3>4. par[m] # y
      <4> SUFFICES ASSUME par[m] = y PROVE FALSE
        OBVIOUS
      <4>1. PICK d \in Side : kd[d][y] = x /\ kd[Other(d)][y] = Nil
        BY DEF OnlyKid
      <4>2. kd[e][y] = m
        BY <3>2
      <4>3. e = d \/ e = Other(d)
        BY DEF Side, Other
      <4> QED
        BY <2>1, <2>3, <4>1, <4>2, <4>3
    <3> QED
      BY <1>3, <1>4, <2>1, <3>1, <3>2, <3>3, <3>4
  <2> QED
    BY <2>2, <2>3
<1>17. Shape(q2, pos2, ext2, kd2, par2, rt2)
  BY <1>3, <1>4, <1>13, <1>14, <1>15, <1>16 DEF Shape
<1> QED
  BY <1>17 DEF pos2, ext2, k

(* The heights that are left: where a black node went its parent has one   *)
(* black node less on that side.                                           *)
LEMMA CutHeights ==
  ASSUME NEW q, NEW pos, NEW ext, NEW kd, NEW par, NEW rt,
         Shape(q, pos, ext, kd, par, rt),
         NEW y \in On(pos), NEW x, OnlyKid(kd, y, x),
         NEW kd2, NEW par2, NEW rt2, CutLinks(pos, kd, par, rt, y, x, kd2, par2, rt2),
         NEW pos2, On(pos2) = On(pos) \ {y},
         NEW col, NEW bh, NEW s0, Heights(pos, kd, col, bh, Nil, s0)
  PROVE  \E sd \in Side :
           /\ Heights(pos2, kd2, col, bh, IF col[y] = "RED" THEN Nil ELSE par[y], sd)
           /\ y # rt => par[y] \in On(pos2) /\ kd2[sd][par[y]] = x
<1>1. /\ On(pos) \subseteq Node /\ Nil \notin Node /\ Nil \notin On(pos)
      /\ kd \in [Side -> [Node -> Link]] /\ par \in [Node -> Link] /\ "L" \in Side
  BY ShapeTypes
<1>2. \A m \in On(pos) \ {y}, e \in Side : kd2[e][m] = IF kd[e][m] = y THEN x ELSE kd[e][m]
  BY DEF CutLinks
<1>3. \E sd \in Side : y # rt => /\ par[y] \in On(pos) /\ par[y] # y /\ kd[sd][par[y]] = y
                                 /\ kd[Other(sd)][par[y]] # y
  <2>1. CASE y = rt
    BY <1>1, <2>1
  <2>2. CASE y # rt
    <3>1. par[y] \in On(pos) /\ par[y] # y
      BY <2>2, UpFacts
    <3>2. \E sd \in Side : kd[sd][par[y]] = y /\ kd[Other(sd)][par[y]] # y
      BY <2>2, UpFacts
    <3> QED
      BY <3>1, <3>2
  <2> QED
    BY <2>1, <2>2
<1>4. PICK sd \in Side : y # rt => /\ par[y] \in On(pos) /\ par[y] # y /\ kd[sd][par[y]] = y
                                   /\ kd[Other(sd)][par[y]] # y
  BY <1>3
<1>5. y # rt => par[y] \in On(pos2) /\ kd2[sd][par[y]] = x
  BY <1>2, <1>4
<1>6. PICK p : p = IF col[y] = "RED" THEN Nil ELSE par[y]
  OBVIOUS
<1>7. bh \in [Link -> Nat] /\ bh[Nil] = 0
  BY DEF Heights
<1>8. ASSUME NEW m \in On(pos2), NEW e \in Side PROVE HeightOK(kd2, col, bh, p, sd, m, e)
  <2>1. m \in On(pos) /\ m # y /\ m \in Node /\ m # Nil /\ m \in Link /\ kd[e][m] \in Link
    BY <1>1 DEF Link
  <2>2. bh[m] = bh[kd[e][m]] + 0 + (IF col[m] = "RED" THEN 0 ELSE 1)
    <3>1. HeightOK(kd, col, bh, Nil, s0, m, e)
      BY <2>1 DEF Heights
    <3> QED
      BY <2>1, <3>1 DEF HeightOK
  <2>3. bh[m] \in Nat /\ bh[kd[e][m]] \in Nat
    BY <1>7, <2>1
  <2>4. CASE kd[e][m] = y
    <3>1. par[y] = m /\ y # rt
      <4>1. y # Nil
        BY <1>1
      <4> QED
        BY <2>1, <2>4, <4>1, LinkFacts
    <3>2. e = sd
      <4>1. kd[sd][m] = y /\ kd[Other(sd)][m] # y
        BY <1>4, <3>1
      <4>2. e = sd \/ e = Other(sd)
        BY DEF Side, Other
      <4> QED
        BY <2>4, <4>1, <4>2
    <3>3. PICK d \in Side : kd[d][y] = x
      BY DEF OnlyKid
    <3>4. bh[y] = bh[x] + 0 + (IF col[y] = "RED" THEN 0 ELSE 1)
      <4>1. HeightOK(kd, col, bh, Nil, s0, y, d)
        BY DEF Heights
      <4>2. y # Nil
        BY <1>1
      <4> QED
        BY <3>3, <4>1, <4>2 DEF HeightOK
    <3>5. x \in Link
      BY <1>1, <3>3
    <3>6. bh[x] \in Nat /\ bh[y] = bh[kd[e][m]]
      BY <1>7, <2>4, <3>5
    <3>7. kd2[e][m] = x
      BY <1>2, <2>1, <2>4
    <3>8. (IF m = p /\ e = sd THEN 1 ELSE 0) = (IF col[y] = "RED" THEN 0 ELSE 1)
      BY <1>6, <2>1, <3>1, <3>2
    <3>9. bh[m] = bh[x] + (IF col[y] = "RED" THEN 0 ELSE 1) + (IF col[m] = "RED" THEN 0 ELSE 1)
      BY <2>2, <3>4, <3>6
    <3> QED
      BY <3>7, <3>8, <3>9 DEF HeightOK
  <2>5. CASE kd[e][m] # y
    <3>1. kd2[e][m] = kd[e][m]
      BY <1>2, <2>1, <2>5
    <3>2. ~(m = p /\ e = sd)
      <4> SUFFICES ASSUME m = p, e = sd PROVE FALSE
        OBVIOUS
      <4>1. m = par[y] /\ par[y] # Nil
        BY <1>6, <2>1
      <4>2. y # rt
        BY <4>1, UpFacts
      <4> QED
        BY <1>4, <2>5, <4>1, <4>2
    <3> QED
      BY <2>2, <3>1, <3>2 DEF HeightOK
  <2> QED
    BY <2>4, <2>5
<1>9. Heights(pos2, kd2, col, bh, p, sd)
  BY <1>7, <1>8 DEF Heights
<1> QED
  BY <1>5, <1>6, <1>9

(* A red pair, or a red root, appears only where a black node went.        *)
LEMMA CutCalm ==
  ASSUME NEW q, NEW pos, NEW ext, NEW kd, NEW par, NEW rt,
         Shape(q, pos, ext, kd, par, rt),
         NEW y \in On(pos), NEW x, OnlyKid(kd, y, x),
         NEW kd2, NEW par2, NEW rt2, CutLinks(pos, kd, par, rt, y, x, kd2, par2, rt2),
         NEW col, ~(rt # Nil /\ col[rt] = "RED"),
         \A m \in On(pos) : ~(col[m] = "RED" /\ par[m] # Nil /\ col[par[m]] = "RED")
  PROVE  /\ \A m \in On(pos) \ {y} :
              col[m] = "RED" /\ par2[m] # Nil /\ col[par2[m]] = "RED" => m = x /\ col[y] # "RED"
         /\ rt2 # Nil /\ col[rt2] = "RED" => rt2 = x /\ col[y] # "RED"
         /\ x # Nil => x \in On(pos) \ {y}
         /\ y = rt => rt2 = x
         /\ x = rt2 <=> y = rt
         /\ x = rt2 => par[y] = Nil
<1>1. Nil \notin On(pos)
  BY ShapeTypes
<1>2. /\ \A m \in On(pos) \ {y} : par2[m] = IF m = x THEN par[y] ELSE par[m]
      /\ rt2 = IF rt = y THEN x ELSE rt
  BY DEF CutLinks
<1>3. PICK d \in Side : kd[d][y] = x
  BY DEF OnlyKid
<1>4. x # Nil => x \in On(pos) /\ x # y /\ par[x] = y /\ x # rt
  BY <1>3, LinkFacts
<1>5. ASSUME NEW m \in On(pos) \ {y}, col[m] = "RED", par2[m] # Nil, col[par2[m]] = "RED"
      PROVE  m = x /\ col[y] # "RED"
  <2>1. m = x
    BY <1>2, <1>5
  <2>2. x # Nil
    BY <1>1, <2>1
  <2>3. y # Nil
    BY <1>1
  <2> QED
    BY <1>4, <1>5, <2>1, <2>2, <2>3
<1>6. rt2 # Nil /\ col[rt2] = "RED" => rt2 = x /\ col[y] # "RED"
  BY <1>1, <1>2
<1>7. (x = rt2 <=> y = rt) /\ (x = rt2 => par[y] = Nil)
  <2>1. y = rt => par[y] = Nil
    BY UpFacts
  <2>2. rt # Nil
    <3>1. pos[y] \in 1 .. Len(q)
      BY KidSpans
    <3>2. q # <<>>
      BY <3>1
    <3> QED
      BY <3>2 DEF Shape, RootOK
  <2> QED
    BY <1>2, <1>4, <2>1, <2>2
<1> QED
  BY <1>2, <1>4, <1>5, <1>6, <1>7

(* y, which is not in the tree, takes over the place of z in it.           *)
Moved(z, y, m) == IF m = z THEN y ELSE m

(* The links once y has taken the place, the children and the father of z. *)
MovedLinks(pos, kd, par, rt, z, y, kd2, par2, rt2) ==
  /\ LinkTypes(kd2, par2, rt2)
  /\ \A m \in On(pos), e \in Side : kd2[e][Moved(z, y, m)] = Moved(z, y, kd[e][m])
  /\ \A m \in On(pos) : par2[Moved(z, y, m)] = Moved(z, y, par[m])
  /\ rt2 = Moved(z, y, rt)

(* The places after that.                                                  *)
MovedPlaces(pos, z, y) == [m \in Node |-> IF m = y THEN pos[z] ELSE IF m = z THEN 0 ELSE pos[m]]

(* The spans after that.                                                   *)
MovedSpans(ext, z, y) == [e \in Side |-> [m \in Node |-> IF m = y THEN ext[e][z] ELSE ext[e][m]]]

(* The nodes of the tree with y for z.                                     *)
LEMMA MovedFacts ==
  ASSUME NEW q, NEW pos, NEW ext, NEW kd, NEW par, NEW rt,
         Shape(q, pos, ext, kd, par, rt), NEW z \in On(pos), NEW y \in Node, pos[y] = 0
  PROVE  /\ z \in Node /\ z # y /\ z # Nil /\ y # Nil /\ y \notin On(pos) /\ Moved(z, y, Nil) = Nil
         /\ MovedPlaces(pos, z, y) \in [Node -> Nat]
         /\ MovedSpans(ext, z, y) \in [Side -> [Node -> Int]]
         /\ On(MovedPlaces(pos, z, y)) = (On(pos) \ {z}) \cup {y}
         /\ \A m \in On(pos) :
              /\ Moved(z, y, m) \in On(MovedPlaces(pos, z, y)) /\ Moved(z, y, m) # Nil
              /\ MovedPlaces(pos, z, y)[Moved(z, y, m)] = pos[m]
              /\ \A e \in Side : MovedSpans(ext, z, y)[e][Moved(z, y, m)] = ext[e][m]
         /\ \A n \in On(MovedPlaces(pos, z, y)) : \E m \in On(pos) : n = Moved(z, y, m)
         /\ \A m, n \in On(pos) \cup {Nil} : Moved(z, y, m) = Moved(z, y, n) => m = n
<1> DEFINE pos2 == MovedPlaces(pos, z, y)
           ext2 == MovedSpans(ext, z, y)
<1>1. /\ pos \in [Node -> Nat] /\ ext \in [Side -> [Node -> Int]]
      /\ On(pos) \subseteq Node /\ Nil \notin Node /\ Nil \notin On(pos)
  BY ShapeTypes
<1>2. z \in Node /\ z # y /\ z # Nil /\ y # Nil /\ y \notin On(pos) /\ Moved(z, y, Nil) = Nil
  BY <1>1 DEF On, Moved
<1>3. pos2 \in [Node -> Nat]
  <2>1. \A m \in Node : (IF m = y THEN pos[z] ELSE IF m = z THEN 0 ELSE pos[m]) \in Nat
    BY <1>1, <1>2
  <2> QED
    BY <2>1 DEF MovedPlaces
<1>4. ext2 \in [Side -> [Node -> Int]]
  <2>1. \A e \in Side, m \in Node : (IF m = y THEN ext[e][z] ELSE ext[e][m]) \in Int
    BY <1>1, <1>2
  <2> QED
    BY <2>1 DEF MovedSpans
<1>5. /\ pos2[y] = pos[z] /\ pos2[z] = 0
      /\ \A m \in Node : m # y /\ m # z => pos2[m] = pos[m]
  BY <1>2 DEF MovedPlaces
<1>6. \A e \in Side : /\ ext2[e][y] = ext[e][z]
                      /\ \A m \in Node : m # y => ext2[e][m] = ext[e][m]
  BY <1>2 DEF MovedSpans
<1> HIDE DEF pos2, ext2
<1>7. On(pos2) = (On(pos) \ {z}) \cup {y}
  <2>1. pos[z] # 0
    BY DEF On
  <2>2. ASSUME NEW m \in Node PROVE pos2[m] # 0 <=> (pos[m] # 0 /\ m # z) \/ m = y
    BY <1>5, <2>1
  <2> QED
    BY <2>2 DEF On
<1>8. ASSUME NEW m \in On(pos)
      PROVE  /\ Moved(z, y, m) \in On(pos2) /\ Moved(z, y, m) # Nil
             /\ pos2[Moved(z, y, m)] = pos[m]
             /\ \A e \in Side : ext2[e][Moved(z, y, m)] = ext[e][m]
  <2>1. CASE m = z
    <3>1. Moved(z, y, m) = y
      BY <2>1 DEF Moved
    <3> QED
      BY <1>2, <1>5, <1>6, <1>7, <2>1, <3>1
  <2>2. CASE m # z
    <3>1. Moved(z, y, m) = m /\ m # y /\ m \in Node /\ m # Nil
      BY <1>1, <1>2, <2>2 DEF Moved
    <3> QED
      BY <1>5, <1>6, <1>7, <2>2, <3>1
  <2> QED
    BY <2>1, <2>2
<1>9. ASSUME NEW n \in On(pos2) PROVE \E m \in On(pos) : n = Moved(z, y, m)
  <2>1. CASE n = y
    BY <2>1 DEF Moved
  <2>2. CASE n # y
    <3>1. n \in On(pos) /\ n # z
      BY <1>7, <2>2
    <3> QED
      BY <3>1 DEF Moved
  <2> QED
    BY <2>1, <2>2
<1>10. \A m, n \in On(pos) \cup {Nil} : Moved(z, y, m) = Moved(z, y, n) => m = n
  BY <1>2 DEF Moved
<1> QED
  BY <1>2, <1>3, <1>4, <1>7, <1>8, <1>9, <1>10 DEF pos2, ext2

(* The shape stays as it is.                                               *)
LEMMA MovedShape ==
  ASSUME NEW q, NEW pos, NEW ext, NEW kd, NEW par, NEW rt,
         Shape(q, pos, ext, kd, par, rt), NEW z \in On(pos), NEW y \in Node, pos[y] = 0,
         NEW kd2, NEW par2, NEW rt2, MovedLinks(pos, kd, par, rt, z, y, kd2, par2, rt2),
         NEW q2 \in Seq(Node), Len(q2) = Len(q),
         \A i \in 1 .. Len(q) : q2[i] = Moved(z, y, q[i])
  PROVE  Shape(q2, MovedPlaces(pos, z, y), MovedSpans(ext, z, y), kd2, par2, rt2)
<1> DEFINE R(m) == Moved(z, y, m)
<1>0. PICK pos2, ext2 : pos2 = MovedPlaces(pos, z, y) /\ ext2 = MovedSpans(ext, z, y)
  OBVIOUS
<1>1. /\ pos \in [Node -> Nat] /\ ext \in [Side -> [Node -> Int]] /\ Len(q) \in Nat
      /\ q \in Seq(Node) /\ Nil \notin On(pos) /\ "L" \in Side /\ "R" \in Side
  BY ShapeTypes
<1>2. pos2 \in [Node -> Nat] /\ ext2 \in [Side -> [Node -> Int]] /\ R(Nil) = Nil
  BY <1>0, MovedFacts
<1>3. \A m \in On(pos) : /\ R(m) \in On(pos2) /\ R(m) # Nil /\ pos2[R(m)] = pos[m]
                         /\ \A e \in Side : ext2[e][R(m)] = ext[e][m]
  <2>1. \A m \in On(pos) :
          /\ Moved(z, y, m) \in On(MovedPlaces(pos, z, y)) /\ Moved(z, y, m) # Nil
          /\ MovedPlaces(pos, z, y)[Moved(z, y, m)] = pos[m]
          /\ \A e \in Side : MovedSpans(ext, z, y)[e][Moved(z, y, m)] = ext[e][m]
    BY MovedFacts
  <2> QED
    BY <1>0, <2>1, Zenon
<1>4. \A n \in On(pos2) : \E m \in On(pos) : n = R(m)
  BY <1>0, MovedFacts
<1>5. \A m, n \in On(pos) \cup {Nil} : R(m) = R(n) => m = n
  BY MovedFacts
<1>6. /\ LinkTypes(kd2, par2, rt2)
      /\ \A m \in On(pos), e \in Side : kd2[e][R(m)] = R(kd[e][m])
      /\ \A m \in On(pos) : par2[R(m)] = R(par[m])
      /\ rt2 = R(rt)
  BY DEF MovedLinks
<1> HIDE DEF R
<1>7. /\ \A n \in On(pos) : pos[n] \in 1 .. Len(q) /\ q[pos[n]] = n
      /\ \A i \in 1 .. Len(q) : pos[q[i]] = i /\ q[i] \in On(pos)
  <2>1. Places(q, pos)
    BY DEF Shape
  <2>2. \A i \in 1 .. Len(q) : pos[q[i]] = i /\ q[i] \in Node
    BY <1>1, <2>1 DEF Places
  <2>3. \A i \in 1 .. Len(q) : q[i] \in On(pos)
    BY <1>1, <2>2 DEF On
  <2> QED
    BY <2>1, <2>2, <2>3 DEF Places
<1>8. Places(q2, pos2)
  <2>1. ASSUME NEW n \in On(pos2) PROVE pos2[n] \in 1 .. Len(q2) /\ q2[pos2[n]] = n
    <3>1. PICK m \in On(pos) : n = R(m)
      BY <1>4
    <3>2. pos2[n] = pos[m] /\ pos[m] \in 1 .. Len(q) /\ q[pos[m]] = m
      BY <1>3, <1>7, <3>1
    <3> QED
      BY <3>1, <3>2 DEF R
  <2>2. ASSUME NEW i \in 1 .. Len(q2) PROVE pos2[q2[i]] = i
    <3>1. q2[i] = R(q[i]) /\ q[i] \in On(pos) /\ pos[q[i]] = i
      BY <1>7 DEF R
    <3> QED
      BY <1>3, <3>1
  <2> QED
    BY <1>2, <2>1, <2>2 DEF Places
<1>9. Spans(q2, pos2, ext2)
  <2>1. ASSUME NEW n \in On(pos2)
        PROVE  /\ 1 <= ext2["L"][n] /\ ext2["L"][n] <= pos2[n]
               /\ pos2[n] <= ext2["R"][n] /\ ext2["R"][n] <= Len(q2)
    <3>1. PICK m \in On(pos) : n = R(m)
      BY <1>4
    <3>2. /\ 1 <= ext["L"][m] /\ ext["L"][m] <= pos[m]
          /\ pos[m] <= ext["R"][m] /\ ext["R"][m] <= Len(q)
      BY DEF Shape, Spans
    <3>3. pos2[n] = pos[m] /\ ext2["L"][n] = ext["L"][m] /\ ext2["R"][n] = ext["R"][m]
      BY <1>1, <1>3, <3>1
    <3> QED
      BY <3>2, <3>3
  <2> QED
    BY <1>2, <2>1 DEF Spans
<1>10. RootOK(q2, pos2, ext2, par2, rt2)
  <2>0. RootOK(q, pos, ext, par, rt)
    BY DEF Shape
  <2>1. CASE rt = Nil
    <3>1. q = <<>> /\ rt2 = Nil
      BY <1>2, <1>6, <2>0, <2>1 DEF RootOK
    <3>2. Len(q2) = 0
      BY <3>1
    <3>3. q2 = <<>>
      BY <3>2
    <3> QED
      BY <3>1, <3>3 DEF RootOK
  <2>2. CASE rt # Nil
    <3>1. rt \in On(pos) /\ par[rt] = Nil /\ ext["L"][rt] = 1 /\ ext["R"][rt] = Len(q)
      BY <2>0, <2>2 DEF RootOK
    <3>2. rt2 \in On(pos2) /\ rt2 # Nil /\ ext2["L"][rt2] = 1 /\ ext2["R"][rt2] = Len(q2)
      BY <1>1, <1>3, <1>6, <3>1
    <3>3. par2[rt2] = Nil
      BY <1>2, <1>6, <3>1
    <3> QED
      BY <3>2, <3>3 DEF RootOK
  <2> QED
    BY <2>1, <2>2
<1>11. ASSUME NEW n \in On(pos2), NEW e \in Side PROVE KidOK(pos2, ext2, kd2, par2, n, e)
  <2>1. PICK m \in On(pos) : n = R(m)
    BY <1>4
  <2>2. KidOK(pos, ext, kd, par, m, e)
    BY DEF Shape
  <2>3. kd2[e][n] = R(kd[e][m]) /\ pos2[n] = pos[m] /\ ext2[e][n] = ext[e][m]
    BY <1>3, <1>6, <2>1
  <2>4. CASE kd[e][m] = Nil
    BY <1>2, <2>2, <2>3, <2>4 DEF KidOK
  <2>5. CASE kd[e][m] # Nil
    <3>1. PICK c : c = kd[e][m]
      OBVIOUS
    <3>2. /\ c \in On(pos) /\ par[c] = m /\ ext[e][c] = ext[e][m]
          /\ ext[Other(e)][c] = pos[m] + Sign(e)
      BY <2>2, <2>5, <3>1 DEF KidOK
    <3>3. R(c) \in On(pos2) /\ R(c) # Nil /\ kd2[e][n] = R(c)
      BY <1>3, <2>3, <3>1, <3>2
    <3>4. par2[R(c)] = n
      BY <1>6, <2>1, <3>2
    <3>5. Other(e) \in Side
      BY DEF Other, Side
    <3>6. ext2[e][R(c)] = ext2[e][n] /\ ext2[Other(e)][R(c)] = pos2[n] + Sign(e)
      BY <1>3, <2>3, <3>2, <3>5
    <3> QED
      BY <3>3, <3>4, <3>6 DEF KidOK
  <2> QED
    BY <2>4, <2>5
<1>12. ASSUME NEW n \in On(pos2) PROVE UpOK(pos2, kd2, par2, rt2, n)
  <2> SUFFICES ASSUME n # rt2
               PROVE  par2[n] \in On(pos2) /\ \E d \in Side : kd2[d][par2[n]] = n
    BY DEF UpOK
  <2>1. PICK m \in On(pos) : n = R(m)
    BY <1>4
  <2>2. m # rt
    BY <1>6, <2>1
  <2>3. par[m] \in On(pos) /\ \E d \in Side : kd[d][par[m]] = m
    BY <2>2, UpFacts
  <2>4. par2[n] = R(par[m])
    BY <1>6, <2>1
  <2> QED
    BY <1>3, <1>6, <2>1, <2>3, <2>4
<1>13. Shape(q2, pos2, ext2, kd2, par2, rt2)
  BY <1>6, <1>8, <1>9, <1>10, <1>11, <1>12 DEF Shape
<1> QED
  BY <1>0, <1>13

(* So do the heights, when y also takes over the colour.                   *)
LEMMA MovedHeights ==
  ASSUME NEW q, NEW pos, NEW ext, NEW kd, NEW par, NEW rt,
         Shape(q, pos, ext, kd, par, rt), NEW z \in On(pos), NEW y \in Node, pos[y] = 0,
         NEW kd2, NEW par2, NEW rt2, MovedLinks(pos, kd, par, rt, z, y, kd2, par2, rt2),
         NEW col, NEW col2, \A m \in On(pos) : col2[Moved(z, y, m)] = col[m],
         NEW bh, NEW p \in On(pos) \cup {Nil}, NEW sd, Heights(pos, kd, col, bh, p, sd)
  PROVE  \E bh2 : Heights(MovedPlaces(pos, z, y), kd2, col2, bh2, Moved(z, y, p), sd)
<1> DEFINE R(m) == Moved(z, y, m)
           bh2 == [m \in Link |-> IF m = y THEN bh[z] ELSE bh[m]]
<1>0. PICK pos2 : pos2 = MovedPlaces(pos, z, y)
  OBVIOUS
<1>1. /\ kd \in [Side -> [Node -> Link]] /\ On(pos) \subseteq Node /\ Nil \notin On(pos)
      /\ Nil \in Link /\ On(pos) \subseteq Link
  BY ShapeTypes DEF Link
<1>2. z \in Link /\ z # y /\ y # Nil /\ y \notin On(pos)
  BY <1>1, MovedFacts
<1>3. \A n \in On(pos2) : \E m \in On(pos) : n = R(m)
  BY <1>0, MovedFacts
<1>4. \A m, n \in On(pos) \cup {Nil} : R(m) = R(n) => m = n
  BY MovedFacts
<1>5. \A m \in On(pos), e \in Side : kd2[e][R(m)] = R(kd[e][m])
  BY DEF MovedLinks
<1>6. bh \in [Link -> Nat] /\ bh[Nil] = 0
  BY DEF Heights
<1>7. bh2 \in [Link -> Nat] /\ bh2[Nil] = 0
  <2>1. \A m \in Link : (IF m = y THEN bh[z] ELSE bh[m]) \in Nat
    BY <1>2, <1>6
  <2> QED
    BY <1>1, <1>2, <1>6, <2>1
<1>8. \A m \in On(pos) \cup {Nil} : bh2[R(m)] = bh[m]
  <2>1. y \in Link
    BY DEF Link
  <2> QED
    BY <1>1, <1>2, <2>1 DEF Moved
<1> HIDE DEF bh2, R
<1>9. ASSUME NEW n \in On(pos2), NEW e \in Side PROVE HeightOK(kd2, col2, bh2, R(p), sd, n, e)
  <2>1. PICK m \in On(pos) : n = R(m)
    BY <1>3
  <2>2. kd[e][m] \in On(pos) \cup {Nil}
    BY LinkFacts
  <2>3. HeightOK(kd, col, bh, p, sd, m, e)
    BY DEF Heights
  <2>4. bh2[kd2[e][n]] = bh[kd[e][m]] /\ bh2[n] = bh[m]
    BY <1>5, <1>8, <2>1, <2>2
  <2>5. n = R(p) <=> m = p
    BY <1>4, <2>1
  <2>6. col2[n] = col[m]
    BY <2>1 DEF R
  <2> QED
    BY <2>3, <2>4, <2>5, <2>6 DEF HeightOK
<1>10. Heights(pos2, kd2, col2, bh2, R(p), sd)
  BY <1>7, <1>9 DEF Heights
<1> QED
  BY <1>0, <1>10 DEF R

(* The node that rb_remove puts in the place of one with two children: the *)
(* next in order, which has no left child and is itself a left child when  *)
(* it is not the right child of that node.                                 *)
LEMMA NextInOrder ==
  ASSUME NEW q, NEW pos, NEW ext, NEW kd, NEW par, NEW rt,
         Shape(q, pos, ext, kd, par, rt),
         \A n \in Node \ On(pos), d \in Side : kd[d][n] \in On(pos) \cup {Nil},
         NEW z \in On(pos), kd["L"][z] # Nil, kd["R"][z] # Nil,
         NEW y, y = rb_minimum(kd, kd["R"][z])
  PROVE  /\ y \in On(pos) /\ pos[y] = pos[z] + 1 /\ y # z /\ kd["L"][y] = Nil
         /\ y # rt /\ y # kd["L"][z] /\ y # par[z]
         /\ par[y] = z <=> y = kd["R"][z]
<1>1. /\ q \in Seq(Node) /\ Len(q) \in Nat /\ pos \in [Node -> Nat]
      /\ On(pos) \subseteq Node /\ Nil \notin Node /\ Nil \notin On(pos)
      /\ "L" \in Side /\ "R" \in Side
  BY ShapeTypes
<1>2. PICK c, k : c = kd["R"][z] /\ k = pos[z]
  OBVIOUS
<1>3. /\ k \in 1 .. Len(q) /\ q[k] = z /\ ext["R"][z] \in k .. Len(q) /\ ext["L"][z] \in 1 .. k
      /\ c \in On(pos) /\ par[c] = z /\ ext["L"][c] = k + 1 /\ ext["R"][c] = ext["R"][z]
      /\ kd["L"][z] \in On(pos) /\ ext["R"][kd["L"][z]] = k - 1
  BY <1>2, KidSpans
<1>4. y = q[k + 1]
  BY <1>2, <1>3, MinimumIs
<1>5. k \in Nat /\ k + 1 \in 1 .. Len(q)
  <2>1. ext["L"][c] \in 1 .. pos[c] /\ pos[c] \in 1 .. Len(q)
    BY <1>3, KidSpans
  <2> QED
    BY <1>1, <1>3, <2>1
<1>6. y \in On(pos) /\ pos[y] = k + 1
  <2>1. y \in Node
    BY <1>1, <1>4, <1>5
  <2>2. pos[y] = k + 1
    BY <1>4, <1>5 DEF Shape, Places
  <2> QED
    BY <1>5, <2>1, <2>2 DEF On
<1>7. y # z
  BY <1>2, <1>5, <1>6
<1>8. kd["L"][y] = Nil
  <2> DEFINE S == {pos[n] : n \in {u \in On(pos) : ext["L"][u] = k + 1}}
  <2>1. S \subseteq Nat /\ S # {}
    BY <1>1, <1>3
  <2>2. PICK i \in S : \A j \in S : i <= j
    BY <2>1, Least
  <2>3. PICK n \in On(pos) : ext["L"][n] = k + 1 /\ pos[n] = i
    BY <2>2
  <2>4. /\ pos[n] \in Nat
        /\ kd["L"][n] = Nil => ext["L"][n] = pos[n]
        /\ kd["L"][n] # Nil => kd["L"][n] \in On(pos) /\ ext["L"][kd["L"][n]] = ext["L"][n]
                               /\ ext["R"][kd["L"][n]] = pos[n] - 1
        /\ q[pos[n]] = n
    <3>1. pos[n] \in Nat
      BY <1>1
    <3> QED
      BY <3>1, KidSpans
  <2>5. kd["L"][n] = Nil
    <3> SUFFICES ASSUME kd["L"][n] # Nil PROVE FALSE
      OBVIOUS
    <3>1. PICK m : m = kd["L"][n]
      OBVIOUS
    <3>2. m \in On(pos) /\ ext["L"][m] = k + 1 /\ ext["R"][m] = pos[n] - 1
      BY <2>3, <2>4, <3>1
    <3>3. pos[m] \in S
      BY <3>2
    <3>4. i <= pos[m]
      BY <2>2, <3>3
    <3>5. pos[m] \in Nat /\ pos[m] <= ext["R"][m]
      <4>1. pos[m] \in 1 .. Len(q) /\ ext["R"][m] \in pos[m] .. Len(q)
        BY <3>2, KidSpans
      <4> QED
        BY <1>1, <4>1
    <3> QED
      BY <2>3, <2>4, <3>2, <3>4, <3>5
  <2>6. n = y
    BY <1>4, <2>3, <2>4, <2>5
  <2> QED
    BY <2>5, <2>6
<1>9. ext["L"][y] = k + 1
  BY <1>6, <1>8, KidSpans
<1>10. y # rt
  <2> SUFFICES ASSUME y = rt PROVE FALSE
    OBVIOUS
  <2>1. y # Nil
    BY <1>1, <1>6
  <2>2. ext["L"][rt] = 1
    BY <2>1 DEF Shape, RootOK
  <2> QED
    BY <1>3, <1>5, <1>9, <2>2
<1>11. y # kd["L"][z]
  <2>1. pos[kd["L"][z]] \in Nat /\ pos[kd["L"][z]] <= k - 1
    <3>1. /\ pos[kd["L"][z]] \in 1 .. Len(q)
          /\ ext["R"][kd["L"][z]] \in pos[kd["L"][z]] .. Len(q)
      BY <1>3, KidSpans
    <3> QED
      BY <1>1, <1>3, <1>5, <3>1
  <2> QED
    BY <1>5, <1>6, <2>1
<1>12. y # par[z]
  <2> SUFFICES ASSUME y = par[z] PROVE FALSE
    OBVIOUS
  <2>1. z # rt
    BY <1>1, <1>6, UpFacts
  <2>2. pos[y] < ext["L"][z] \/ ext["R"][z] < pos[y]
    BY <2>1, UpFacts
  <2>3. k + 1 <= ext["R"][z]
    <3>1. ext["L"][c] \in 1 .. pos[c] /\ pos[c] \in 1 .. Len(q) /\ ext["R"][c] \in pos[c] .. Len(q)
      BY <1>3, KidSpans
    <3> QED
      BY <1>1, <1>3, <1>5, <3>1
  <2>4. ext["R"][z] \in Nat /\ ext["L"][z] \in Nat /\ ext["L"][z] <= k
    BY <1>3, <1>5
  <2> QED
    BY <1>5, <1>6, <2>2, <2>3, <2>4
<1>13. par[y] = z <=> y = kd["R"][z]
  <2>1. ASSUME par[y] = z PROVE y = kd["R"][z]
    <3>1. PICK d \in Side : kd[d][z] = y
      BY <1>6, <1>10, <2>1, UpFacts
    <3> QED
      BY <1>11, <3>1 DEF Side
  <2> QED
    BY <1>2, <1>3, <2>1
<1> QED
  BY <1>2, <1>6, <1>7, <1>8, <1>10, <1>11, <1>12, <1>13

(* DropSingle puts the only child of z, or Nil, in the place of z.         *)
LEMMA SingleLinks ==
  ASSUME NEW q, NEW pos, NEW ext, Shape(q, pos, ext, kid, parent, root),
         NEW z \in On(pos), DropSingle(z)
  PROVE  /\ OnlyKid(kid, z, at') /\ at' \in Link /\ up' = parent[z] /\ color' = color
         /\ CutLinks(pos, kid, parent, root, z, at', kid', parent', root')
         /\ \A n \in Node, d \in Side : n \notin On(pos) \ {z} => kid'[d][n] = kid[d][n]
<1>1. /\ On(pos) \subseteq Node /\ Nil \notin Node /\ Nil \notin On(pos)
      /\ kid \in [Side -> [Node -> Link]] /\ parent \in [Node -> Link] /\ root \in Link
      /\ "L" \in Side /\ "R" \in Side
  BY ShapeTypes
<1>2. PICK x, p : x = kid[IF kid["L"][z] = Nil THEN "R" ELSE "L"][z] /\ p = parent[z]
  OBVIOUS
<1>3. /\ kid["L"][z] = Nil \/ kid["R"][z] = Nil
      /\ kid' = Hang(kid, p, z, x) /\ parent' = Under(parent, x, p) /\ root' = Top(p, x)
      /\ at' = x /\ up' = p /\ color' = color
  BY <1>2 DEF DropSingle
<1>4. x \in Link /\ p \in Link /\ z \in Node
  BY <1>1, <1>2
<1>5. OnlyKid(kid, z, x)
  <2>1. CASE kid["L"][z] = Nil
    <3>1. kid["R"][z] = x /\ kid[Other("R")][z] = Nil
      BY <1>2, <2>1 DEF Other
    <3> QED
      BY <1>1, <3>1 DEF OnlyKid
  <2>2. CASE kid["L"][z] # Nil
    <3>1. kid["L"][z] = x /\ kid[Other("L")][z] = Nil
      BY <1>2, <1>3, <2>2 DEF Other
    <3> QED
      BY <1>1, <3>1 DEF OnlyKid
  <2> QED
    BY <2>1, <2>2
<1>6. /\ p = Nil <=> z = root
      /\ p # Nil => /\ p \in On(pos) /\ p # z
                    /\ \E d \in Side : kid[d][p] = z /\ kid[Other(d)][p] # z
  <2>1. p = Nil <=> z = root
    BY <1>2, UpFacts
  <2>2. z # root => p \in On(pos) /\ p # z
    BY <1>2, UpFacts
  <2>3. z # root => \E d \in Side : kid[d][p] = z /\ kid[Other(d)][p] # z
    BY <1>2, UpFacts
  <2> QED
    BY <2>1, <2>2, <2>3
<1>7. /\ kid' \in [Side -> [Node -> Link]]
      /\ \A m \in Node, e \in Side : kid'[e][m] = IF m = p /\ kid[e][m] = z THEN x ELSE kid[e][m]
  <2>1. p # Nil => \E d \in Side : kid[d][p] = z /\ kid[Other(d)][p] # z
    BY <1>6
  <2>2. kid \in [Side -> [Node -> Link]] /\ p \in Link /\ x \in Link
    BY <1>1, <1>4
  <2>3. /\ Hang(kid, p, z, x) \in [Side -> [Node -> Link]]
        /\ \A m \in Node, e \in Side :
             Hang(kid, p, z, x)[e][m] = IF m = p /\ kid[e][m] = z THEN x ELSE kid[e][m]
    BY <2>1, <2>2, HangFacts
  <2> QED
    BY <1>3, <2>3
<1>8. ASSUME NEW m \in On(pos), NEW e \in Side, kid[e][m] = z PROVE m = p
  <2>1. z # Nil
    BY <1>1
  <2> QED
    BY <1>2, <1>8, <2>1, LinkFacts
<1>9. /\ parent' \in [Node -> Link]
      /\ \A m \in Node : parent'[m] = IF m = x THEN p ELSE parent[m]
  BY <1>1, <1>3, <1>4 DEF Under, Link
<1>10. root' = (IF root = z THEN x ELSE root) /\ root' \in Link
  BY <1>1, <1>3, <1>4, <1>6 DEF Top
<1>11. CutLinks(pos, kid, parent, root, z, x, kid', parent', root')
  <2>1. LinkTypes(kid', parent', root')
    BY <1>7, <1>9, <1>10 DEF LinkTypes
  <2>2. \A m \in On(pos) \ {z}, e \in Side : kid'[e][m] = IF kid[e][m] = z THEN x ELSE kid[e][m]
    BY <1>1, <1>7, <1>8
  <2>3. \A m \in On(pos) \ {z} : parent'[m] = IF m = x THEN parent[z] ELSE parent[m]
    BY <1>1, <1>2, <1>9
  <2> QED
    BY <1>10, <2>1, <2>2, <2>3 DEF CutLinks
<1>12. \A n \in Node, d \in Side : n \notin On(pos) \ {z} => kid'[d][n] = kid[d][n]
  BY <1>1, <1>6, <1>7
<1> QED
  BY <1>2, <1>3, <1>4, <1>5, <1>11, <1>12

(* The links after DropDouble: y goes from where it was, and then takes    *)
(* over the place of z.                                                    *)
LEMMA DoubleLinks ==
  ASSUME NEW q, NEW pos, NEW ext, Shape(q, pos, ext, kid, parent, root),
         \A n \in Node \ On(pos), d \in Side : kid[d][n] \in On(pos) \cup {Nil},
         NEW z \in On(pos), NEW y, y = rb_minimum(kid, kid["R"][z]), DropDouble(z, y),
         NEW pos2, On(pos2) = On(pos) \ {y}
  PROVE  /\ OnlyKid(kid, y, at') /\ at' \in Link /\ at' # z
         /\ up' = Moved(z, y, parent[y])
         /\ \A n \in Node, d \in Side : n \notin On(pos) \ {z} => kid'[d][n] = kid[d][n]
         /\ \E kd2, par2 :
              /\ CutLinks(pos, kid, parent, root, y, at', kd2, par2, root)
              /\ MovedLinks(pos2, kd2, par2, root, z, y, kid', parent', root')
<1>1. /\ On(pos) \subseteq Node /\ Nil \notin Node /\ Nil \notin On(pos)
      /\ kid \in [Side -> [Node -> Link]] /\ parent \in [Node -> Link] /\ root \in Link
      /\ "L" \in Side /\ "R" \in Side
  BY ShapeTypes
<1>2. PICK x, p, w, a, b : /\ x = kid["R"][y] /\ p = parent[y] /\ w = parent[z]
                           /\ a = kid["L"][z] /\ b = kid["R"][z]
  OBVIOUS
<1>3. a # Nil /\ b # Nil
  BY <1>2 DEF DropDouble
<1>4. /\ y \in On(pos) /\ y # z /\ kid["L"][y] = Nil
      /\ y # root /\ y # a /\ y # w /\ (p = z <=> y = b)
  <2>1. kid["L"][z] # Nil /\ kid["R"][z] # Nil
    BY <1>2, <1>3
  <2>2. /\ y \in On(pos) /\ y # z /\ kid["L"][y] = Nil
        /\ y # root /\ y # kid["L"][z] /\ y # parent[z]
        /\ parent[y] = z <=> y = kid["R"][z]
    BY <2>1, NextInOrder
  <2> QED
    BY <1>2, <2>2
<1>5. /\ z \in Node /\ y \in Node /\ a \in On(pos) /\ b \in On(pos) /\ a # z /\ b # z /\ a # b
      /\ parent[a] = z /\ parent[b] = z
  <2>1. a \in On(pos) /\ a # z /\ parent[a] = z
    BY <1>1, <1>2, <1>3, LinkFacts
  <2>2. b \in On(pos) /\ b # z /\ parent[b] = z
    BY <1>1, <1>2, <1>3, LinkFacts
  <2>3. a # b
    BY <1>1, <1>2, <1>3, KidsDiffer DEF Other
  <2> QED
    BY <1>1, <1>4, <2>1, <2>2, <2>3
<1>6. /\ x \in Link /\ x # y
      /\ x # Nil => x \in On(pos) /\ parent[x] = y
      /\ x # z /\ x # a /\ x # b
  <2>1. x # Nil => x \in On(pos) /\ parent[x] = y /\ x # y
    BY <1>1, <1>2, <1>4, LinkFacts
  <2>2. x # z
    <3> SUFFICES ASSUME x = z PROVE FALSE
      OBVIOUS
    <3>1. parent[z] = y
      BY <1>1, <2>1
    <3> QED
      BY <1>2, <1>4, <3>1
  <2>3. x # a /\ x # b
    BY <1>3, <1>4, <1>5, <2>1
  <2>4. y # Nil
    BY <1>1, <1>5
  <2> QED
    BY <1>1, <1>2, <1>5, <2>1, <2>2, <2>3, <2>4
<1>7. OnlyKid(kid, y, x)
  BY <1>1, <1>2, <1>4 DEF OnlyKid, Other
<1>8. /\ p \in On(pos) /\ p # y
      /\ \E d \in Side : kid[d][p] = y /\ kid[Other(d)][p] # y
  <2>1. p \in On(pos) /\ p # y
    BY <1>2, <1>4, UpFacts
  <2>2. \E d \in Side : kid[d][p] = y /\ kid[Other(d)][p] # y
    BY <1>2, <1>4, UpFacts
  <2> QED
    BY <2>1, <2>2
<1>9. /\ w \in Link /\ w # z /\ (w = Nil <=> z = root)
      /\ w # Nil => w \in On(pos) /\ \E d \in Side : kid[d][w] = z /\ kid[Other(d)][w] # z
  <2>1. w = Nil <=> z = root
    BY <1>2, UpFacts
  <2>2. z # root => w \in On(pos) /\ w # z
    BY <1>2, UpFacts
  <2>3. z # root => \E d \in Side : kid[d][w] = z /\ kid[Other(d)][w] # z
    BY <1>2, UpFacts
  <2>4. w # z
    BY <1>1, <2>1, <2>2
  <2>5. w \in Link
    BY <1>1, <1>2, <1>5
  <2> QED
    BY <2>1, <2>2, <2>3, <2>4, <2>5
<1>10. ASSUME NEW m \in On(pos), NEW e \in Side
       PROVE  /\ kid[e][m] = y => m = p
              /\ kid[e][m] = z => m = w
              /\ parent[m] = z => m = a \/ m = b
  <2>1. y # Nil /\ z # Nil
    BY <1>1, <1>5
  <2>2. kid[e][m] = y => m = p
    BY <1>2, <2>1, LinkFacts
  <2>3. kid[e][m] = z => m = w
    BY <1>2, <2>1, LinkFacts
  <2>4. ASSUME parent[m] = z PROVE m = a \/ m = b
    <3>1. m # root
      BY <2>1, <2>4, UpFacts
    <3>2. \E d \in Side : kid[d][z] = m
      BY <2>4, <3>1, UpFacts
    <3> QED
      BY <1>2, <3>2 DEF Side
  <2> QED
    BY <2>2, <2>3, <2>4
<1> DEFINE deep == p # z
           kids == IF deep THEN [Hang(kid, p, y, x) EXCEPT !["R"][y] = b] ELSE kid
           pars == IF deep THEN [Under(parent, x, p) EXCEPT ![b] = y] ELSE parent
<1>11. /\ kid' = [Hang(kids, w, z, y) EXCEPT !["L"][y] = a]
       /\ parent' = [pars EXCEPT ![y] = w, ![a] = y]
       /\ root' = Top(w, y) /\ at' = x /\ up' = IF deep THEN p ELSE y
  BY <1>2 DEF DropDouble
<1>12. /\ kids \in [Side -> [Node -> Link]]
       /\ \A m \in Node, e \in Side :
            kids[e][m] = IF deep /\ m = y /\ e = "R" THEN b
                         ELSE IF deep /\ m = p /\ kid[e][m] = y THEN x ELSE kid[e][m]
  <2>1. CASE ~deep
    BY <1>1, <2>1
  <2>2. CASE deep
    <3>1. p \in Link /\ b \in Link /\ x \in Link
      BY <1>1, <1>5, <1>6, <1>8 DEF Link
    <3>2. p # Nil => \E d \in Side : kid[d][p] = y /\ kid[Other(d)][p] # y
      BY <1>8
    <3>3. PICK h : h = Hang(kid, p, y, x)
      OBVIOUS
    <3>4. /\ h \in [Side -> [Node -> Link]]
          /\ \A m \in Node, e \in Side : h[e][m] = IF m = p /\ kid[e][m] = y THEN x ELSE kid[e][m]
      BY <1>1, <3>1, <3>2, <3>3, HangFacts
    <3>5. kids = [h EXCEPT !["R"][y] = b]
      BY <2>2, <3>3
    <3> HIDE DEF kids
    <3>6. y \in Node /\ "R" \in Side
      BY <1>1, <1>5
    <3>7. kids \in [Side -> [Node -> Link]]
      BY <3>1, <3>4, <3>5, <3>6
    <3>8. \A m \in Node, e \in Side : kids[e][m] = IF m = y /\ e = "R" THEN b ELSE h[e][m]
      BY <3>4, <3>5, <3>6
    <3> QED
      BY <2>2, <3>4, <3>7, <3>8
  <2> QED
    BY <2>1, <2>2
<1>13. w # Nil => \E d \in Side : kids[d][w] = z /\ kids[Other(d)][w] # z
  <2> SUFFICES ASSUME w # Nil PROVE \E d \in Side : kids[d][w] = z /\ kids[Other(d)][w] # z
    OBVIOUS
  <2> HIDE DEF kids
  <2>1. PICK d \in Side : kid[d][w] = z /\ kid[Other(d)][w] # z
    BY <1>9
  <2>2. w \in Node /\ w # y /\ Other(d) \in Side
    BY <1>1, <1>4, <1>9 DEF Other, Side
  <2>3. kids[d][w] = z
    BY <1>4, <1>12, <2>1, <2>2
  <2>4. kids[Other(d)][w] # z
    BY <1>6, <1>12, <2>1, <2>2
  <2> QED
    BY <2>3, <2>4
<1>14. /\ kid' \in [Side -> [Node -> Link]]
       /\ \A m \in Node, e \in Side :
            kid'[e][m] = IF m = y /\ e = "L" THEN a
                         ELSE IF m = w /\ kids[e][m] = z THEN y ELSE kids[e][m]
  <2> HIDE DEF kids
  <2>1. PICK h : h = Hang(kids, w, z, y)
    OBVIOUS
  <2>2. y \in Link /\ a \in Link
    BY <1>5, <1>1 DEF Link
  <2>3. /\ h \in [Side -> [Node -> Link]]
        /\ \A m \in Node, e \in Side : h[e][m] = IF m = w /\ kids[e][m] = z THEN y ELSE kids[e][m]
    BY <1>9, <1>12, <1>13, <2>1, <2>2, HangFacts
  <2>4. kid' = [h EXCEPT !["L"][y] = a]
    BY <1>11, <2>1
  <2> QED
    BY <1>1, <1>5, <2>2, <2>3, <2>4
<1>15. /\ pars \in [Node -> Link]
       /\ \A m \in Node : pars[m] = IF deep /\ m = b THEN y
                                    ELSE IF deep /\ m = x THEN p ELSE parent[m]
  <2>1. p \in Link /\ y \in Link /\ b \in Node
    BY <1>1, <1>5, <1>8 DEF Link
  <2>2. CASE ~deep
    BY <1>1, <2>2
  <2>3. CASE deep
    <3>1. PICK h : h = Under(parent, x, p)
      OBVIOUS
    <3>2. h \in [Node -> Link] /\ \A m \in Node : h[m] = IF m = x THEN p ELSE parent[m]
      BY <1>1, <1>6, <2>1, <3>1 DEF Under, Link
    <3>3. pars = [h EXCEPT ![b] = y]
      BY <2>3, <3>1
    <3> QED
      BY <2>1, <2>3, <3>2, <3>3
  <2> QED
    BY <2>2, <2>3
<1>16. /\ parent' \in [Node -> Link]
       /\ \A m \in Node : parent'[m] = IF m = a THEN y ELSE IF m = y THEN w ELSE pars[m]
  <2> HIDE DEF pars
  <2>1. y \in Link /\ a \in Node /\ y \in Node /\ w \in Link
    BY <1>1, <1>5, <1>9 DEF Link
  <2> QED
    BY <1>4, <1>11, <1>15, <2>1
<1> HIDE DEF kids, pars
<1> DEFINE kd2 == [e \in Side |-> [m \in Node |-> IF kid[e][m] = y THEN x ELSE kid[e][m]]]
           par2 == [m \in Node |-> IF m = x THEN p ELSE parent[m]]
           R(m) == Moved(z, y, m)
<1>17. /\ kd2 \in [Side -> [Node -> Link]] /\ par2 \in [Node -> Link]
       /\ \A m \in Node, e \in Side : kd2[e][m] = IF kid[e][m] = y THEN x ELSE kid[e][m]
       /\ \A m \in Node : par2[m] = IF m = x THEN p ELSE parent[m]
  <2>1. \A e \in Side, m \in Node : (IF kid[e][m] = y THEN x ELSE kid[e][m]) \in Link
    BY <1>1, <1>6
  <2>2. \A m \in Node : (IF m = x THEN p ELSE parent[m]) \in Link
    BY <1>1, <1>8 DEF Link
  <2> QED
    BY <2>1, <2>2
<1> HIDE DEF kd2, par2
<1>18. CutLinks(pos, kid, parent, root, y, x, kd2, par2, root)
  <2>1. LinkTypes(kd2, par2, root)
    BY <1>1, <1>17 DEF LinkTypes
  <2>2. \A m \in On(pos) \ {y}, e \in Side : kd2[e][m] = IF kid[e][m] = y THEN x ELSE kid[e][m]
    BY <1>1, <1>17
  <2>3. \A m \in On(pos) \ {y} : par2[m] = IF m = x THEN parent[y] ELSE parent[m]
    BY <1>1, <1>2, <1>17
  <2>4. root = IF root = y THEN x ELSE root
    BY <1>4
  <2> QED
    BY <2>1, <2>2, <2>3, <2>4 DEF CutLinks
<1>19. ASSUME NEW m \in On(pos2), NEW e \in Side PROVE kid'[e][R(m)] = R(kd2[e][m])
  <2>1. m \in On(pos) /\ m # y /\ m \in Node
    BY <1>1
  <2>2. CASE m = z
    <3>1. R(m) = y
      BY <2>2 DEF Moved
    <3>2. CASE e = "L"
      <4>1. kid'[e][y] = a
        BY <1>1, <1>5, <1>14, <3>2
      <4>2. kd2[e][m] = a
        BY <1>2, <1>4, <1>5, <1>17, <2>2, <3>2
      <4> QED
        BY <1>5, <3>1, <4>1, <4>2 DEF Moved
    <3>3. CASE e = "R"
      <4>1. kid'[e][y] = kids[e][y]
        BY <1>1, <1>4, <1>5, <1>14, <3>3
      <4>2. kids[e][y] = IF deep THEN b ELSE x
        BY <1>1, <1>2, <1>5, <1>8, <1>12, <3>3
      <4>3. kd2[e][m] = IF deep THEN b ELSE x
        BY <1>2, <1>4, <1>5, <1>17, <2>2, <3>3
      <4> QED
        BY <1>5, <1>6, <3>1, <4>1, <4>2, <4>3 DEF Moved
    <3> QED
      BY <3>2, <3>3 DEF Side
  <2>3. CASE m # z
    <3>1. R(m) = m
      BY <2>3 DEF Moved
    <3>2. kids[e][m] = kd2[e][m]
      <4>1. kids[e][m] = IF deep /\ m = p /\ kid[e][m] = y THEN x ELSE kid[e][m]
        BY <1>12, <2>1
      <4>2. kid[e][m] = y => deep /\ m = p
        BY <1>10, <2>1, <2>3
      <4> QED
        BY <1>17, <2>1, <4>1, <4>2
    <3>3. kid'[e][m] = IF m = w /\ kids[e][m] = z THEN y ELSE kids[e][m]
      BY <1>14, <2>1
    <3>4. kd2[e][m] = z => m = w
      <4>1. kd2[e][m] = z => kid[e][m] = z
        BY <1>6, <1>17, <2>1
      <4> QED
        BY <1>10, <2>1, <4>1
    <3> QED
      BY <3>1, <3>2, <3>3, <3>4 DEF Moved
  <2> QED
    BY <2>2, <2>3
<1>20. ASSUME NEW m \in On(pos2) PROVE parent'[R(m)] = R(par2[m])
  <2>1. m \in On(pos) /\ m # y /\ m \in Node
    BY <1>1
  <2>2. CASE m = z
    <3>1. R(m) = y
      BY <2>2 DEF Moved
    <3>2. parent'[y] = w
      BY <1>4, <1>5, <1>16
    <3>3. par2[m] = w
      BY <1>2, <1>5, <1>6, <1>17, <2>2
    <3> QED
      BY <1>9, <3>1, <3>2, <3>3 DEF Moved
  <2>3. CASE m # z
    <3>1. R(m) = m
      BY <2>3 DEF Moved
    <3>2. parent'[m] = IF m = a THEN y ELSE IF deep /\ m = b THEN y
                                    ELSE IF deep /\ m = x THEN p ELSE parent[m]
      BY <1>15, <1>16, <2>1
    <3>3. CASE m = x
      <4>1. par2[m] = p /\ parent[m] = y
        BY <1>1, <1>6, <1>17, <2>1, <3>3
      <4>2. parent'[m] = IF deep THEN p ELSE y
        BY <1>6, <3>2, <3>3, <4>1
      <4> QED
        BY <3>1, <4>1, <4>2 DEF Moved
    <3>4. CASE m # x
      <4>1. par2[m] = parent[m]
        BY <1>17, <2>1, <3>4
      <4>2. parent[m] = z <=> m = a \/ m = b
        BY <1>1, <1>5, <1>10, <2>1
      <4>3. ~deep => m # b
        BY <1>4, <2>1
      <4> QED
        BY <3>1, <3>2, <3>4, <4>1, <4>2, <4>3 DEF Moved
    <3> QED
      BY <3>3, <3>4
  <2> QED
    BY <2>2, <2>3
<1>21. root' = R(root) /\ root' \in Link
  BY <1>1, <1>5, <1>9, <1>11 DEF Top, Moved, Link
<1>22. MovedLinks(pos2, kd2, par2, root, z, y, kid', parent', root')
  <2>1. LinkTypes(kid', parent', root')
    BY <1>14, <1>16, <1>21 DEF LinkTypes
  <2> QED
    BY <1>19, <1>20, <1>21, <2>1 DEF MovedLinks
<1>23. ASSUME NEW n \in Node, NEW e \in Side, n \notin On(pos) \ {z} PROVE kid'[e][n] = kid[e][n]
  <2>1. n # y /\ n # w
    BY <1>1, <1>4, <1>9, <1>23
  <2>2. deep => n # p
    BY <1>8, <1>23
  <2>3. kid'[e][n] = kids[e][n]
    BY <1>14, <2>1
  <2>4. kids[e][n] = kid[e][n]
    BY <1>12, <2>1, <2>2
  <2> QED
    BY <2>3, <2>4
<1>24. up' = R(p)
  BY <1>11 DEF Moved
<1> QED
  BY <1>2, <1>6, <1>7, <1>11, <1>18, <1>22, <1>23, <1>24

(* The tree once rb_remove has unlinked a node and before it repairs the   *)
(* colours; c is the colour the tree has lost.                             *)
Torn(q, pos, ext, bh, sd, c) ==
  /\ Shape(q, pos, ext, kid, parent, root)
  /\ Heights(pos, kid, color, bh, IF c = "RED" THEN Nil ELSE up, sd) /\ sd \in Side
  /\ at \in On(pos) \cup {Nil}
  /\ \A n \in On(pos) : Red(n) /\ Red(parent[n]) => n = at /\ c # "RED"
  /\ Red(root) => root = at /\ c # "RED"
  /\ at = root => up = Nil
  /\ at # root => up \in On(pos) /\ kid[sd][up] = at

(* A tree between operations.                                              *)
Whole(q, pos, ext, bh, sd) ==
  /\ Shape(q, pos, ext, kid, parent, root) /\ Heights(pos, kid, color, bh, Nil, sd)
  /\ color \in [Node -> {"RED", "BLACK"}]
  /\ ~Red(root) /\ \A n \in On(pos) : ~(Red(n) /\ Red(parent[n]))
  /\ \A n \in Node \ On(pos), d \in Side : kid[d][n] \in On(pos) \cup {Nil}

(* The list that is left, as RunOrder writes it.                           *)
LEMMA ShrunkIs ==
  ASSUME NEW q, NEW pos, Places(q, pos), NEW y \in On(pos)
  PROVE  Shrunk(q, Contract!Without(q, y), pos[y])
<1>1. /\ q \in Seq(Node) /\ pos[y] \in 1 .. Len(q) /\ q[pos[y]] = y
      /\ \A i \in 1 .. Len(q) : pos[q[i]] = i
  BY DEF Places
<1>2. PICK k : k = pos[y]
  OBVIOUS
<1>3. k \in 1 .. Len(q) /\ q[k] = y /\ \A i \in 1 .. Len(q) : q[i] = q[k] => i = k
  BY <1>1, <1>2
<1>4. PICK s : s = Contract!Without(q, q[k])
  OBVIOUS
<1>5. /\ s \in Seq(Node) /\ Len(s) = Len(q) - 1
      /\ \A i \in 1 .. Len(q) - 1 : s[i] = IF i < k THEN q[i] ELSE q[i + 1]
  BY <1>1, <1>3, <1>4, WithoutIs
<1>6. Shrunk(q, s, k)
  BY <1>3, <1>5 DEF Shrunk
<1> QED
  BY <1>2, <1>3, <1>4, <1>6

(* rb_remove of a thread with at most one child.                           *)
LEMMA SingleStep ==
  ASSUME NEW q, NEW pos, NEW ext, NEW bh, NEW s0,
         Whole(q, pos, ext, bh, s0), NEW z \in On(pos), NEW c, c = color[z], DropSingle(z),
         NEW q2, Shrunk(q, q2, pos[z])
  PROVE  \E pos2, ext2, bh2, sd2 :
           /\ Torn(q2, pos2, ext2, bh2, sd2, c)'
           /\ On(pos2) = On(pos) \ {z}
           /\ \A n \in Node \ On(pos2), d \in Side : kid'[d][n] = kid[d][n]
<1>0. /\ Shape(q, pos, ext, kid, parent, root) /\ Heights(pos, kid, color, bh, Nil, s0)
      /\ ~Red(root) /\ \A n \in On(pos) : ~(Red(n) /\ Red(parent[n]))
  BY DEF Whole
<1>1. /\ OnlyKid(kid, z, at') /\ up' = parent[z] /\ color' = color
      /\ CutLinks(pos, kid, parent, root, z, at', kid', parent', root')
      /\ \A n \in Node, d \in Side : n \notin On(pos) \ {z} => kid'[d][n] = kid[d][n]
  BY <1>0, SingleLinks
<1>2. PICK pos2, ext2 : pos2 = CutPlaces(pos, z) /\ ext2 = CutSpans(ext, pos[z])
  OBVIOUS
<1>3. Shape(q2, pos2, ext2, kid', parent', root')
  BY <1>0, <1>1, <1>2, CutShape
<1>4. On(pos2) = On(pos) \ {z}
  <2>1. Places(q, pos)
    BY <1>0 DEF Shape
  <2> QED
    BY <1>2, <2>1, CutPlacesAre
<1>5. PICK sd \in Side :
        /\ Heights(pos2, kid', color, bh, IF color[z] = "RED" THEN Nil ELSE parent[z], sd)
        /\ z # root => parent[z] \in On(pos2) /\ kid'[sd][parent[z]] = at'
  <2>1. /\ OnlyKid(kid, z, at')
        /\ CutLinks(pos, kid, parent, root, z, at', kid', parent', root')
    BY <1>1
  <2> QED
    BY <1>0, <1>4, <2>1, CutHeights
<1>6. /\ \A m \in On(pos) \ {z} :
           color[m] = "RED" /\ parent'[m] # Nil /\ color[parent'[m]] = "RED" => m = at' /\ color[z] # "RED"
      /\ root' # Nil /\ color[root'] = "RED" => root' = at' /\ color[z] # "RED"
      /\ at' # Nil => at' \in On(pos) \ {z}
      /\ at' = root' <=> z = root
      /\ at' = root' => parent[z] = Nil
  <2>1. /\ OnlyKid(kid, z, at')
        /\ CutLinks(pos, kid, parent, root, z, at', kid', parent', root')
    BY <1>1
  <2>2. ~(root # Nil /\ color[root] = "RED")
    BY <1>0 DEF Red
  <2>3. \A m \in On(pos) : ~(color[m] = "RED" /\ parent[m] # Nil /\ color[parent[m]] = "RED")
    <3>1. Nil \notin On(pos)
      BY <1>0, ShapeTypes
    <3> QED
      BY <1>0, <3>1 DEF Red
  <2> QED
    BY <1>0, <2>1, <2>2, <2>3, CutCalm
<1>7. Torn(q2, pos2, ext2, bh, sd, c)'
  <2>1. Heights(pos2, kid', color', bh, IF c = "RED" THEN Nil ELSE up', sd)
    BY <1>1, <1>5
  <2>2. \A n \in On(pos2) : Red(n)' /\ Red(parent[n])' => n = at' /\ c # "RED"
    BY <1>1, <1>4, <1>6 DEF Red
  <2>3. Red(root)' => root' = at' /\ c # "RED"
    BY <1>1, <1>6 DEF Red
  <2>4. at' = root' => up' = Nil
    BY <1>1, <1>6
  <2>5. at' # root' => up' \in On(pos2) /\ kid'[sd][up'] = at'
    BY <1>1, <1>5, <1>6
  <2>6. at' \in On(pos2) \cup {Nil}
    BY <1>4, <1>6
  <2> QED
    BY <1>3, <2>1, <2>2, <2>3, <2>4, <2>5, <2>6 DEF Torn
<1>8. \A n \in Node \ On(pos2), d \in Side : kid'[d][n] = kid[d][n]
  BY <1>1, <1>4
<1> QED
  BY <1>4, <1>7, <1>8

(* rb_remove of a thread with two children.                                *)
LEMMA DoubleStep ==
  ASSUME NEW q, NEW pos, NEW ext, NEW bh, NEW s0,
         Whole(q, pos, ext, bh, s0), NEW z \in On(pos), NEW y, y = rb_minimum(kid, kid["R"][z]), DropDouble(z, y),
         NEW c, c = color[y],
         NEW q2, Shrunk(q, q2, pos[z])
  PROVE  \E pos2, ext2, bh2, sd2 :
           /\ Torn(q2, pos2, ext2, bh2, sd2, c)'
           /\ On(pos2) = On(pos) \ {z}
           /\ \A n \in Node \ On(pos2), d \in Side : kid'[d][n] = kid[d][n]
<1>a. /\ Shape(q, pos, ext, kid, parent, root) /\ Heights(pos, kid, color, bh, Nil, s0)
      /\ ~Red(root) /\ \A n \in On(pos) : ~(Red(n) /\ Red(parent[n]))
      /\ color \in [Node -> {"RED", "BLACK"}]
      /\ \A n \in Node \ On(pos), d \in Side : kid[d][n] \in On(pos) \cup {Nil}
  BY DEF Whole
<1>0. /\ On(pos) \subseteq Node /\ Nil \notin Node /\ Nil \notin On(pos)
      /\ q \in Seq(Node) /\ Len(q) \in Nat
  BY <1>a, ShapeTypes
<1>1. y \in On(pos) /\ pos[y] = pos[z] + 1 /\ y # z /\ y # root
  <2>1. kid["L"][z] # Nil /\ kid["R"][z] # Nil
    BY DEF DropDouble
  <2> QED
    BY <1>a, <2>1, NextInOrder
<1>2. Places(q, pos)
  BY <1>a DEF Shape
<1>3. PICK q1, pos1, ext1 : /\ q1 = Contract!Without(q, y) /\ pos1 = CutPlaces(pos, y)
                            /\ ext1 = CutSpans(ext, pos[y])
  OBVIOUS
<1>4. Shrunk(q, q1, pos[y])
  BY <1>1, <1>2, <1>3, ShrunkIs
<1>5. On(pos1) = On(pos) \ {y} /\ pos1[y] = 0
  BY <1>1, <1>2, <1>3, <1>4, CutPlacesAre
<1>6. /\ OnlyKid(kid, y, at') /\ at' # z /\ up' = Moved(z, y, parent[y])
      /\ \A n \in Node, d \in Side : n \notin On(pos) \ {z} => kid'[d][n] = kid[d][n]
  BY <1>a, <1>5, DoubleLinks
<1>7. PICK kd1, par1 : /\ CutLinks(pos, kid, parent, root, y, at', kd1, par1, root)
                       /\ MovedLinks(pos1, kd1, par1, root, z, y, kid', parent', root')
  BY <1>a, <1>5, DoubleLinks
<1>8. Shape(q1, pos1, ext1, kd1, par1, root)
  BY <1>a, <1>1, <1>3, <1>4, <1>6, <1>7, CutShape
<1>9. z \in On(pos1) /\ y \in Node
  BY <1>0, <1>1, <1>5
<1>10. PICK pos2, ext2 : pos2 = MovedPlaces(pos1, z, y) /\ ext2 = MovedSpans(ext1, z, y)
  OBVIOUS
<1>11. Shape(q2, pos2, ext2, kid', parent', root')
  <2>1. PICK k : k = pos[z]
    OBVIOUS
  <2>2. k \in 1 .. Len(q) /\ k + 1 \in 1 .. Len(q) /\ q[k] = z /\ q[k + 1] = y
    <3>1. pos[z] \in 1 .. Len(q) /\ q[pos[z]] = z
      BY <1>a, KidSpans
    <3>2. pos[y] \in 1 .. Len(q) /\ q[pos[y]] = y
      BY <1>a, <1>1, KidSpans
    <3> QED
      BY <1>1, <2>1, <3>1, <3>2
  <2>3. /\ q2 \in Seq(Node) /\ Len(q2) = Len(q) - 1
        /\ \A i \in 1 .. Len(q) - 1 : q2[i] = IF i < k THEN q[i] ELSE q[i + 1]
    BY <2>1 DEF Shrunk
  <2>4. /\ q1 \in Seq(Node) /\ Len(q1) = Len(q) - 1
        /\ \A i \in 1 .. Len(q) - 1 : q1[i] = IF i < k + 1 THEN q[i] ELSE q[i + 1]
    BY <1>1, <1>4, <2>1 DEF Shrunk
  <2>5. \A i \in 1 .. Len(q) : pos[q[i]] = i
    BY <1>2 DEF Places
  <2>6. ASSUME NEW i \in 1 .. Len(q1) PROVE q2[i] = Moved(z, y, q1[i])
    <3>0. i \in 1 .. Len(q) - 1 /\ i \in 1 .. Len(q) /\ i + 1 \in 1 .. Len(q) /\ k \in Nat
      BY <1>0, <2>2, <2>4
    <3>1. CASE i < k
      <4>1. q2[i] = q[i] /\ q1[i] = q[i]
        BY <2>3, <2>4, <3>0, <3>1
      <4>2. q[i] # z
        BY <2>1, <2>5, <3>0, <3>1
      <4> QED
        BY <4>1, <4>2 DEF Moved
    <3>2. CASE i = k
      <4>1. q2[i] = y /\ q1[i] = z
        BY <2>2, <2>3, <2>4, <3>0, <3>2
      <4> QED
        BY <4>1 DEF Moved
    <3>3. CASE i > k
      <4>1. q2[i] = q[i + 1] /\ q1[i] = q[i + 1]
        BY <2>3, <2>4, <3>0, <3>3
      <4>2. q[i + 1] # z
        BY <2>1, <2>5, <3>0, <3>3
      <4> QED
        BY <4>1, <4>2 DEF Moved
    <3> QED
      BY <3>0, <3>1, <3>2, <3>3
  <2>7. q2 \in Seq(Node) /\ Len(q2) = Len(q1) /\ \A i \in 1 .. Len(q1) : q2[i] = Moved(z, y, q1[i])
    BY <2>3, <2>4, <2>6
  <2>8. MovedLinks(pos1, kd1, par1, root, z, y, kid', parent', root')
    BY <1>7
  <2> QED
    BY <1>5, <1>8, <1>9, <1>10, <2>7, <2>8, MovedShape
<1>12. /\ On(pos2) = (On(pos1) \ {z}) \cup {y} /\ Moved(z, y, Nil) = Nil
       /\ \A n \in On(pos2) : \E m \in On(pos1) : n = Moved(z, y, m)
       /\ \A m, n \in On(pos1) \cup {Nil} : Moved(z, y, m) = Moved(z, y, n) => m = n
       /\ \A m \in On(pos1) : Moved(z, y, m) \in On(pos2)
  <2>1. On(pos2) = (On(pos1) \ {z}) \cup {y} /\ Moved(z, y, Nil) = Nil
    BY <1>5, <1>8, <1>9, <1>10, MovedFacts
  <2>2. \A n \in On(pos2) : \E m \in On(pos1) : n = Moved(z, y, m)
    BY <1>5, <1>8, <1>9, <1>10, MovedFacts
  <2>3. \A m, n \in On(pos1) \cup {Nil} : Moved(z, y, m) = Moved(z, y, n) => m = n
    BY <1>5, <1>8, <1>9, <1>10, MovedFacts
  <2>4. \A m \in On(pos1) : Moved(z, y, m) \in On(pos2)
    BY <1>5, <1>8, <1>9, <1>10, MovedFacts
  <2> QED
    BY <2>1, <2>2, <2>3, <2>4
<1>13. On(pos2) = On(pos) \ {z}
  BY <1>1, <1>5, <1>12
<1>14. PICK p : p = parent[y]
  OBVIOUS
<1>15. PICK sd \in Side :
         /\ Heights(pos1, kd1, color, bh, IF c = "RED" THEN Nil ELSE p, sd)
         /\ p \in On(pos1) /\ kd1[sd][p] = at'
  <2>1. \E sd \in Side :
          /\ Heights(pos1, kd1, color, bh, IF color[y] = "RED" THEN Nil ELSE parent[y], sd)
          /\ y # root => parent[y] \in On(pos1) /\ kd1[sd][parent[y]] = at'
    BY <1>a, <1>1, <1>5, <1>6, <1>7, CutHeights
  <2> QED
    BY <1>1, <1>14, <2>1
<1>16. color' = [color EXCEPT ![y] = color[z]]
  BY DEF DropDouble
<1>17. \A m \in On(pos1) : color'[Moved(z, y, m)] = color[m]
  BY <1>a, <1>0, <1>5, <1>9, <1>16 DEF Moved
<1>18. PICK bh2 : Heights(pos2, kid', color', bh2, IF c = "RED" THEN Nil ELSE up', sd)
  <2>1. PICK e : e = IF c = "RED" THEN Nil ELSE p
    OBVIOUS
  <2>2. e \in On(pos1) \cup {Nil} /\ Heights(pos1, kd1, color, bh, e, sd)
    BY <1>15, <2>1
  <2>3. MovedLinks(pos1, kd1, par1, root, z, y, kid', parent', root')
    BY <1>7
  <2>4. \E bh2 : Heights(pos2, kid', color', bh2, Moved(z, y, e), sd)
    BY <1>5, <1>8, <1>9, <1>10, <1>17, <2>2, <2>3, MovedHeights
  <2>5. Moved(z, y, e) = IF c = "RED" THEN Nil ELSE up'
    BY <1>6, <1>12, <1>14, <2>1
  <2> QED
    BY <2>4, <2>5
<1>19. /\ \A m \in On(pos) \ {y} :
            color[m] = "RED" /\ par1[m] # Nil /\ color[par1[m]] = "RED" => m = at' /\ color[y] # "RED"
       /\ root # Nil /\ color[root] = "RED" => root = at' /\ color[y] # "RED"
       /\ at' # Nil => at' \in On(pos) \ {y}
       /\ at' # root
  <2>2. ~(root # Nil /\ color[root] = "RED")
    BY <1>a DEF Red
  <2>3. \A m \in On(pos) : ~(color[m] = "RED" /\ parent[m] # Nil /\ color[parent[m]] = "RED")
    BY <1>a, <1>0 DEF Red
  <2> QED
    BY <1>a, <1>1, <1>6, <1>7, <2>2, <2>3, CutCalm
<1>20. /\ \A m \in On(pos1), e \in Side : kid'[e][Moved(z, y, m)] = Moved(z, y, kd1[e][m])
       /\ \A m \in On(pos1) : parent'[Moved(z, y, m)] = Moved(z, y, par1[m])
       /\ root' = Moved(z, y, root)
  BY <1>7 DEF MovedLinks
<1>21. \A m \in On(pos1) : par1[m] \in On(pos1) \cup {Nil}
  BY <1>8, UpFacts
<1>22. root \in On(pos1) \cup {Nil} /\ at' \in On(pos1) \cup {Nil} /\ Moved(z, y, at') = at'
  <2>1. root \in On(pos1) \cup {Nil}
    BY <1>8 DEF Shape, RootOK
  <2> QED
    BY <1>5, <1>6, <1>19, <2>1 DEF Moved
<1>23. at' # root'
  BY <1>12, <1>19, <1>20, <1>22
<1>24. ASSUME NEW n \in On(pos2), Red(n)', Red(parent[n])' PROVE n = at' /\ c # "RED"
  <2>1. PICK m \in On(pos1) : n = Moved(z, y, m)
    BY <1>12
  <2>2. color'[n] = "RED" /\ parent'[n] # Nil /\ color'[parent'[n]] = "RED"
    BY <1>24 DEF Red
  <2>3. color[m] = "RED" /\ parent'[n] = Moved(z, y, par1[m])
    BY <1>17, <1>20, <2>1, <2>2
  <2>4. par1[m] # Nil
    BY <1>12, <2>2, <2>3
  <2>5. color[par1[m]] = "RED"
    BY <1>17, <1>21, <2>2, <2>3, <2>4
  <2>6. m = at' /\ color[y] # "RED"
    BY <1>5, <1>19, <2>3, <2>4, <2>5
  <2> QED
    BY <1>22, <2>1, <2>6
<1>25. Red(root)' => root' = at' /\ c # "RED"
  <2> SUFFICES ASSUME Red(root)' PROVE FALSE
    OBVIOUS
  <2>1. root' # Nil /\ color'[root'] = "RED"
    BY DEF Red
  <2>2. root # Nil
    BY <1>12, <1>20, <2>1
  <2>3. color[root] = "RED"
    BY <1>17, <1>20, <1>22, <2>1, <2>2
  <2> QED
    BY <1>19, <2>2, <2>3
<1>26. up' \in On(pos2) /\ kid'[sd][up'] = at'
  <2>1. up' = Moved(z, y, p)
    BY <1>6, <1>14
  <2> QED
    BY <1>12, <1>15, <1>20, <1>22, <2>1
<1>27. at' \in On(pos2) \cup {Nil}
  BY <1>12, <1>22
<1>28. Torn(q2, pos2, ext2, bh2, sd, c)'
  BY <1>11, <1>18, <1>23, <1>24, <1>25, <1>26, <1>27 DEF Torn
<1>29. \A n \in Node \ On(pos2), d \in Side : kid'[d][n] = kid[d][n]
  BY <1>6, <1>13
<1> QED
  BY <1>13, <1>28, <1>29

(* rb_remove takes its thread out of the order and leaves what             *)
(* rb_remove_fixup repairs.                                                *)
LEMMA RemoveStep ==
  ASSUME NEW q, NEW pos, NEW ext, NEW bh, NEW sd, TreeIs(q, pos, ext, bh, sd),
         pc \in {"idle", "search"}, NEW z \in On(pos), rb_remove(z)
  PROVE  \E q2, pos2, ext2, bh2, sd2 :
           q2 = Contract!Without(q, z) /\ TreeIs(q2, pos2, ext2, bh2, sd2)'
<1>1. /\ Shape(q, pos, ext, kid, parent, root) /\ Sorted(q, key) /\ TreeTypeOK
      /\ Calm(pos) /\ Loose(pos) /\ Cached(q) /\ Heights(pos, kid, color, bh, Nil, sd)
  BY DEF TreeIs, Indebted
<1>2. /\ q \in Seq(Node) /\ Len(q) \in Nat /\ pos \in [Node -> Nat]
      /\ On(pos) \subseteq Node /\ Nil \notin Node /\ Nil \notin On(pos) /\ z \in Node
      /\ color \in [Node -> {"RED", "BLACK"}] /\ "L" \in Side
      /\ leftmost \in Link /\ count \in Nat
  BY <1>1, ShapeTypes DEF TreeTypeOK
<1>3. ~Red(root) /\ \A n \in On(pos) : ~(Red(n) /\ Red(parent[n]))
  BY <1>1 DEF Calm
<1>4. \A n \in Node \ On(pos), d \in Side : kid[d][n] = Nil
  BY <1>1 DEF Loose
<1>5. \A n \in Node \ On(pos), d \in Side : kid[d][n] \in On(pos) \cup {Nil}
  BY <1>4
<1>a. Whole(q, pos, ext, bh, sd)
  BY <1>1, <1>2, <1>3, <1>5 DEF Whole
<1>6. PICK y : y = IF kid["L"][z] # Nil /\ kid["R"][z] # Nil THEN rb_minimum(kid, kid["R"][z]) ELSE z
  OBVIOUS
<1>7. PICK c, q2 : c = color[y] /\ q2 = Contract!Without(q, z)
  OBVIOUS
<1>8. /\ DropSingle(z) \/ DropDouble(z, y)
      /\ leftmost' = IF z # leftmost THEN leftmost
                     ELSE IF root' = Nil THEN Nil ELSE rb_minimum(kid', root')
      /\ pc' = IF c = "BLACK" /\ root' # Nil THEN "remove_fixup" ELSE "clear"
      /\ thread' = z /\ count' = count
  BY <1>6, <1>7 DEF rb_remove
<1>9. Places(q, pos)
  BY <1>1 DEF Shape
<1>10. Shrunk(q, q2, pos[z])
  BY <1>7, <1>9, ShrunkIs
<1>11. y \in On(pos)
  <2>1. CASE kid["L"][z] # Nil /\ kid["R"][z] # Nil
    <3>1. y = rb_minimum(kid, kid["R"][z])
      BY <1>6, <2>1
    <3> QED
      BY <1>1, <1>5, <2>1, <3>1, NextInOrder
  <2>2. CASE ~(kid["L"][z] # Nil /\ kid["R"][z] # Nil)
    BY <1>6, <2>2
  <2> QED
    BY <2>1, <2>2
<1>12. c \in {"RED", "BLACK"}
  BY <1>2, <1>7, <1>11
<1>13. \E pos2, ext2, bh2, sd2 :
         /\ Torn(q2, pos2, ext2, bh2, sd2, c)'
         /\ On(pos2) = On(pos) \ {z}
         /\ \A n \in Node \ On(pos2), d \in Side : kid'[d][n] = kid[d][n]
  <2>1. CASE DropSingle(z)
    <3>1. y = z
      BY <1>6, <2>1 DEF DropSingle
    <3>2. c = color[z]
      BY <1>7, <3>1
    <3> QED
      BY <1>a, <1>10, <2>1, <3>2, SingleStep
  <2>2. CASE DropDouble(z, y)
    <3>1. y = rb_minimum(kid, kid["R"][z])
      BY <1>6, <2>2 DEF DropDouble
    <3>2. c = color[y]
      BY <1>7
    <3> QED
      BY <1>a, <1>10, <2>2, <3>1, <3>2, DoubleStep
  <2> QED
    BY <1>8, <2>1, <2>2
<1>14. PICK pos2, ext2, bh2, sd2 :
         /\ Torn(q2, pos2, ext2, bh2, sd2, c)'
         /\ On(pos2) = On(pos) \ {z}
         /\ \A n \in Node \ On(pos2), d \in Side : kid'[d][n] = kid[d][n]
  BY <1>13
<1>15. /\ Shape(q2, pos2, ext2, kid', parent', root')
       /\ Heights(pos2, kid', color', bh2, IF c = "RED" THEN Nil ELSE up', sd2) /\ sd2 \in Side
       /\ at' \in On(pos2) \cup {Nil}
       /\ \A n \in On(pos2) : Red(n)' /\ Red(parent[n])' => n = at' /\ c # "RED"
       /\ Red(root)' => root' = at' /\ c # "RED"
       /\ at' = root' => up' = Nil
       /\ at' # root' => up' \in On(pos2) /\ kid'[sd2][up'] = at'
  BY <1>14 DEF Torn
<1>16. /\ kid' \in [Side -> [Node -> Link]] /\ parent' \in [Node -> Link] /\ root' \in Link
       /\ On(pos2) \subseteq Node /\ Nil \notin On(pos2) /\ pos2 \in [Node -> Nat]
       /\ q2 \in Seq(Node) /\ Len(q2) \in Nat
  BY <1>15, ShapeTypes
<1>17. root' = Nil => q2 = <<>> /\ at' = root' /\ up' = Nil
  <2> SUFFICES ASSUME root' = Nil PROVE q2 = <<>> /\ at' = root'
    BY <1>15
  <2>1. q2 = <<>>
    BY <1>15 DEF Shape, RootOK
  <2>2. Len(q2) = 0
    BY <2>1
  <2>3. \A n \in On(pos2) : pos2[n] \in 1 .. Len(q2)
    BY <1>15, KidSpans
  <2>4. On(pos2) = {}
    BY <2>2, <2>3
  <2> QED
    BY <1>15, <2>1, <2>4
<1>18. pc' \in {"remove_fixup", "clear"} /\ (pc' = "remove_fixup" <=> c # "RED" /\ root' # Nil)
  BY <1>8, <1>12
<1>19. Heights(pos2, kid', color', bh2, IF pc' = "remove_fixup" THEN up' ELSE Nil, sd2)
  <2>1. (IF pc' = "remove_fixup" THEN up' ELSE Nil) = (IF c = "RED" THEN Nil ELSE up')
    BY <1>17, <1>18
  <2> QED
    BY <1>15, <2>1
<1>20. Calm(pos2)'
  <2>1. Red(root)' => pc' = "remove_fixup" /\ at' = root'
    BY <1>15, <1>18 DEF Red
  <2>2. ASSUME NEW n \in On(pos2), Red(n)', Red(parent[n])' PROVE pc' = "remove_fixup" /\ n = at'
    <3>1. n = at' /\ c # "RED" /\ n # Nil
      BY <1>15, <1>16, <2>2
    <3>2. root' # Nil
      BY <1>17, <3>1
    <3> QED
      BY <1>18, <3>1, <3>2
  <2> QED
    BY <2>1, <2>2 DEF Calm
<1>21. ASSUME NEW n \in Node \ On(pos2), NEW d \in Side
       PROVE  kid'[d][n] = Nil \/ (n = z /\ kid'[d][n] \in On(pos2))
  <2>1. kid'[d][n] = kid[d][n]
    BY <1>14
  <2>2. CASE n # z
    BY <1>4, <1>14, <2>1, <2>2
  <2>3. CASE n = z
    <3>1. kid[d][z] # Nil => kid[d][z] \in On(pos) /\ kid[d][z] # z
      BY <1>1, LinkFacts
    <3> QED
      BY <1>14, <2>1, <2>3, <3>1
  <2> QED
    BY <2>2, <2>3
<1>22. Loose(pos2)'
  BY <1>8, <1>18, <1>21 DEF Loose
<1>23. PICK k : k = pos[z]
  OBVIOUS
<1>24. k \in 1 .. Len(q) /\ q[k] = z /\ \A i \in 1 .. Len(q) : pos[q[i]] = i
  BY <1>1, <1>9, <1>23, KidSpans DEF Places
<1>25. /\ Len(q2) = Len(q) - 1
       /\ \A i \in 1 .. Len(q) - 1 : q2[i] = IF i < k THEN q[i] ELSE q[i + 1]
  BY <1>10, <1>23 DEF Shrunk
<1>26. Sorted(q2, key)
  <2> SUFFICES ASSUME NEW i \in 1 .. Len(q2), NEW j \in 1 .. Len(q2), i < j
               PROVE  key[q2[i]] <= key[q2[j]]
    BY DEF Sorted
  <2>1. i \in 1 .. Len(q) - 1 /\ j \in 1 .. Len(q) - 1
    BY <1>25
  <2>2. PICK a, b : /\ a = (IF i < k THEN i ELSE i + 1) /\ b = (IF j < k THEN j ELSE j + 1)
    OBVIOUS
  <2>3. a \in 1 .. Len(q) /\ b \in 1 .. Len(q) /\ a < b
    <3>1. Len(q) \in Nat /\ k \in Nat /\ i \in Nat /\ j \in Nat /\ i < j
      BY <1>2, <1>24, <2>1
    <3>2. a \in 1 .. Len(q) /\ b \in 1 .. Len(q)
      BY <2>1, <2>2, <3>1
    <3> QED
      BY <2>2, <3>1, <3>2
  <2>4. q2[i] = q[a] /\ q2[j] = q[b]
    BY <1>25, <2>1, <2>2
  <2> QED
    BY <1>1, <2>3, <2>4 DEF Sorted
<1>27. leftmost' = IF q2 = <<>> THEN Nil ELSE q2[1]
  <2>1. leftmost = q[1] /\ 1 \in 1 .. Len(q)
    <3>1. 1 \in 1 .. Len(q)
      BY <1>2, <1>24
    <3>2. q # <<>>
      BY <3>1
    <3> QED
      BY <1>1, <3>1, <3>2 DEF Cached
  <2>2. CASE z # leftmost
    <3>1. k # 1
      BY <1>24, <2>1, <2>2
    <3>2. 1 \in 1 .. Len(q) - 1 /\ 1 < k
      BY <1>2, <1>24, <3>1
    <3>3. q2[1] = q[1] /\ Len(q2) # 0
      BY <1>2, <1>25, <3>2
    <3>4. q2 # <<>>
      BY <3>3
    <3> QED
      BY <1>8, <2>1, <2>2, <3>3, <3>4
  <2>3. CASE z = leftmost /\ root' = Nil
    BY <1>8, <1>17, <2>3
  <2>4. CASE z = leftmost /\ root' # Nil
    <3>1. leftmost' = rb_minimum(kid', root')
      BY <1>8, <2>4
    <3>2. root' \in On(pos2) /\ ext2["L"][root'] = 1
      BY <1>15, <2>4 DEF Shape, RootOK
    <3>3. \A n \in Node \ On(pos2), d \in Side : kid'[d][n] \in On(pos2) \cup {Nil}
      BY <1>21
    <3>4. rb_minimum(kid', root') = q2[1]
      <4>1. rb_minimum(kid', root') = q2[ext2["L"][root']]
        BY <1>15, <3>2, <3>3, MinimumIs
      <4> QED
        BY <3>2, <4>1
    <3>5. q2 # <<>>
      <4>1. pos2[root'] \in 1 .. Len(q2)
        BY <1>15, <3>2, KidSpans
      <4> QED
        BY <4>1
    <3> QED
      BY <3>1, <3>4, <3>5
  <2> QED
    BY <2>2, <2>3, <2>4
<1>28. Cached(q2)'
  <2>1. count = Len(q)
    BY <1>1 DEF Cached
  <2>2. count' = Len(q2) + 1
    BY <1>2, <1>8, <1>25, <2>1
  <2>3. pc' # "insert_fixup" /\ pc' \in {"remove_fixup", "clear"}
    BY <1>18
  <2> QED
    BY <1>27, <2>2, <2>3 DEF Cached
<1>29. pos2[z] = 0
  BY <1>2, <1>14 DEF On
<1>30. Cursor(q2, pos2, ext2, sd2)'
  <2>1. pc' = "remove_fixup" => RemoveCursor(pos2, sd2)'
    BY <1>15, <1>18 DEF RemoveCursor
  <2> QED
    BY <1>2, <1>8, <1>18, <1>29, <2>1 DEF Cursor
<1>31. TreeTypeOK'
  <2>1. leftmost' \in Link
    <3>1. q2 # <<>> => q2[1] \in Node
      BY <1>16
    <3> QED
      BY <1>27, <3>1 DEF Link
  <2>2. at' \in Link /\ up' \in Link
    BY <1>15, <1>16 DEF Link
  <2>3. color' \in [Node -> {"RED", "BLACK"}]
    <3>1. CASE DropSingle(z)
      BY <1>2, <3>1 DEF DropSingle
    <3>2. CASE DropDouble(z, y)
      BY <1>2, <3>2 DEF DropDouble
    <3> QED
      BY <1>8, <3>1, <3>2
  <2> QED
    BY <1>2, <1>8, <1>16, <1>18, <2>1, <2>2, <2>3 DEF TreeTypeOK, Link
<1>32. TreeIs(q2, pos2, ext2, bh2, sd2)'
  BY <1>15, <1>19, <1>20, <1>22, <1>26, <1>28, <1>30, <1>31 DEF TreeIs, Indebted
<1> QED
  BY <1>7, <1>32

(* The list of the invariant is what a traversal of the tree reads.        *)
LEMMA TreeReads ==
  ASSUME NEW q, NEW pos, NEW ext, NEW bh, NEW sd, TreeIs(q, pos, ext, bh, sd)
  PROVE  /\ InOrder(kid, root) = q /\ Linked = On(pos)
         /\ Range(q) = On(pos) /\ Contract!Range(q) = On(pos)
<1>1. Shape(q, pos, ext, kid, parent, root) /\ Loose(pos)
  BY DEF TreeIs
<1>2. \A n \in Node \ On(pos), d \in Side : kid[d][n] \in On(pos) \cup {Nil}
  BY <1>1 DEF Loose
<1>3. InOrder(kid, root) = q
  BY <1>1, <1>2, InOrderIs
<1>4. Range(q) = On(pos)
  <2>1. /\ q \in Seq(Node) /\ pos \in [Node -> Nat] /\ Len(q) \in Nat
        /\ \A n \in On(pos) : pos[n] \in 1 .. Len(q) /\ q[pos[n]] = n
        /\ \A i \in 1 .. Len(q) : pos[q[i]] = i
    BY <1>1 DEF Shape, Places
  <2>2. DOMAIN q = 1 .. Len(q)
    BY <2>1
  <2>3. \A i \in 1 .. Len(q) : q[i] \in On(pos)
    BY <2>1 DEF On
  <2> QED
    BY <2>1, <2>2, <2>3 DEF Range
<1>5. Contract!Range(q) = Range(q)
  BY DEF Range, Contract!Range
<1> QED
  BY <1>3, <1>4, <1>5 DEF Linked

(* Initially the tree is empty.                                            *)
LEMMA TreeStart == TreeInit => TreeInv /\ Contract!Init
<1> SUFFICES ASSUME TreeInit PROVE TreeInv /\ Contract!Init
  OBVIOUS
<1>1. PICK q, pos, ext, bh : /\ q = <<>> /\ pos = [n \in Node |-> 0]
                             /\ ext = [d \in Side |-> [n \in Node |-> 0]]
                             /\ bh = [m \in Link |-> 0]
  OBVIOUS
<1>2. /\ root = Nil /\ leftmost = Nil /\ count = 0
      /\ kid = [d \in Side |-> [n \in Node |-> Nil]]
      /\ parent = [n \in Node |-> Nil]
      /\ color = [n \in Node |-> "RED"]
      /\ pc = "idle" /\ thread = Nil /\ at = Nil /\ up = Nil
  BY DEF TreeInit
<1>3. On(pos) = {} /\ Len(q) = 0 /\ q \in Seq(Node) /\ Nil \in Link
  BY <1>1 DEF On, Link
<1>4. TreeTypeOK
  BY <1>2, <1>3 DEF TreeTypeOK
<1>5. Shape(q, pos, ext, kid, parent, root)
  <2>1. LinkTypes(kid, parent, root)
    BY <1>2, <1>3 DEF LinkTypes
  <2>2. Places(q, pos)
    BY <1>1, <1>3 DEF Places
  <2>3. Spans(q, pos, ext)
    BY <1>1, <1>3 DEF Spans
  <2>4. RootOK(q, pos, ext, parent, root)
    BY <1>1, <1>2 DEF RootOK
  <2> QED
    BY <1>3, <2>1, <2>2, <2>3, <2>4 DEF Shape
<1>6. Sorted(q, key)
  BY <1>3 DEF Sorted
<1>7. Heights(pos, kid, color, bh, Indebted, "L")
  BY <1>1, <1>3 DEF Heights
<1>8. Calm(pos) /\ Loose(pos)
  BY <1>2, <1>3 DEF Calm, Loose, Red
<1>9. Cached(q)
  BY <1>1, <1>2, <1>3 DEF Cached
<1>10. Cursor(q, pos, ext, "L")
  BY <1>2 DEF Cursor
<1>11. TreeIs(q, pos, ext, bh, "L")
  BY <1>4, <1>5, <1>6, <1>7, <1>8, <1>9, <1>10 DEF TreeIs
<1>12. Contract!Init
  BY <1>1, <1>11, TreeReads DEF Contract!Init
<1> QED
  BY <1>11, <1>12 DEF TreeInv

(* In rb_insert no child is short, and the side does not matter.           *)
LEMMA AnySide ==
  ASSUME NEW q, NEW pos, NEW ext, NEW bh, NEW sd, TreeIs(q, pos, ext, bh, sd),
         pc = "insert_fixup"
  PROVE  TreeIs(q, pos, ext, bh, "L")
<1>1. /\ Heights(pos, kid, color, bh, Nil, sd) /\ Shape(q, pos, ext, kid, parent, root)
      /\ Cursor(q, pos, ext, sd) /\ Indebted = Nil
  BY DEF TreeIs, Indebted
<1>2. Nil \notin On(pos)
  BY <1>1, ShapeTypes
<1>3. \A n \in On(pos), d \in Side : HeightOK(kid, color, bh, Nil, "L", n, d)
  BY <1>1, <1>2 DEF Heights, HeightOK
<1>4. Heights(pos, kid, color, bh, Indebted, "L")
  BY <1>1, <1>3 DEF Heights
<1>5. Cursor(q, pos, ext, "L")
  BY <1>1 DEF Cursor
<1> QED
  BY <1>4, <1>5 DEF TreeIs

(* Steps that leave the order as it is.                                    *)
LEMMA QuietSteps ==
  ASSUME NEW q, NEW pos, NEW ext, NEW bh, NEW sd, TreeIs(q, pos, ext, bh, sd),
         \/ cfs_enqueue \/ cfs_remove \/ NotFound \/ Descend \/ Search
         \/ Climb \/ TurnInside \/ TurnOutside \/ Inserted
         \/ RedSibling \/ PassUp \/ TurnNear \/ TurnFar \/ Repaired \/ Removed
  PROVE  \E pos2, ext2, bh2, sd2 : TreeIs(q, pos2, ext2, bh2, sd2)'
<1>1. CASE cfs_enqueue \/ cfs_remove \/ NotFound
  <2>1. Linked = On(pos)
    BY TreeReads
  <2>2. TreeIs(q, pos, ext, bh, sd)'
    BY <1>1, <2>1, StartSteps
  <2> QED
    BY <2>2
<1>2. CASE Descend \/ Search
  <2>1. TreeIs(q, pos, ext, bh, sd)'
    BY <1>2, DescentSteps
  <2> QED
    BY <2>1
<1>3. CASE Climb
  BY <1>3, ClimbStep
<1>4. CASE TurnInside
  BY <1>4, TurnInsideStep
<1>5. CASE TurnOutside
  BY <1>5, TurnOutsideStep
<1>6. CASE Inserted
  <2>1. pc = "insert_fixup" /\ "L" \in Side
    BY <1>6 DEF Inserted, Side
  <2>2. TreeIs(q, pos, ext, bh, "L")
    BY <2>1, AnySide
  <2> QED
    BY <1>6, <2>1, <2>2, InsertedStep
<1>7. CASE RedSibling
  BY <1>7, RedSiblingStep
<1>8. CASE PassUp
  BY <1>8, PassUpStep
<1>9. CASE TurnNear
  BY <1>9, TurnNearStep
<1>10. CASE TurnFar
  BY <1>10, TurnFarStep
<1>11. CASE Repaired
  BY <1>11, RepairedStep
<1>12. CASE Removed
  <2>1. TreeIs(q, pos, ext, bh, sd)'
    BY <1>12, RemovedStep
  <2> QED
    BY <2>1
<1> QED
  BY <1>1, <1>2, <1>3, <1>4, <1>5, <1>6, <1>7, <1>8, <1>9, <1>10, <1>11, <1>12

(* A step of the tree either leaves the order alone or is a step of        *)
(* RunOrder, and the tree stays a red-black tree under repair.             *)
LEMMA TreeStep ==
  ASSUME NEW q, NEW pos, NEW ext, NEW bh, NEW sd, TreeIs(q, pos, ext, bh, sd), TreeNext
  PROVE  \E q2, pos2, ext2, bh2, sd2 :
           /\ TreeIs(q2, pos2, ext2, bh2, sd2)'
           /\ \/ q2 = q
              \/ \E t \in Node : t \notin On(pos) /\ q2 = Contract!InsertBy(q, t, key)
              \/ \E t \in Node : t \in On(pos) /\ q2 = Contract!Without(q, t)
<1>1. CASE rb_insert
  <2>1. pc = "insert" /\ at = Nil
    BY <1>1 DEF rb_insert
  <2>2. thread \in Node /\ thread \notin On(pos)
    BY <2>1 DEF TreeIs, Cursor, InsertCursor, On
  <2>3. PICK q2, pos2, ext2, bh2 :
          q2 = Contract!InsertBy(q, thread, key) /\ TreeIs(q2, pos2, ext2, bh2, sd)'
    BY <1>1, InsertStep
  <2> QED
    BY <2>2, <2>3
<1>2. CASE cfs_dequeue \/ Found
  <2>1. PICK z \in On(pos) : pc \in {"idle", "search"} /\ rb_remove(z)
    <3>1. CASE cfs_dequeue
      <4>1. pc = "idle" /\ leftmost # Nil /\ rb_remove(leftmost)
        BY <3>1 DEF cfs_dequeue
      <4>2. leftmost \in On(pos)
        <5>1. q # <<>> /\ leftmost = q[1]
          BY <4>1 DEF TreeIs, Cached
        <5>2. q \in Seq(Node) /\ \A i \in 1 .. Len(q) : pos[q[i]] = i
          BY DEF TreeIs, Shape, Places
        <5>3. 1 \in 1 .. Len(q)
          BY <5>1, <5>2
        <5>4. q[1] \in Node /\ pos[q[1]] = 1
          BY <5>2, <5>3
        <5> QED
          BY <5>1, <5>4 DEF On
      <4> QED
        BY <4>1, <4>2
    <3>2. CASE Found
      <4>1. pc = "search" /\ at # Nil /\ at = thread /\ rb_remove(thread)
        BY <3>2 DEF Found
      <4>2. thread \in On(pos)
        BY <4>1 DEF TreeIs, Cursor, SearchCursor
      <4> QED
        BY <4>1, <4>2
    <3> QED
      BY <1>2, <3>1, <3>2
  <2>2. z \in Node
    BY DEF On
  <2>3. \E q2, pos2, ext2, bh2, sd2 :
          q2 = Contract!Without(q, z) /\ TreeIs(q2, pos2, ext2, bh2, sd2)'
    BY <2>1, RemoveStep
  <2> QED
    BY <2>2, <2>3
<1>3. CASE ~rb_insert /\ ~cfs_dequeue /\ ~Found
  <2>1. \E pos2, ext2, bh2, sd2 : TreeIs(q, pos2, ext2, bh2, sd2)'
    BY <1>3, QuietSteps DEF TreeNext
  <2> QED
    BY <2>1
<1> QED
  BY <1>1, <1>2, <1>3

(* The invariant is kept, and every step is one of RunOrder or none.       *)
LEMMA TreeKeeps ==
  ASSUME TreeInv, [TreeNext]_treeVars
  PROVE  TreeInv' /\ [Contract!Next]_(InOrder(kid, root))
<1>1. PICK q, pos, ext, bh, sd : TreeIs(q, pos, ext, bh, sd)
  BY DEF TreeInv
<1>2. InOrder(kid, root) = q /\ Contract!Range(q) = On(pos)
  BY <1>1, TreeReads
<1>3. CASE TreeNext
  <2>1. PICK q2, pos2, ext2, bh2, sd2 :
           /\ TreeIs(q2, pos2, ext2, bh2, sd2)'
           /\ \/ q2 = q
              \/ \E t \in Node : t \notin On(pos) /\ q2 = Contract!InsertBy(q, t, key)
              \/ \E t \in Node : t \in On(pos) /\ q2 = Contract!Without(q, t)
    BY <1>1, <1>3, TreeStep
  <2>2. InOrder(kid, root)' = q2
    <3>1. Shape(q2, pos2, ext2, kid', parent', root') /\ Loose(pos2)'
      BY <2>1 DEF TreeIs
    <3>2. \A n \in Node \ On(pos2), d \in Side : kid'[d][n] \in On(pos2) \cup {Nil}
      BY <3>1 DEF Loose
    <3>3. InOrder(kid', root') = q2
      BY <3>1, <3>2, InOrderIs
    <3> QED
      BY <3>3
  <2>3. TreeInv'
    BY <2>1 DEF TreeInv
  <2>4. CASE q2 = q
    BY <1>2, <2>2, <2>3, <2>4
  <2>5. CASE \E t \in Node : t \notin On(pos) /\ q2 = Contract!InsertBy(q, t, key)
    <3>1. PICK t \in Node : t \notin On(pos) /\ q2 = Contract!InsertBy(q, t, key)
      BY <2>5
    <3>2. Contract!Insert(t)
      BY <1>2, <2>2, <3>1 DEF Contract!Insert
    <3> QED
      BY <2>3, <3>2 DEF Contract!Next
  <2>6. CASE \E t \in Node : t \in On(pos) /\ q2 = Contract!Without(q, t)
    <3>1. PICK t \in Node : t \in On(pos) /\ q2 = Contract!Without(q, t)
      BY <2>6
    <3>2. Contract!Remove(t)
      BY <1>2, <2>2, <3>1 DEF Contract!Remove
    <3> QED
      BY <2>3, <3>2 DEF Contract!Next
  <2> QED
    BY <2>1, <2>4, <2>5, <2>6
<1>4. CASE UNCHANGED treeVars
  <2>0. UNCHANGED <<root, leftmost, count, kid, parent, color, pc, thread, at, up>>
    BY <1>4 DEF treeVars
  <2>1. TreeIs(q, pos, ext, bh, sd)'
    BY <1>1, <2>0 DEF TreeIs, TreeTypeOK, Calm, Loose, Cached, Cursor, Red, Indebted,
                      InsertCursor, SearchCursor, RemoveCursor, Toward
  <2> QED
    BY <2>0, <2>1 DEF TreeInv
<1> QED
  BY <1>3, <1>4

(* The invariant in every state.                                           *)
LEMMA TreeInvariant == TreeSpec => []TreeInv
<1>1. TreeInv /\ [TreeNext]_treeVars => TreeInv'
  BY TreeKeeps
<1> QED
  BY <1>1, TreeStart, PTL DEF TreeSpec

(* For any number of threads and any keys the tree is a red-black tree     *)
(* after every operation: whatever rotations and repaintings rb_insert and *)
(* rb_remove went through, on trees of any height.                         *)
THEOREM TreeIsRedBlack == TreeSpec => []RedBlack
<1>1. TreeInv => RedBlack
  <2> SUFFICES ASSUME TreeInv, pc = "idle"
               PROVE  /\ ~Red(root)
                      /\ \A n \in Linked : Red(n) => ~Red(parent[n])
                      /\ Cardinality(BlackHeights(root)) = 1
                      /\ root # Nil => parent[root] = Nil
                      /\ \A n \in Linked, d \in Side : kid[d][n] # Nil => parent[kid[d][n]] = n
    BY DEF RedBlack
  <2>1. PICK q, pos, ext, bh, sd : TreeIs(q, pos, ext, bh, sd)
    BY DEF TreeInv
  <2>2. /\ Shape(q, pos, ext, kid, parent, root) /\ Calm(pos) /\ Loose(pos)
        /\ Heights(pos, kid, color, bh, Nil, sd) /\ color \in [Node -> {"RED", "BLACK"}]
    BY <2>1 DEF TreeIs, Indebted, TreeTypeOK
  <2>3. Linked = On(pos)
    BY <2>1, TreeReads
  <2>4. ~Red(root) /\ \A n \in Linked : Red(n) => ~Red(parent[n])
    BY <2>2, <2>3 DEF Calm
  <2>5. Cardinality(BlackHeights(root)) = 1
    <3>1. \A n \in Node \ On(pos), d \in Side : kid[d][n] \in On(pos) \cup {Nil}
      BY <2>2 DEF Loose
    <3>2. BlackHeights(root) = {bh[root]}
      BY <2>2, <3>1, HeightsAre
    <3> QED
      BY <3>2, FS_Singleton
  <2>6. root # Nil => parent[root] = Nil
    BY <2>2 DEF Shape, RootOK
  <2>7. \A n \in Linked, d \in Side : kid[d][n] # Nil => parent[kid[d][n]] = n
    BY <2>2, <2>3, LinkFacts
  <2> QED
    BY <2>4, <2>5, <2>6, <2>7
<1> QED
  BY <1>1, TreeInvariant, PTL

(* The cached leftmost thread and the count are those of the tree after    *)
(* every operation, and cfs_remove misses a linked thread only when        *)
(* another one has the same virtual runtime.                               *)
THEOREM TreeLookupsExact == TreeSpec => []LookupsExact
<1>1. TreeInv => LookupsExact
  <2> SUFFICES ASSUME TreeInv
               PROVE  LookupsExact
    OBVIOUS
  <2>1. PICK q, pos, ext, bh, sd : TreeIs(q, pos, ext, bh, sd)
    BY DEF TreeInv
  <2>2. InOrder(kid, root) = q /\ Linked = On(pos)
    BY <2>1, TreeReads
  <2>3. pc = "idle" => leftmost = (IF q = <<>> THEN Nil ELSE q[1]) /\ count = Len(q)
    BY <2>1 DEF TreeIs, Cached
  <2>4. pc = "search" /\ at = Nil /\ thread \in On(pos) =>
          \E u \in On(pos) \ {thread} : key[u] = key[thread]
    BY <2>1 DEF TreeIs, Cursor, SearchCursor
  <2> QED
    BY <2>2, <2>3, <2>4 DEF LookupsExact
<1> QED
  BY <1>1, TreeInvariant, PTL

(* The tree implements RunOrder: rb_insert puts its thread behind those    *)
(* whose keys are not above its own, rb_remove takes one thread out, and   *)
(* no rotation changes the order.                                          *)
THEOREM TreeImplementsOrder == TreeSpec => ImplementsOrder
<1>1. TreeInv /\ [TreeNext]_treeVars => [Contract!Next]_(InOrder(kid, root))
  BY TreeKeeps
<1> QED
  BY <1>1, TreeStart, TreeInvariant, PTL DEF TreeSpec, ImplementsOrder, Contract!Spec
=============================================================================
