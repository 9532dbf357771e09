-------------------------- MODULE SchedulerProofs --------------------------
(***************************************************************************)
(* Facts about the wait queue operations and scheduler_schedule of         *)
(* scheduler.c, cited by the proofs of the modules built on Scheduler.     *)
(***************************************************************************)
EXTENDS Scheduler, TLAPS, FiniteSetTheorems, WellFoundedInduction

(* wait_queue_add appends its thread and disturbs no other.                *)
LEMMA AddFacts ==
  ASSUME NEW q \in Seq(Thread), NEW t \in Thread
  PROVE  /\ wait_queue_add(q, t) \in Seq(Thread)
         /\ wait_queue_add(q, t) # <<>>
         /\ Members(wait_queue_add(q, t)) = Members(q) \cup {t}
         /\ Distinct(q) /\ t \notin Members(q) => Distinct(wait_queue_add(q, t))
<1> DEFINE r == Append(q, t)
<1>1. /\ r \in Seq(Thread) /\ Len(r) = Len(q) + 1 /\ Len(q) \in Nat /\ r # <<>>
      /\ \A i \in 1 .. Len(q) : r[i] = q[i]
      /\ r[Len(q) + 1] = t
  OBVIOUS
<1>2. Members(r) = Members(q) \cup {t}
  BY <1>1 DEF Members
<1>3. ASSUME Distinct(q), t \notin Members(q)
      PROVE  Distinct(r)
  BY <1>1, <1>3 DEF Distinct, Members
<1> QED
  BY <1>1, <1>2, <1>3 DEF wait_queue_add

(* A queue is empty exactly when it has no member.                         *)
LEMMA EmptyFacts ==
  ASSUME NEW q \in Seq(Thread)
  PROVE  /\ Members(q) \subseteq Thread
         /\ q = <<>> <=> Members(q) = {}
         /\ Members(<<>>) = {} /\ Distinct(<<>>)
<1>1. Members(q) \subseteq Thread
  BY DEF Members
<1>2. Members(<<>>) = {} /\ Distinct(<<>>)
  BY DEF Members, Distinct
<1>3. ASSUME q # <<>> PROVE q[1] \in Members(q)
  BY <1>3 DEF Members
<1> QED
  BY <1>1, <1>2, <1>3

(* wait_queue_wake_one takes the head out of the queue, and only it.       *)
LEMMA WakeFacts ==
  ASSUME NEW q \in Seq(Thread)
  PROVE  /\ AfterWake(q) \in Seq(Thread)
         /\ Woken(q) \subseteq Members(q)
         /\ q # <<>> => Woken(q) # {}
         /\ Members(AfterWake(q)) \subseteq Members(q)
         /\ Members(q) \subseteq Members(AfterWake(q)) \cup Woken(q)
         /\ Distinct(q) => /\ Distinct(AfterWake(q))
                           /\ Members(AfterWake(q)) \cap Woken(q) = {}
<1>1. CASE q = <<>>
  BY <1>1 DEF AfterWake, Woken, Members
<1>2. CASE q # <<>>
  <2> DEFINE r == Tail(q)
  <2>1. /\ r \in Seq(Thread) /\ Len(q) \in Nat \ {0} /\ Len(r) = Len(q) - 1
        /\ \A i \in 1 .. Len(r) : r[i] = q[i + 1]
        /\ Head(q) = q[1]
    BY <1>2
  <2>2. AfterWake(q) = r /\ Woken(q) = {q[1]}
    BY <1>2, <2>1 DEF AfterWake, Woken
  <2>3. Members(r) \subseteq Members(q) /\ q[1] \in Members(q)
    BY <2>1 DEF Members
  <2>4. ASSUME NEW t \in Members(q), t # q[1]
        PROVE  t \in Members(r)
    <3>1. PICK i \in 1 .. Len(q) : q[i] = t
      BY DEF Members
    <3>2. i - 1 \in 1 .. Len(r) /\ r[i - 1] = q[i]
      BY <2>1, <2>4, <3>1
    <3> QED
      BY <3>1, <3>2 DEF Members
  <2>5. ASSUME Distinct(q)
        PROVE  Distinct(r) /\ q[1] \notin Members(r)
    BY <2>1, <2>5 DEF Distinct, Members
  <2> QED
    BY <2>1, <2>2, <2>3, <2>4, <2>5
<1> QED
  BY <1>1, <1>2

(* A queue of which the k-th member has been unlinked.                     *)
LEMMA UnlinkFacts ==
  ASSUME NEW S, NEW q \in Seq(S), NEW k \in 1 .. Len(q)
  PROVE  LET r == SubSeq(q, 1, k - 1) \o SubSeq(q, k + 1, Len(q)) IN
         /\ r \in Seq(S) /\ Len(r) = Len(q) - 1
         /\ \A i \in 1 .. Len(q) - 1 : r[i] = IF i < k THEN q[i] ELSE q[i + 1]
<1>1. ASSUME NEW a \in Seq(S), NEW b \in Seq(S)
      PROVE  /\ a \o b \in Seq(S) /\ Len(a \o b) = Len(a) + Len(b)
             /\ \A i \in 1 .. Len(a) + Len(b) :
                  (a \o b)[i] = IF i <= Len(a) THEN a[i] ELSE b[i - Len(a)]
  OBVIOUS
<1> DEFINE a == SubSeq(q, 1, k - 1)
           b == SubSeq(q, k + 1, Len(q))
<1>2. /\ a \in Seq(S) /\ Len(a) = k - 1
      /\ \A i \in 1 .. k - 1 : a[i] = q[i]
  OBVIOUS
<1>3. /\ b \in Seq(S) /\ Len(b) = Len(q) - k
      /\ \A i \in 1 .. Len(q) - k : b[i] = q[k + i]
  OBVIOUS
<1> HIDE DEF a, b
<1>4. /\ a \o b \in Seq(S) /\ Len(a \o b) = Len(q) - 1
      /\ \A i \in 1 .. Len(q) - 1 :
           (a \o b)[i] = IF i <= Len(a) THEN a[i] ELSE b[i - Len(a)]
  <2>1. Len(q) \in Nat /\ Len(a) + Len(b) = Len(q) - 1
    BY <1>2, <1>3
  <2>2. /\ a \o b \in Seq(S) /\ Len(a \o b) = Len(a) + Len(b)
        /\ \A i \in 1 .. Len(a) + Len(b) :
             (a \o b)[i] = IF i <= Len(a) THEN a[i] ELSE b[i - Len(a)]
    BY <1>1, <1>2, <1>3, Zenon
  <2> QED
    BY <2>1, <2>2, Zenon
<1>5. ASSUME NEW i \in 1 .. Len(q) - 1
      PROVE  (a \o b)[i] = IF i < k THEN q[i] ELSE q[i + 1]
  <2>1. CASE i < k
    BY <1>2, <1>4, <2>1
  <2>2. CASE i >= k
    <3>1. i - (k - 1) \in 1 .. Len(q) - k /\ k + (i - (k - 1)) = i + 1 /\ ~(i <= Len(a))
      BY <1>2, <2>2
    <3> QED
      BY <1>2, <1>3, <1>4, <2>2, <3>1
  <2>3. i < k \/ i >= k
    OBVIOUS
  <2> QED
    BY <2>1, <2>2, <2>3, Zenon
<1> QED
  BY <1>4, <1>5 DEF a, b

(* Such a queue has lost that member and no other.                         *)
LEMMA UnlinkMembers ==
  ASSUME NEW q \in Seq(Thread), NEW k \in 1 .. Len(q), Distinct(q)
  PROVE  LET r == SubSeq(q, 1, k - 1) \o SubSeq(q, k + 1, Len(q)) IN
         Distinct(r) /\ Members(r) = Members(q) \ {q[k]}
<1> DEFINE r == SubSeq(q, 1, k - 1) \o SubSeq(q, k + 1, Len(q))
           From(i) == IF i < k THEN i ELSE i + 1
<1>1. Len(q) \in Nat /\ Len(r) = Len(q) - 1
      /\ \A i \in 1 .. Len(q) - 1 : r[i] = IF i < k THEN q[i] ELSE q[i + 1]
  <2>1. /\ Len(r) = Len(q) - 1
        /\ \A i \in 1 .. Len(q) - 1 : r[i] = IF i < k THEN q[i] ELSE q[i + 1]
    BY UnlinkFacts, Zenon
  <2>2. Len(q) \in Nat
    OBVIOUS
  <2> QED
    BY <2>1, <2>2, Zenon
<1> HIDE DEF r
<1>2. ASSUME NEW i \in 1 .. Len(r)
      PROVE  From(i) \in 1 .. Len(q) /\ From(i) # k /\ r[i] = q[From(i)]
  <2>1. From(i) \in 1 .. Len(q) /\ From(i) # k /\ i \in 1 .. Len(q) - 1
    BY <1>1
  <2>2. r[i] = IF i < k THEN q[i] ELSE q[i + 1]
    BY <1>1, <2>1
  <2> QED
    BY <2>1, <2>2
<1>3. \A i, j \in 1 .. Len(r) : From(i) = From(j) => i = j
  BY <1>1
<1>4. ASSUME NEW j \in 1 .. Len(q), j # k
      PROVE  \E i \in 1 .. Len(r) : r[i] = q[j]
  <2>1. CASE j < k
    BY <1>1, <2>1
  <2>2. CASE j > k
    <3>1. j - 1 \in 1 .. Len(r) /\ ~(j - 1 < k) /\ (j - 1) + 1 = j
      BY <1>1, <2>2
    <3> QED
      BY <1>1, <3>1
  <2> QED
    BY <1>4, <2>1, <2>2
<1> HIDE DEF From
<1>5. Distinct(r)
  <2>1. ASSUME NEW i \in 1 .. Len(r), NEW j \in 1 .. Len(r), r[i] = r[j] PROVE i = j
    <3>1. q[From(i)] = q[From(j)] /\ From(i) \in 1 .. Len(q) /\ From(j) \in 1 .. Len(q)
      BY <1>2, <2>1
    <3>2. From(i) = From(j)
      BY <3>1, Zenon DEF Distinct
    <3> QED
      BY <1>3, <3>2
  <2> QED
    BY <2>1, Zenon DEF Distinct
<1>6. \A j \in 1 .. Len(q) : j # k => q[j] # q[k]
  BY DEF Distinct
<1>7. Members(r) \subseteq Members(q) \ {q[k]}
  <2>1. \A i \in 1 .. Len(r) : r[i] \in Members(q) /\ r[i] # q[k]
    BY <1>2, <1>6, Zenon DEF Members
  <2> QED
    BY <2>1 DEF Members
<1>8. Members(q) \ {q[k]} \subseteq Members(r)
  BY <1>4 DEF Members
<1> QED
  BY <1>5, <1>7, <1>8 DEF r

(* wait_queue_remove_specific takes its thread out, and only it.           *)
LEMMA RemoveFacts ==
  ASSUME NEW q \in Seq(Thread), NEW t \in Thread
  PROVE  LET r == wait_queue_remove_specific(q, t) IN
         /\ r \in Seq(Thread)
         /\ t \notin Members(q) => r = q
         /\ Distinct(q) => Distinct(r) /\ Members(r) = Members(q) \ {t}
<1>1. CASE t \notin Members(q)
  BY <1>1 DEF wait_queue_remove_specific
<1>2. CASE t \in Members(q)
  <2>1. \E i \in 1 .. Len(q) : q[i] = t
    BY <1>2 DEF Members
  <2>2. PICK k \in 1 .. Len(q) :
          /\ q[k] = t
          /\ wait_queue_remove_specific(q, t)
               = SubSeq(q, 1, k - 1) \o SubSeq(q, k + 1, Len(q))
    BY <1>2, <2>1 DEF wait_queue_remove_specific
  <2>3. PICK r : r = wait_queue_remove_specific(q, t)
    OBVIOUS
  <2>4. /\ r \in Seq(Thread) /\ Len(r) = Len(q) - 1
        /\ \A i \in 1 .. Len(q) - 1 : r[i] = IF i < k THEN q[i] ELSE q[i + 1]
    <3> DEFINE e == SubSeq(q, 1, k - 1) \o SubSeq(q, k + 1, Len(q))
    <3>1. /\ e \in Seq(Thread) /\ Len(e) = Len(q) - 1
          /\ \A i \in 1 .. Len(q) - 1 : e[i] = IF i < k THEN q[i] ELSE q[i + 1]
      BY UnlinkFacts, Zenon
    <3> QED
      BY <2>2, <2>3, <3>1
  <2>5. ASSUME Distinct(q) PROVE Distinct(r) /\ Members(r) = Members(q) \ {t}
    BY <2>2, <2>3, <2>5, UnlinkMembers
  <2> QED
    BY <1>2, <2>3, <2>4, <2>5
<1> QED
  BY <1>1, <1>2

(* What scheduler_schedule changes: the dispatched thread leaves the run   *)
(* structure and runs; of the others only the caller changes state, and    *)
(* only from RUNNING to READY.                                             *)
LEMMA ScheduleFacts ==
  ASSUME NEW st \in [Thread -> ThreadState], NEW rdy \in SUBSET Thread,
         scheduler_schedule(st, rdy)
  PROVE  /\ SchedTypeOK'
         /\ current' \in rdy \cup {Idle}
         /\ rdy # {} => current' \in rdy
         /\ ready' = rdy \ {current'}
         /\ \A t \in Thread :
              /\ t = current' => state'[t] \in {"RUNNING", st[t]}
              /\ t # current' => state'[t] \in {st[t], "READY"}
              /\ t # current' /\ state'[t] # st[t] => st[t] = "RUNNING" /\ t = current
<1>1. PICK next \in Dequeue(rdy) :
        /\ ready' = rdy \ {next}
        /\ current' = next
        /\ state' = IF next = current THEN st ELSE SwitchStates(st, next)
  BY DEF scheduler_schedule
<1>2. next \in rdy \cup {Idle} /\ (rdy # {} => next \in rdy)
  BY DEF Dequeue
<1>3. \A t \in Thread :
        SwitchStates(st, next)[t] =
          IF t = next THEN "RUNNING"
          ELSE IF t = current /\ st[t] = "RUNNING" THEN "READY" ELSE st[t]
  BY DEF SwitchStates
<1>4. SwitchStates(st, next) \in [Thread -> ThreadState]
  BY DEF SwitchStates, ThreadState
<1> QED
  BY <1>1, <1>2, <1>3, <1>4 DEF SchedTypeOK

(* uthread_yield and the SIGALRM handler respect the types.                *)
LEMMA SwitchType ==
  ASSUME SchedTypeOK, NEW t \in Thread, uthread_yield(t) \/ scheduler_tick(t)
  PROVE  SchedTypeOK'
<1> DEFINE st == [state EXCEPT ![t] = "READY"]
<1>1. st \in [Thread -> ThreadState] /\ state \in [Thread -> ThreadState]
  BY DEF SchedTypeOK, ThreadState
<1>2. ready \in SUBSET Thread /\ ready \cup {t} \in SUBSET Thread
  BY DEF SchedTypeOK
<1>3. scheduler_schedule(st, ready \cup {t}) \/ scheduler_schedule(state, ready)
  BY DEF uthread_yield, scheduler_tick
<1> QED
  BY <1>1, <1>2, <1>3, ScheduleFacts

(* uthread_exit respects them too.                                         *)
LEMMA ExitType ==
  ASSUME SchedTypeOK, NEW t \in Thread, uthread_exit(t)
  PROVE  SchedTypeOK'
<1>1. PICK J \in SUBSET Thread :
        scheduler_schedule([u \in Thread |-> IF u = t THEN "TERMINATED"
                              ELSE IF u \in J THEN "READY" ELSE state[u]],
                           (ready \ {t}) \cup J)
  BY DEF uthread_exit
<1> DEFINE st == [u \in Thread |-> IF u = t THEN "TERMINATED"
                     ELSE IF u \in J THEN "READY" ELSE state[u]]
<1>2. st \in [Thread -> ThreadState] /\ (ready \ {t}) \cup J \in SUBSET Thread
  BY DEF SchedTypeOK, ThreadState
<1> QED
  BY <1>1, <1>2, ScheduleFacts

(* A yield or a tick puts nobody to sleep, wakes nobody but a caller that  *)
(* runs in state BLOCKED, and takes nobody but the caller out of the run   *)
(* structure; a tick does not even take the caller out.                    *)
LEMMA SwitchFacts ==
  ASSUME SchedTypeOK, RunStructureOK, NEW t \in Thread,
         uthread_yield(t) \/ scheduler_tick(t)
  PROVE  /\ current = t
         /\ SchedTypeOK' /\ RunStructureOK'
         /\ \A u \in Thread : state'[u] = "BLOCKED" => state[u] = "BLOCKED"
         /\ \A u \in Thread : u # t /\ state[u] = "BLOCKED" => state'[u] = "BLOCKED"
         /\ \A u \in Thread : u \in ready' \cup {current'} => u \in ready \cup {current}
         /\ \A u \in ready : u \in ready' \cup {current'}
         /\ scheduler_tick(t) => t \in ready' \cup {current'}
<1> DEFINE st == [state EXCEPT ![t] = "READY"]
           rdy == ready \cup {t}
<1>1. /\ current = t
      /\ \/ scheduler_schedule(st, rdy)
         \/ scheduler_schedule(state, ready) /\ ~scheduler_tick(t)
  BY DEF uthread_yield, scheduler_tick
<1>2. /\ st \in [Thread -> ThreadState] /\ state \in [Thread -> ThreadState]
      /\ rdy \in SUBSET Thread /\ ready \in SUBSET Thread
  BY DEF SchedTypeOK, ThreadState
<1>3. SchedTypeOK'
  BY SwitchType
<1>4. /\ \A u \in rdy : st[u] = "READY"
      /\ \A u \in Thread : st[u] = "BLOCKED" <=> state[u] = "BLOCKED" /\ u # t
  BY <1>2 DEF RunStructureOK
<1>5. CASE scheduler_schedule(st, rdy)
  <2>1. t \in rdy /\ rdy # {} /\ ready \subseteq rdy /\ \A u \in rdy : u \in ready \cup {t}
    OBVIOUS
  <2> HIDE DEF st, rdy
  <2>2. /\ current' \in rdy /\ ready' = rdy \ {current'}
        /\ \A u \in Thread :
             /\ u = current' => state'[u] \in {"RUNNING", st[u]}
             /\ u # current' => state'[u] \in {st[u], "READY"}
             /\ u # current' /\ state'[u] # st[u] => st[u] = "RUNNING" /\ u = current
    BY <1>2, <1>5, <2>1, ScheduleFacts
  <2> QED
    BY <1>1, <1>2, <1>3, <1>4, <2>1, <2>2 DEF RunStructureOK
<1>6. CASE scheduler_schedule(state, ready) /\ ~scheduler_tick(t)
  <2>1. /\ current' \in ready \cup {Idle} /\ ready' = ready \ {current'}
        /\ \A u \in Thread :
             /\ u = current' => state'[u] \in {"RUNNING", state[u]}
             /\ u # current' => state'[u] \in {state[u], "READY"}
             /\ u # current' /\ state'[u] # state[u] => state[u] = "RUNNING" /\ u = current
    BY <1>2, <1>6, ScheduleFacts
  <2> QED
    BY <1>1, <1>2, <1>3, <1>6, <2>1, IdleAssumption DEF RunStructureOK
<1> QED
  BY <1>1, <1>5, <1>6

(* A thread that has blocked itself gives the CPU to a linked thread or to *)
(* Idle, and nothing else changes.                                         *)
LEMMA ParkFacts ==
  ASSUME SchedTypeOK, RunStructureOK, NEW t \in Thread, current = t,
         state[t] = "BLOCKED", scheduler_schedule(state, ready)
  PROVE  /\ SchedTypeOK' /\ RunStructureOK'
         /\ current' # t
         /\ \A u \in Thread : state'[u] = "BLOCKED" <=> state[u] = "BLOCKED"
         /\ \A u \in Thread : u \in ready' \cup {current'} <=> u \in ready
<1>1. state \in [Thread -> ThreadState] /\ ready \in SUBSET Thread
  BY DEF SchedTypeOK
<1>2. /\ SchedTypeOK' /\ current' \in ready \cup {Idle} /\ ready' = ready \ {current'}
      /\ \A u \in Thread :
           /\ u = current' => state'[u] \in {"RUNNING", state[u]}
           /\ u # current' => state'[u] \in {state[u], "READY"}
           /\ u # current' /\ state'[u] # state[u] => state[u] = "RUNNING" /\ u = current
  BY <1>1, ScheduleFacts
<1> QED
  BY <1>1, <1>2, IdleAssumption DEF RunStructureOK

(* scheduler_unblock makes its threads ready and leaves the CPU alone.     *)
LEMMA UnblockFacts ==
  ASSUME SchedTypeOK, RunStructureOK, NEW T \in SUBSET Thread, current \notin T,
         scheduler_unblock(T)
  PROVE  /\ SchedTypeOK' /\ RunStructureOK'
         /\ current' = current /\ ready' = ready \cup T
         /\ \A u \in Thread :
              state'[u] = "BLOCKED" <=> state[u] = "BLOCKED" /\ u \notin T
  BY DEF SchedTypeOK, RunStructureOK, scheduler_unblock, ThreadState

-----------------------------------------------------------------------------
(* Facts about lists that the policies need.                               *)

(* A non-empty set of natural numbers has a least element.                 *)
LEMMA Least ==
  ASSUME NEW T \in SUBSET Nat, T # {}
  PROVE  \E x \in T : \A y \in T : x <= y
<1>1. \A x, y \in Nat : <<x, y>> \in Nat \X Nat /\ <<x, y>>[1] = x /\ <<x, y>>[2] = y
  OBVIOUS
<1>2. ASSUME NEW x \in Nat, NEW y \in Nat, x < y
      PROVE  <<x, y>> \in OpToRel(<, Nat)
  BY <1>1, <1>2, Zenon DEF OpToRel
<1>3. \E x \in T : \A y \in T : ~ (<<y, x>> \in OpToRel(<, Nat))
  BY NatLessThanWellFounded, WFMin
<1>4. \A x \in T : x \in Nat
  OBVIOUS
<1>5. \E x \in T : \A y \in T : ~(y < x)
  BY <1>2, <1>3, <1>4, Zenon
<1> QED
  BY <1>5

(* A non-empty set of natural numbers up to n has a greatest element.      *)
LEMMA Greatest ==
  ASSUME NEW n \in Nat, NEW b \in SUBSET (0 .. n), b # {}
  PROVE  \E m \in b : \A p \in b : m >= p
<1> DEFINE T == {n - p : p \in b}
<1>1. T \in SUBSET Nat /\ T # {}
  <2>1. \A p \in b : p \in 0 .. n
    OBVIOUS
  <2>2. \A p \in b : n - p \in Nat
    BY <2>1
  <2> QED
    BY <2>2
<1>2. PICK x \in T : \A y \in T : x <= y
  BY <1>1, Least
<1>3. PICK m \in b : x = n - m
  BY <1>2
<1>4. ASSUME NEW p \in b PROVE m >= p
  <2>1. n - m <= n - p
    BY <1>2, <1>3
  <2> QED
    BY <2>1
<1> QED
  BY <1>4

(* A list with u spliced in behind position k.                             *)
Splice(q, u, k) == Append(SubSeq(q, 1, k), u) \o SubSeq(q, k + 1, Len(q))

(* It holds u at place k + 1 and what it held before.                      *)
LEMMA SpliceFacts ==
  ASSUME NEW S, NEW q \in Seq(S), NEW k \in 0 .. Len(q), NEW u \in S
  PROVE  LET s == Splice(q, u, k) IN
         /\ s \in Seq(S) /\ Len(s) = Len(q) + 1
         /\ \A i \in 1 .. k : s[i] = q[i]
         /\ s[k + 1] = u
         /\ \A i \in k + 1 .. Len(q) : s[i + 1] = q[i]
<1>1. ASSUME NEW x \in Seq(S), NEW y \in Seq(S)
      PROVE  /\ x \o y \in Seq(S) /\ Len(x \o y) = Len(x) + Len(y)
             /\ \A i \in 1 .. Len(x) + Len(y) :
                  (x \o y)[i] = IF i <= Len(x) THEN x[i] ELSE y[i - Len(x)]
  OBVIOUS
<1> DEFINE a == SubSeq(q, 1, k)
           b == Append(a, u)
           c == SubSeq(q, k + 1, Len(q))
           s == b \o c
<1>2. a \in Seq(S) /\ Len(a) = k /\ \A i \in 1 .. k : a[i] = q[i]
  OBVIOUS
<1>3. /\ c \in Seq(S) /\ Len(c) = Len(q) - k
      /\ \A i \in 1 .. Len(q) - k : c[i] = q[k + i]
  OBVIOUS
<1> HIDE DEF a, c
<1>4. /\ b \in Seq(S) /\ Len(b) = k + 1 /\ b[k + 1] = u
      /\ \A i \in 1 .. k : b[i] = q[i]
  BY <1>2
<1> HIDE DEF b
<1>5. Len(b) + Len(c) = Len(q) + 1 /\ Len(q) \in Nat
  BY <1>3, <1>4
<1>6. /\ s \in Seq(S) /\ Len(s) = Len(q) + 1
      /\ \A i \in 1 .. Len(q) + 1 : s[i] = IF i <= k + 1 THEN b[i] ELSE c[i - (k + 1)]
  <2>1. /\ s \in Seq(S) /\ Len(s) = Len(b) + Len(c)
        /\ \A i \in 1 .. Len(b) + Len(c) : s[i] = IF i <= Len(b) THEN b[i] ELSE c[i - Len(b)]
    BY <1>1, <1>3, <1>4
  <2> HIDE DEF s
  <2> QED
    BY <1>4, <1>5, <2>1
<1> HIDE DEF s
<1>7. ASSUME NEW i \in k + 1 .. Len(q) PROVE s[i + 1] = q[i]
  <2>1. /\ i + 1 \in 1 .. Len(q) + 1 /\ ~(i + 1 <= k + 1) /\ i + 1 - (k + 1) = i - k
        /\ i - k \in 1 .. Len(q) - k /\ k + (i - k) = i
    OBVIOUS
  <2> QED
    <3>1. s[i + 1] = c[i - k]
      BY <1>6, <2>1
    <3>2. c[i - k] = q[k + (i - k)]
      BY <1>3, <2>1
    <3> QED
      BY <2>1, <3>1, <3>2
<1>8. s[k + 1] = u /\ \A i \in 1 .. k : s[i] = q[i]
  BY <1>4, <1>5, <1>6
<1> QED
  BY <1>6, <1>7, <1>8 DEF s, b, a, c, Splice

(* A list without repetitions of as many threads as T has lists them all.  *)
LEMMA OrderFacts ==
  ASSUME NEW T \in SUBSET Thread, IsFiniteSet(T),
         NEW q \in [1 .. Cardinality(T) -> T], IsInjective(q)
  PROVE  q \in Seq(Thread) /\ Distinct(q) /\ Members(q) = T
<1> DEFINE n == Cardinality(T)
<1>1. n \in Nat
  BY FS_CardinalityType
<1>2. Cardinality(1 .. n) = n
  BY <1>1, FS_Interval
<1>3. q \in Injection(1 .. n, T)
  BY DEF Injection
<1>4. q \in Surjection(1 .. n, T)
  BY <1>2, <1>3, FS_Injection
<1> HIDE DEF n
<1>5. q \in [1 .. n -> T] /\ \A t \in T : \E i \in 1 .. n : q[i] = t
  BY <1>4 DEF Surjection
<1>6. q \in Seq(Thread) /\ Len(q) = n
  BY <1>1, <1>5
<1>7. Distinct(q)
  <2>1. DOMAIN q = 1 .. Len(q)
    BY <1>5, <1>6
  <2>2. \A i, j \in DOMAIN q : q[i] = q[j] => i = j
    BY Zenon DEF IsInjective
  <2> QED
    BY <2>1, <2>2 DEF Distinct
<1>8. Members(q) = T
  BY <1>5, <1>6 DEF Members
<1> QED
  BY <1>6, <1>7, <1>8

(* Taking the head off a list without repetitions.                         *)
LEMMA TailFacts ==
  ASSUME NEW q \in Seq(Thread), Distinct(q), q # <<>>
  PROVE  /\ Tail(q) \in Seq(Thread) /\ Distinct(Tail(q))
         /\ Head(q) \in Members(q) /\ Members(Tail(q)) = Members(q) \ {Head(q)}
<1>1. AfterWake(q) = Tail(q) /\ Woken(q) = {Head(q)}
  BY DEF AfterWake, Woken
<1>2. /\ AfterWake(q) \in Seq(Thread) /\ Distinct(AfterWake(q))
      /\ Woken(q) \subseteq Members(q)
      /\ Members(AfterWake(q)) = Members(q) \ Woken(q)
  BY WakeFacts
<1> QED
  BY <1>1, <1>2
=============================================================================
