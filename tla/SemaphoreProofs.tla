-------------------------- MODULE SemaphoreProofs --------------------------
(***************************************************************************)
(* Proofs about Semaphore, for any number of threads, any initial value,   *)
(* any width of an int and any policy.  That units are conserved holds     *)
(* wherever ticks fall; that they are promised to woken threads assumes no *)
(* tick between preemption_enable() and scheduler_schedule().              *)
(***************************************************************************)
EXTENDS Semaphore, SchedulerProofs, FiniteSetTheorems

-----------------------------------------------------------------------------
(* Arithmetic of an int of Word values.                                    *)

(* A number has one quotient and one remainder by Word.                    *)
LEMMA DivUnique ==
  ASSUME Word \in Nat \ {0},
         NEW k \in Int, NEW r \in 0 .. Word - 1, NEW l \in Int, NEW s \in 0 .. Word - 1,
         Word * k + r = Word * l + s
  PROVE  k = l /\ r = s
  OBVIOUS

(* And those are \div and %.                                               *)
LEMMA DivMod ==
  ASSUME Word \in Nat \ {0}, NEW n \in Int
  PROVE  /\ n \div Word \in Int /\ n % Word \in 0 .. Word - 1
         /\ n = Word * (n \div Word) + (n % Word)
  OBVIOUS

(* So a remainder that fits is the remainder.                              *)
LEMMA ModUnique ==
  ASSUME Word \in Nat \ {0},
         NEW n \in Int, NEW k \in Int, NEW r \in 0 .. Word - 1, n = Word * k + r
  PROVE  n % Word = r
  BY DivUnique, DivMod

(* The cast to int is the identity on ints, and increment and decrement    *)
(* commute with it up to the ends of the range.                            *)
LEMMA ToIntFacts ==
  ASSUME NEW n \in Int
  PROVE  /\ INT_MAX \in Nat /\ Word = 2 * INT_MAX + 2
         /\ ToInt(n) \in -INT_MAX - 1 .. INT_MAX
         /\ n \in -INT_MAX - 1 .. INT_MAX => ToInt(n) = n
         /\ ToInt(ToInt(n) + 1) = ToInt(n + 1)
         /\ ToInt(n) > -INT_MAX - 1 => ToInt(n - 1) = ToInt(n) - 1
<1> DEFINE h == Word \div 2
           q == (n + h) \div Word
           r == (n + h) % Word
<1>1. h \in Nat \ {0} /\ Word = 2 * h /\ INT_MAX = h - 1 /\ Word \in Nat \ {0}
  BY SemaphoreAssumption DEF INT_MAX
<1>2. \A m : ToInt(m) = ((m + h) % Word) - h
  BY DEF ToInt
<1> HIDE DEF h
<1>3. q \in Int /\ r \in 0 .. Word - 1 /\ n + h = Word * q + r
  <2>1. n + h \in Int
    BY <1>1
  <2> QED
    BY <1>1, <2>1, DivMod
<1> HIDE DEF q
<1>4. ToInt(n) = r - h
  BY <1>2
<1> HIDE DEF r
<1>5. ASSUME n \in -h .. h - 1 PROVE ToInt(n) = n
  <2>1. n + h \in 0 .. Word - 1 /\ n + h = Word * 0 + (n + h)
    BY <1>1, <1>5
  <2>2. (n + h) % Word = n + h
    BY <1>1, <2>1, ModUnique
  <2> QED
    BY <1>1, <1>2, <2>2
<1>6. ToInt(ToInt(n) + 1) = ((r + 1) % Word) - h
  <2>1. ToInt(n) + 1 + h = r + 1
    BY <1>1, <1>3, <1>4
  <2> QED
    BY <1>2, <2>1
<1>7. ToInt(n + 1) = ((r + 1) % Word) - h
  <2>1. ToInt(n + 1) = ((n + 1 + h) % Word) - h
    BY <1>2
  <2>2. CASE r + 1 < Word
    <3>1. r + 1 \in 0 .. Word - 1 /\ n + 1 + h = Word * q + (r + 1) /\ n + 1 + h \in Int
      BY <1>1, <1>3, <2>2
    <3>2. (n + 1 + h) % Word = r + 1
      BY <1>1, <1>3, <3>1, ModUnique
    <3>3. (r + 1) % Word = r + 1
      <4>1. r + 1 \in Int /\ r + 1 = Word * 0 + (r + 1) /\ 0 \in Int
        BY <1>1, <1>3
      <4> QED
        BY <1>1, <3>1, <4>1, ModUnique
    <3> QED
      BY <2>1, <3>2, <3>3
  <2>3. CASE r + 1 = Word
    <3>1. Word * (q + 1) = Word * q + Word
      BY <1>1, <1>3
    <3>2. n + 1 + h = Word * (q + 1) + 0 /\ n + 1 + h \in Int /\ q + 1 \in Int
      BY <1>1, <1>3, <2>3, <3>1
    <3>3. 0 \in 0 .. Word - 1 /\ 1 \in Int /\ r + 1 = Word * 1 + 0 /\ r + 1 \in Int
      BY <1>3, <2>3
    <3>4. (n + 1 + h) % Word = 0
      BY <1>1, <3>2, <3>3, ModUnique
    <3>5. (r + 1) % Word = 0
      BY <1>1, <3>3, ModUnique
    <3> QED
      BY <2>1, <3>4, <3>5
  <2>4. r + 1 < Word \/ r + 1 = Word
    BY <1>1, <1>3
  <2> QED
    BY <2>2, <2>3, <2>4, Zenon
<1>8. ASSUME ToInt(n) > -h PROVE ToInt(n - 1) = ToInt(n) - 1
  <2>1. /\ r - 1 \in 0 .. Word - 1 /\ n - 1 + h = Word * q + (r - 1)
        /\ n - 1 + h \in Int
    BY <1>1, <1>3, <1>4, <1>8
  <2>2. (n - 1 + h) % Word = r - 1
    BY <1>1, <1>3, <2>1, ModUnique
  <2> QED
    BY <1>1, <1>2, <1>3, <1>4, <2>2
<1> QED
  BY <1>1, <1>3, <1>4, <1>5, <1>6, <1>7, <1>8

-----------------------------------------------------------------------------
(* What a call of a wait or a turn of its loop comes to.                   *)
LEMMA WaitCases ==
  ASSUME TypeOK, NEW t \in Thread, Wait(t) \/ TimedWait(t) \/ TryWait(t) \/ Retry(t)
  PROVE  /\ current = t /\ pc[t] \in {"user", "retry"}
         /\ timed' \in [Thread -> BOOLEAN] /\ expired' \in [Thread -> BOOLEAN]
         /\ \/ value > 0 /\ Take(t)
            \/ ~(value > 0) /\ EnqueueSelf(t)
            \/ TimeOut(t)
<1>1. current = t /\ pc[t] \in {"user", "retry"}
  BY DEF Wait, TimedWait, TryWait, Retry, At
<1>2. CASE Wait(t) \/ TimedWait(t)
  <2>1. PICK tm \in BOOLEAN, late \in BOOLEAN :
          /\ timed' = [timed EXCEPT ![t] = tm]
          /\ expired' = [expired EXCEPT ![t] = late]
          /\ IF value > 0 THEN Take(t) ELSE IF late THEN TimeOut(t) ELSE EnqueueSelf(t)
    BY <1>2, Zenon DEF Wait, TimedWait
  <2>2. timed' \in [Thread -> BOOLEAN] /\ expired' \in [Thread -> BOOLEAN]
    BY <2>1 DEF TypeOK
  <2> QED
    BY <1>1, <2>1, <2>2, Zenon
<1>3. CASE TryWait(t)
  BY <1>1, <1>3 DEF TryWait, TypeOK
<1>4. CASE Retry(t)
  BY <1>1, <1>4 DEF Retry, TypeOK
<1> QED
  BY <1>2, <1>3, <1>4

(* Every field keeps the type semaphore.c gives it.                        *)
THEOREM SemaphoreTypeCorrect == Spec => []TypeOK
<1> USE DEF TypeOK
<1>1. Init => TypeOK
  <2> SUFFICES ASSUME Init PROVE TypeOK
    OBVIOUS
  <2>1. value \in Int
    <3>1. PICK v \in InitialValues : value = ToInt(v)
      BY DEF Init
    <3>2. v \in Int
      BY SemaphoreAssumption
    <3> QED
      BY <3>1, <3>2, ToIntFacts
  <2>2. SchedTypeOK
    BY DEF Init, SchedInit, SchedTypeOK, ThreadState
  <2> QED
    BY <2>1, <2>2 DEF Init
<1>2. TypeOK /\ [Next]_vars => TypeOK'
  <2> SUFFICES ASSUME TypeOK, [Next]_vars PROVE TypeOK'
    OBVIOUS
  <2>1. ASSUME NEW t \in Thread, Wait(t) \/ TimedWait(t) \/ TryWait(t) \/ Retry(t) PROVE TypeOK'
    <3>1. /\ timed' \in [Thread -> BOOLEAN] /\ expired' \in [Thread -> BOOLEAN]
          /\ \/ value > 0 /\ Take(t)
             \/ ~(value > 0) /\ EnqueueSelf(t)
             \/ TimeOut(t)
      BY <2>1, WaitCases
    <3>2. CASE value > 0 /\ Take(t)
      BY <3>1, <3>2 DEF Take, AtMost, Goto, schedVars, SchedTypeOK
    <3>3. CASE EnqueueSelf(t)
      <4>1. waiters' \in Seq(Thread)
        BY <3>3, AddFacts DEF EnqueueSelf
      <4> QED
        BY <3>1, <3>3, <4>1 DEF EnqueueSelf, Goto, SchedTypeOK, ThreadState
    <3>4. CASE TimeOut(t)
      <4>1. waiters' \in Seq(Thread)
        BY <3>4, RemoveFacts DEF TimeOut
      <4>2. stranded' \in Nat
        BY <3>4 DEF TimeOut, AtMost, AtLeast
      <4> QED
        BY <3>1, <3>4, <4>1, <4>2 DEF TimeOut, Goto, schedVars, SchedTypeOK
    <3> QED
      BY <3>1, <3>2, <3>3, <3>4
  <2>2. ASSUME NEW t \in Thread, Park(t) PROVE TypeOK'
    <3>1. SchedTypeOK'
      BY <2>2, ScheduleFacts DEF Park, SchedTypeOK
    <3> QED
      BY <2>2, <3>1 DEF Park, Goto, semVars
  <2>3. ASSUME NEW t \in Thread, Post(t) PROVE TypeOK'
    <3>1. waiters' \in Seq(Thread) /\ Woken(waiters) \subseteq Thread
      BY <2>3, WakeFacts, EmptyFacts DEF Post
    <3>2. value' \in Int /\ supply' \in Int
      BY <2>3, ToIntFacts DEF Post
    <3>3. SchedTypeOK'
      BY <2>3, <3>1 DEF Post, scheduler_unblock, SchedTypeOK, ThreadState
    <3> QED
      BY <2>3, <3>1, <3>2, <3>3 DEF Post
  <2>4. ASSUME NEW t \in Thread, Destroy(t) PROVE TypeOK'
    BY <2>4 DEF Destroy, schedVars, SchedTypeOK
  <2>5. ASSUME NEW t \in Thread, SemInit(t) PROVE TypeOK'
    <3>1. PICK v \in InitialValues : value' = ToInt(v)
      BY <2>5 DEF SemInit
    <3>2. value' \in Int
      BY <3>1, SemaphoreAssumption, ToIntFacts
    <3>3. initialized' \in BOOLEAN
      BY <2>5, Zenon DEF SemInit
    <3> QED
      BY <2>5, <3>2, <3>3 DEF SemInit, schedVars, SchedTypeOK
  <2>6. ASSUME NEW t \in Thread, Expire(t) PROVE TypeOK'
    BY <2>6 DEF Expire, schedVars, semVars, SchedTypeOK
  <2>7. ASSUME NEW t \in Thread, Yield(t) \/ Tick(t) PROVE TypeOK'
    BY <2>7, SwitchType DEF Yield, Tick, semVars
  <2>8. CASE UNCHANGED vars
    BY <2>8 DEF vars, schedVars, semVars, SchedTypeOK
  <2> QED
    BY <2>1, <2>2, <2>3, <2>4, <2>5, <2>6, <2>7, <2>8 DEF Next, Step
<1> QED
  BY <1>1, <1>2, PTL DEF Spec

(* No wait succeeds without a unit, for an int of any width: value is what *)
(* was supplied less what was taken, and never below zero before the count *)
(* of posts passes INT_MAX.                                                *)
THEOREM UnitsAreConserved == Spec => []UnitsConserved
<1> DEFINE Floor == supply >= -INT_MAX - 1
           IInv == Floor /\ UnitsConserved
<1>0. INT_MAX \in Nat
  BY ToIntFacts, 0 \in Int
<1>1. Init => IInv
  <2> SUFFICES ASSUME Init PROVE IInv
    OBVIOUS
  <2>1. PICK v \in InitialValues : value = ToInt(v)
    BY DEF Init
  <2>2. value \in -INT_MAX - 1 .. INT_MAX
    BY <2>1, SemaphoreAssumption, ToIntFacts
  <2>3. ToInt(value) = value /\ value \in Int /\ value - 0 = value
    BY <1>0, <2>2, ToIntFacts
  <2> QED
    BY <1>0, <2>2, <2>3 DEF Init, UnitsConserved
<1>2. TypeOK /\ IInv /\ [Next]_vars => IInv'
  <2> SUFFICES ASSUME TypeOK, IInv, [Next]_vars PROVE IInv'
    OBVIOUS
  <2> USE <1>0
  <2>0. value \in Int /\ supply \in Int /\ taken \in Nat
    BY DEF TypeOK
  <2>1. CASE UNCHANGED <<value, supply, taken>>
    BY <2>1 DEF UnitsConserved, ToInt, INT_MAX
  <2>2. ASSUME NEW t \in Thread, Wait(t) \/ TimedWait(t) \/ TryWait(t) \/ Retry(t) PROVE IInv'
    <3>1. CASE value > 0 /\ Take(t)
      <4>1. value' = value - 1 /\ taken' = taken + 1 /\ supply' = supply
        BY <3>1 DEF Take
      <4>2. ToInt(supply - taken) > -INT_MAX - 1 /\ supply - taken \in Int
        BY <2>0, <3>1 DEF UnitsConserved
      <4>3. ToInt((supply - taken) - 1) = value - 1
        BY <2>0, <4>2, ToIntFacts DEF UnitsConserved
      <4>4. supply' - taken' = (supply - taken) - 1
        BY <2>0, <4>1
      <4>5. value' = ToInt(supply' - taken')
        BY <4>1, <4>3, <4>4
      <4> QED
        BY <2>0, <3>1, <4>1, <4>4, <4>5 DEF UnitsConserved, ToInt, INT_MAX
    <3>2. CASE EnqueueSelf(t) \/ TimeOut(t)
      BY <2>1, <3>2 DEF EnqueueSelf, TimeOut
    <3> QED
      BY <2>2, <3>1, <3>2, WaitCases
  <2>3. ASSUME NEW t \in Thread, Post(t) PROVE IInv'
    <3>1. value' = ToInt(value + 1) /\ supply' = supply + 1 /\ taken' = taken
      BY <2>3 DEF Post
    <3>2. /\ value = ToInt(supply - taken) /\ supply - taken \in Int
          /\ supply' - taken' = (supply - taken) + 1
      BY <2>0, <3>1 DEF UnitsConserved
    <3>3. value' = ToInt(supply' - taken')
      BY <3>1, <3>2, ToIntFacts
    <3>4. ASSUME supply' <= INT_MAX PROVE value' = value + 1 /\ value = supply - taken
      <4>1. value = supply - taken /\ (taken > 0 => value >= 0)
        BY <2>0, <3>1, <3>4 DEF UnitsConserved
      <4>2. value + 1 \in -INT_MAX - 1 .. INT_MAX
        BY <2>0, <3>1, <3>4, <4>1
      <4> QED
        BY <2>0, <3>1, <4>1, <4>2, ToIntFacts
    <3> QED
      BY <2>0, <3>1, <3>2, <3>3, <3>4 DEF UnitsConserved, ToInt, INT_MAX
  <2>4. ASSUME NEW t \in Thread, SemInit(t) PROVE IInv'
    <3>1. PICK v \in InitialValues : value' = ToInt(v)
      BY <2>4 DEF SemInit
    <3>2. value' \in -INT_MAX - 1 .. INT_MAX
      BY <3>1, SemaphoreAssumption, ToIntFacts
    <3>3. supply' = value' /\ taken' = 0
      BY <2>4 DEF SemInit
    <3>4. value' \in Int /\ value' >= -INT_MAX - 1 /\ supply' - taken' = value'
      <4>1. value' \in Int
        BY <3>1, SemaphoreAssumption, ToIntFacts
      <4>2. value' >= -INT_MAX - 1
        BY <3>2, <4>1
      <4>3. \A n \in Int : n - 0 = n
        OBVIOUS
      <4> QED
        BY <3>3, <4>1, <4>2, <4>3, Zenon
    <3>5. ASSUME NEW n \in Int, n \in -INT_MAX - 1 .. INT_MAX PROVE n = ToInt(n)
      BY <3>5, ToIntFacts
    <3>6. value' = ToInt(supply' - taken')
      BY <3>2, <3>4, <3>5
    <3> QED
      BY <3>3, <3>4, <3>6 DEF UnitsConserved, ToInt, INT_MAX
  <2>5. ASSUME NEW t \in Thread,
               Park(t) \/ Destroy(t) \/ Expire(t) \/ Yield(t) \/ Tick(t)
        PROVE  IInv'
    BY <2>1, <2>5 DEF Park, Destroy, Expire, Yield, Tick, semVars
  <2>6. CASE UNCHANGED vars
    BY <2>1, <2>6 DEF vars, semVars
  <2> QED
    BY <2>2, <2>3, <2>4, <2>5, <2>6 DEF Next, Step
<1> QED
  BY <1>1, <1>2, SemaphoreTypeCorrect, PTL DEF Spec

-----------------------------------------------------------------------------
(* Counting woken threads.                                                 *)
LEMMA CountFacts ==
  ASSUME NEW S \in SUBSET Thread, NEW T \in SUBSET Thread, NEW t
  PROVE  /\ Cardinality(S) \in Nat
         /\ S \subseteq T => Cardinality(S) <= Cardinality(T)
         /\ S \ {t} \subseteq T => Cardinality(S) - 1 <= Cardinality(T)
         /\ t \notin S /\ S \cup {t} \subseteq T => Cardinality(S) + 1 <= Cardinality(T)
<1>1. IsFiniteSet(S) /\ IsFiniteSet(T)
  BY SemaphoreAssumption, FS_Subset
<1>2. Cardinality(S) \in Nat /\ Cardinality(T) \in Nat
  BY <1>1, FS_CardinalityType
<1>3. ASSUME NEW R, R \subseteq T PROVE Cardinality(R) <= Cardinality(T)
  BY <1>1, <1>3, FS_Subset
<1>4. Cardinality(S \ {t}) = IF t \in S THEN Cardinality(S) - 1 ELSE Cardinality(S)
  BY <1>1, FS_RemoveElement
<1>5. Cardinality(S \cup {t}) = IF t \in S THEN Cardinality(S) ELSE Cardinality(S) + 1
  BY <1>1, FS_AddElement
<1> QED
  BY <1>2, <1>3, <1>4, <1>5

(* A wait that takes a unit keeps the others promised.                     *)
LEMMA PromisedTake ==
  ASSUME TypeOK, WaitQueueOK, UnitsPromised, NEW t \in Thread, current = t,
         pc[t] \in {"user", "retry"}, value > 0, Take(t)
  PROVE  WaitQueueOK' /\ UnitsPromised'
<1>1. /\ UNCHANGED <<current, state, ready, waiters>>
      /\ pc' = [pc EXCEPT ![t] = "user"] /\ value' = value - 1
      /\ stranded' = AtMost(stranded, value - 1)
  BY DEF Take, Goto, schedVars
<1>2. /\ t \notin Members(waiters) /\ state[t] # "BLOCKED" /\ Members(waiters) \subseteq Thread
  BY EmptyFacts DEF WaitQueueOK, TypeOK
<1>3. WaitQueueOK'
  BY <1>1, <1>2 DEF WaitQueueOK, RunStructureOK, TypeOK
<1>4. Woke \ {t} \subseteq Woke' /\ Woke \in SUBSET Thread /\ Woke' \in SUBSET Thread
  BY <1>1 DEF Woke, TypeOK
<1>5. /\ Cardinality(Woke) - 1 <= Cardinality(Woke')
      /\ Cardinality(Woke) \in Nat /\ Cardinality(Woke') \in Nat
  BY <1>4, CountFacts
<1>6. value \in Int /\ stranded \in Nat
  BY DEF TypeOK
<1> QED
  BY <1>1, <1>3, <1>5, <1>6 DEF UnitsPromised, AtMost

(* A thread queues itself only when there is no unit.                      *)
LEMMA PromisedEnqueue ==
  ASSUME TypeOK, WaitQueueOK, UnitsPromised, NEW t \in Thread, current = t,
         pc[t] \in {"user", "retry"}, ~(value > 0), EnqueueSelf(t)
  PROVE  WaitQueueOK' /\ UnitsPromised'
<1>1. /\ UNCHANGED <<current, ready, value, stranded>>
      /\ pc' = [pc EXCEPT ![t] = "park"]
      /\ state' = [state EXCEPT ![t] = "BLOCKED"]
      /\ state \in [Thread -> ThreadState] /\ pc \in [Thread -> {"user", "park", "retry"}]
  BY DEF EnqueueSelf, Goto, TypeOK, SchedTypeOK
<1>2. /\ t \notin Members(waiters) /\ t \notin ready /\ Distinct(waiters)
      /\ Members(waiters) \subseteq Thread /\ ready \subseteq Thread
  BY EmptyFacts DEF WaitQueueOK, RunStructureOK, TypeOK, SchedTypeOK
<1>3. Distinct(waiters') /\ Members(waiters') \subseteq Members(waiters) \cup {t}
  BY <1>2, AddFacts DEF EnqueueSelf, TypeOK
<1>4. WaitQueueOK'
  BY <1>1, <1>2, <1>3 DEF WaitQueueOK, RunStructureOK
<1>5. Cardinality(Woke') \in Nat
  BY CountFacts DEF Woke
<1> QED
  BY <1>1, <1>4, <1>5 DEF UnitsPromised, TypeOK

(* A wait that times out leaves the unit it was woken for to the stranded  *)
(* ones.                                                                   *)
LEMMA PromisedTimeOut ==
  ASSUME TypeOK, WaitQueueOK, UnitsPromised, NEW t \in Thread, current = t,
         pc[t] \in {"user", "retry"}, TimeOut(t)
  PROVE  WaitQueueOK' /\ UnitsPromised'
<1>1. /\ UNCHANGED <<current, state, ready, value>>
      /\ pc' = [pc EXCEPT ![t] = "user"]
      /\ waiters' = wait_queue_remove_specific(waiters, t)
  BY DEF TimeOut, Goto, schedVars
<1>2. t \notin Members(waiters) /\ state[t] # "BLOCKED" /\ Members(waiters) \subseteq Thread
  BY EmptyFacts DEF WaitQueueOK, TypeOK
<1>3. waiters' = waiters
  BY <1>1, <1>2, RemoveFacts DEF TypeOK
<1>4. WaitQueueOK'
  BY <1>1, <1>2, <1>3 DEF WaitQueueOK, RunStructureOK, TypeOK
<1>5. /\ Woke \ {t} \subseteq Woke' /\ Woke \in SUBSET Thread /\ Woke' \in SUBSET Thread
      /\ pc[t] = "user" => Woke \subseteq Woke'
  BY <1>1 DEF Woke, TypeOK
<1>6. /\ Cardinality(Woke) - 1 <= Cardinality(Woke')
      /\ pc[t] = "user" => Cardinality(Woke) <= Cardinality(Woke')
      /\ Cardinality(Woke) \in Nat /\ Cardinality(Woke') \in Nat
  BY <1>5, CountFacts
<1>7. /\ value \in Int /\ stranded \in Nat
      /\ stranded' = IF pc[t] = "retry" THEN AtMost(stranded + 1, AtLeast(value, 0))
                     ELSE stranded
  BY <1>2 DEF TypeOK, TimeOut
<1> QED
  BY <1>1, <1>3, <1>4, <1>6, <1>7 DEF UnitsPromised, AtMost, AtLeast

(* The blocked thread leaves the CPU.                                      *)
LEMMA PromisedPark ==
  ASSUME TypeOK, WaitQueueOK, UnitsPromised, NEW t \in Thread, Park(t)
  PROVE  WaitQueueOK' /\ UnitsPromised'
<1>1. /\ current = t /\ pc[t] = "park" /\ state[t] = "BLOCKED"
      /\ pc' = [pc EXCEPT ![t] = "retry"] /\ pc \in [Thread -> {"user", "park", "retry"}]
      /\ scheduler_schedule(state, ready) /\ SchedTypeOK /\ RunStructureOK
      /\ UNCHANGED <<waiters, value, stranded>>
  BY DEF Park, At, Goto, semVars, WaitQueueOK, TypeOK
<1>2. /\ SchedTypeOK' /\ RunStructureOK' /\ current' # t
      /\ \A u \in Thread : state'[u] = "BLOCKED" <=> state[u] = "BLOCKED"
      /\ \A u \in Thread : u \in ready' \cup {current'} <=> u \in ready
  BY <1>1, ParkFacts
<1>3. Members(waiters) \subseteq Thread /\ \A u \in ready : u \in Thread /\ state[u] # "BLOCKED"
  BY EmptyFacts DEF TypeOK, SchedTypeOK, WaitQueueOK, RunStructureOK
<1>4. \A u \in Thread : pc'[u] # "park"
  BY <1>1 DEF WaitQueueOK
<1>5. WaitQueueOK'
  BY <1>1, <1>2, <1>3, <1>4 DEF WaitQueueOK
<1>6. Woke \subseteq Woke' /\ Woke \in SUBSET Thread /\ Woke' \in SUBSET Thread
  BY <1>1, <1>2 DEF Woke
<1>7. /\ Cardinality(Woke) <= Cardinality(Woke')
      /\ Cardinality(Woke) \in Nat /\ Cardinality(Woke') \in Nat
  BY <1>6, CountFacts
<1> QED
  BY <1>1, <1>5, <1>7 DEF UnitsPromised, TypeOK

(* A post promises the unit it adds to the thread it wakes.                *)
LEMMA PromisedPost ==
  ASSUME TypeOK, WaitQueueOK, UnitsPromised, UnitsConserved, NEW t \in Thread, Post(t)
  PROVE  WaitQueueOK' /\ UnitsPromised'
<1> DEFINE W == Woken(waiters)
<1>1. /\ current = t /\ pc[t] = "user" /\ value' = ToInt(value + 1)
      /\ scheduler_unblock(W) /\ waiters' = AfterWake(waiters)
      /\ UNCHANGED <<pc, stranded>>
  BY DEF Post, At
<1>2. /\ W \subseteq Members(waiters) /\ Members(waiters) \subseteq Thread
      /\ waiters # <<>> => W # {}
      /\ Members(waiters') \subseteq Members(waiters)
      /\ Distinct(waiters') /\ Members(waiters') \cap W = {}
  BY <1>1, WakeFacts, EmptyFacts DEF TypeOK, WaitQueueOK
<1> HIDE DEF W
<1>3. \A u \in Members(waiters) : u # current /\ pc[u] = "retry" /\ u \notin ready
  BY <1>1, <1>2 DEF WaitQueueOK, RunStructureOK, TypeOK
<1>4. /\ RunStructureOK' /\ current' = current /\ ready' = ready \cup W
      /\ \A u \in Thread : state'[u] = "BLOCKED" <=> state[u] = "BLOCKED" /\ u \notin W
  <2>1. W \in SUBSET Thread /\ current \notin W /\ SchedTypeOK /\ RunStructureOK
    BY <1>2, <1>3 DEF TypeOK, WaitQueueOK
  <2> QED
    BY <1>1, <2>1, UnblockFacts
<1>5. WaitQueueOK'
  BY <1>1, <1>2, <1>3, <1>4 DEF WaitQueueOK
<1>6. ASSUME waiters' # <<>>
      PROVE  /\ waiters # <<>>
             /\ Cardinality(Woke) + 1 <= Cardinality(Woke')
             /\ Cardinality(Woke) \in Nat /\ Cardinality(Woke') \in Nat
  <2>1. waiters # <<>>
    BY <1>1, <1>6 DEF AfterWake
  <2>2. PICK u : u \in W
    BY <1>2, <2>1
  <2>3. u \notin Woke /\ Woke \cup {u} \subseteq Woke'
    BY <1>1, <1>2, <1>3, <1>4, <2>2 DEF Woke
  <2>4. Woke \in SUBSET Thread /\ Woke' \in SUBSET Thread
    BY DEF Woke
  <2> QED
    BY <2>1, <2>3, <2>4, CountFacts
<1>7. value \in Int /\ stranded \in Nat /\ value' \in Int /\ value' <= value + 1
  <2>1. value \in Int /\ supply - taken \in Int /\ stranded \in Nat
    BY DEF TypeOK
  <2>2. value \in -INT_MAX - 1 .. INT_MAX /\ INT_MAX \in Nat
    BY <2>1, ToIntFacts DEF UnitsConserved
  <2>3. value + 1 \in Int
    BY <2>1
  <2>4. /\ ToInt(value + 1) \in -INT_MAX - 1 .. INT_MAX
        /\ value + 1 <= INT_MAX => ToInt(value + 1) = value + 1
    BY <2>1, <2>2, <2>3, ToIntFacts
  <2> QED
    BY <1>1, <2>1, <2>2, <2>4
<1> QED
  BY <1>1, <1>5, <1>6, <1>7 DEF UnitsPromised

(* A yield or a tick puts nobody to sleep and keeps woken threads woken.   *)
LEMMA PromisedSwitch ==
  ASSUME ParkTicks = FALSE, TypeOK, WaitQueueOK, UnitsPromised, NEW t \in Thread,
         Yield(t) \/ Tick(t)
  PROVE  WaitQueueOK' /\ UnitsPromised'
<1>1. /\ current = t /\ pc[t] # "park"
      /\ uthread_yield(t) \/ scheduler_tick(t)
      /\ pc[t] # "user" => scheduler_tick(t)
      /\ UNCHANGED <<pc, waiters, value, stranded>>
  BY DEF Yield, Tick, At, semVars, scheduler_tick
<1>2. SchedTypeOK /\ RunStructureOK /\ state[t] # "BLOCKED"
  BY <1>1 DEF TypeOK, WaitQueueOK
<1>3. /\ RunStructureOK'
      /\ \A u \in Thread : state'[u] = "BLOCKED" <=> state[u] = "BLOCKED"
      /\ \A u \in Thread : u \in ready' \cup {current'} => u \in ready \cup {current}
      /\ \A u \in ready : u \in ready' \cup {current'}
      /\ scheduler_tick(t) => t \in ready' \cup {current'}
  BY <1>1, <1>2, SwitchFacts
<1>4. /\ Members(waiters) \subseteq Thread
      /\ \A u \in Thread : pc[u] # "park"
      /\ \A u \in ready \cup {current} : u \in Thread => state[u] # "BLOCKED"
  BY <1>1, <1>2, EmptyFacts DEF TypeOK, SchedTypeOK, WaitQueueOK, RunStructureOK
<1>5. WaitQueueOK'
  BY <1>1, <1>3, <1>4 DEF WaitQueueOK
<1>6. Woke \subseteq Woke' /\ Woke \in SUBSET Thread /\ Woke' \in SUBSET Thread
  BY <1>1, <1>3 DEF Woke
<1>7. /\ Cardinality(Woke) <= Cardinality(Woke')
      /\ Cardinality(Woke) \in Nat /\ Cardinality(Woke') \in Nat
  BY <1>6, CountFacts
<1> QED
  BY <1>1, <1>5, <1>7 DEF UnitsPromised, TypeOK

(* While threads sleep on the semaphore as many have been woken as there   *)
(* are units, but for those a timed-out wait has left behind.              *)
THEOREM UnitsArePromised ==
  ASSUME ParkTicks = FALSE
  PROVE  Spec => []UnitsPromised
<1>1. Init => WaitQueueOK /\ UnitsPromised
  <2> SUFFICES ASSUME Init PROVE WaitQueueOK /\ UnitsPromised
    OBVIOUS
  <2>1. waiters = <<>> /\ Members(waiters) = {} /\ Distinct(waiters)
    BY EmptyFacts, <<>> \in Seq(Thread) DEF Init
  <2> QED
    BY <2>1 DEF Init, SchedInit, WaitQueueOK, RunStructureOK, UnitsPromised
<1>2. /\ TypeOK /\ UnitsConserved /\ WaitQueueOK /\ UnitsPromised /\ [Next]_vars
      => WaitQueueOK' /\ UnitsPromised'
  <2> SUFFICES ASSUME TypeOK, UnitsConserved, WaitQueueOK, UnitsPromised, [Next]_vars
               PROVE  WaitQueueOK' /\ UnitsPromised'
    OBVIOUS
  <2>1. ASSUME NEW t \in Thread, Wait(t) \/ TimedWait(t) \/ TryWait(t) \/ Retry(t)
        PROVE  WaitQueueOK' /\ UnitsPromised'
    BY <2>1, WaitCases, PromisedTake, PromisedEnqueue, PromisedTimeOut
  <2>2. ASSUME NEW t \in Thread, Park(t) PROVE WaitQueueOK' /\ UnitsPromised'
    BY <2>2, PromisedPark
  <2>3. ASSUME NEW t \in Thread, Post(t) PROVE WaitQueueOK' /\ UnitsPromised'
    BY <2>3, PromisedPost
  <2>4. CASE UNCHANGED <<schedVars, waiters, pc, value, stranded>>
    BY <2>4 DEF schedVars, WaitQueueOK, RunStructureOK, UnitsPromised, Woke
  <2>5. ASSUME NEW t \in Thread, Destroy(t) \/ Expire(t)
        PROVE  WaitQueueOK' /\ UnitsPromised'
    BY <2>4, <2>5 DEF Destroy, Expire, semVars
  <2>6. ASSUME NEW t \in Thread, SemInit(t) PROVE WaitQueueOK' /\ UnitsPromised'
    <3>1. waiters' = <<>> /\ Members(waiters') = {} /\ Distinct(waiters')
      BY <2>6, EmptyFacts, <<>> \in Seq(Thread) DEF SemInit
    <3> QED
      BY <2>6, <3>1 DEF SemInit, schedVars, WaitQueueOK, RunStructureOK, UnitsPromised
  <2>7. ASSUME NEW t \in Thread, Yield(t) \/ Tick(t) PROVE WaitQueueOK' /\ UnitsPromised'
    BY <2>7, PromisedSwitch
  <2>8. CASE UNCHANGED vars
    BY <2>4, <2>8 DEF vars, semVars
  <2> QED
    BY <2>1, <2>2, <2>3, <2>5, <2>6, <2>7, <2>8 DEF Next, Step
<1> QED
  BY <1>1, <1>2, SemaphoreTypeCorrect, UnitsAreConserved, PTL DEF Spec
=============================================================================
