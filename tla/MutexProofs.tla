---------------------------- MODULE MutexProofs ----------------------------
(***************************************************************************)
(* Proofs about Mutex and about CondVar, which is built on it, for any     *)
(* number of threads, any nesting and any policy.                          *)
(*                                                                         *)
(* Of the mutex, the type invariant, mutual exclusion and the refinement   *)
(* of AbstractLock hold however it is set up and wherever ticks fall; the  *)
(* results on its wait queue assume uthread_mutex_init and no tick between *)
(* preemption_enable() and scheduler_schedule().  Of the condition, that   *)
(* sleepers are queued and that a wait gives the mutex back hold wherever  *)
(* ticks fall; that the queue of the mutex is served assumes no such tick  *)
(* and holds for every way of setting up the mutex and the condition, with *)
(* and without timed waits.                                                *)
(***************************************************************************)
EXTENDS CondVar, SchedulerProofs

-----------------------------------------------------------------------------
(* The mutex.                                                              *)

USE IdleAssumption, MutexAssumption

(* No step changes how the program has set the mutex up.                   *)
LEMMA ModeFixed == [Next]_vars => mode' = mode
<1>1. CASE UNCHANGED vars
  BY <1>1 DEF vars, mutexVars
<1>2. ASSUME NEW t \in Thread, Acquire(t) \/ EnqueueSelf(t) \/ Nest(t) \/ Refuse(t) \/ Release(t)
      PROVE  mode' = mode
  BY <1>2 DEF Acquire, EnqueueSelf, Nest, Refuse, Release, mutexVars
<1>3. ASSUME NEW t \in Thread, LockBody(t) \/ TryBody(t) \/ Relock(t) \/ Unlock(t)
      PROVE  mode' = mode
  BY <1>2, <1>3 DEF LockBody, TryBody, Relock, Unlock
<1>4. ASSUME NEW t \in Thread, Step(t) PROVE mode' = mode
  BY <1>3, <1>4 DEF Step, LockCall, TryCall, LazyInit, Park, Destroy, MutexInit, Yield,
                    Tick, mutexVars
<1> QED
  BY <1>1, <1>4 DEF Next

(* Every field keeps the type mutex.c and internal.h give it.              *)
THEOREM TypeCorrect == Spec => []TypeOK
<1>1. Init => TypeOK
  BY DEF Init, TypeOK, SchedInit, SchedTypeOK, ThreadState, PC
<1>2. TypeOK /\ [Next]_vars => TypeOK'
  <2> SUFFICES ASSUME TypeOK, [Next]_vars PROVE TypeOK'
    OBVIOUS
  <2>0. mode' \in {"init", "zero", "static"}
    BY ModeFixed DEF TypeOK
  <2> USE <2>0 DEF TypeOK
  <2>1. ASSUME NEW t \in Thread, LockCall(t) \/ TryCall(t) PROVE TypeOK'
    <3>1. pc' \in [Thread -> PC]
      BY <2>1 DEF LockCall, TryCall, Goto, PC
    <3>2. UNCHANGED <<schedVars, mutexVars, held>>
      BY <2>1 DEF LockCall, TryCall
    <3> QED
      BY <3>1, <3>2 DEF schedVars, mutexVars, SchedTypeOK
  <2>2. ASSUME NEW t \in Thread, LazyInit(t) PROVE TypeOK'
    <3>1. pc' \in [Thread -> PC]
      BY <2>2 DEF LazyInit, Goto, PC
    <3>2. waiters' \in Seq(Thread)
      BY <2>2 DEF LazyInit
    <3>3. has_queue' \in BOOLEAN /\ initialized' \in BOOLEAN
      BY <2>2, Zenon DEF LazyInit
    <3>4. UNCHANGED <<schedVars, lock, owner, recursion_count, type, held>>
      BY <2>2 DEF LazyInit
    <3> QED
      BY <3>1, <3>2, <3>3, <3>4 DEF schedVars, SchedTypeOK
  <2>3. ASSUME NEW t \in Thread, Acquire(t) PROVE TypeOK'
    BY <2>3 DEF Acquire, Goto, PC, schedVars, SchedTypeOK
  <2>4. ASSUME NEW t \in Thread, EnqueueSelf(t) PROVE TypeOK'
    <3>1. waiters' \in Seq(Thread)
      BY <2>4, AddFacts DEF EnqueueSelf
    <3> QED
      BY <2>4, <3>1 DEF EnqueueSelf, Goto, PC, SchedTypeOK, ThreadState
  <2>5. ASSUME NEW t \in Thread, Nest(t) \/ Refuse(t) PROVE TypeOK'
    <3>1. pc' \in [Thread -> PC]
      BY <2>5 DEF Nest, Refuse, Goto, PC
    <3>2. recursion_count' \in Nat /\ held' \in [Thread -> Nat]
      BY <2>5 DEF Nest, Refuse, mutexVars
    <3>3. UNCHANGED <<schedVars, lock, owner, type, waiters, has_queue, initialized>>
      BY <2>5 DEF Nest, Refuse, mutexVars
    <3> QED
      BY <3>1, <3>2, <3>3 DEF schedVars, SchedTypeOK
  <2>6. ASSUME NEW t \in Thread, LockBody(t) \/ TryBody(t) \/ Relock(t) PROVE TypeOK'
    BY <2>3, <2>4, <2>5, <2>6 DEF LockBody, TryBody, Relock
  <2>7. ASSUME NEW t \in Thread, Park(t) PROVE TypeOK'
    <3>1. SchedTypeOK'
      BY <2>7, ScheduleFacts DEF Park, SchedTypeOK
    <3> QED
      BY <2>7, <3>1 DEF Park, Goto, PC, mutexVars
  <2>8. ASSUME NEW t \in Thread, Release(t) PROVE TypeOK'
    <3>1. waiters' \in Seq(Thread) /\ Woken(waiters) \subseteq Thread
      BY <2>8, WakeFacts, EmptyFacts DEF Release
    <3>2. SchedTypeOK'
      BY <2>8, <3>1 DEF Release, scheduler_unblock, SchedTypeOK, ThreadState
    <3> QED
      BY <2>8, <3>1, <3>2 DEF Release
  <2>9. ASSUME NEW t \in Thread, Unlock(t) PROVE TypeOK'
    <3>1. CASE recursion_count > 1 /\ type = "RECURSIVE" /\ ~Release(t) /\ ~Refuse(t)
      <4>1. recursion_count' = recursion_count - 1 /\ held' = [held EXCEPT ![t] = @ - 1]
        BY <2>9, <3>1 DEF Unlock
      <4>3. held[t] > 0 /\ held[t] \in Nat
        BY <2>9, <3>1 DEF Unlock
      <4>2. UNCHANGED <<schedVars, lock, owner, type, waiters, has_queue, initialized, pc>>
        BY <2>9, <3>1 DEF Unlock
      <4> QED
        BY <3>1, <4>1, <4>2, <4>3 DEF schedVars, SchedTypeOK
    <3> QED
      BY <2>5, <2>8, <2>9, <3>1 DEF Unlock
  <2>10. ASSUME NEW t \in Thread, Destroy(t) \/ MutexInit(t) PROVE TypeOK'
    <3>1. has_queue' \in BOOLEAN /\ initialized' \in BOOLEAN
      BY <2>10, Zenon DEF Destroy, MutexInit
    <3>2. UNCHANGED <<schedVars, pc, held>>
      BY <2>10 DEF Destroy, MutexInit
    <3>3. /\ lock' \in {0, 1} /\ owner' \in Thread \cup {None}
          /\ recursion_count' \in Nat /\ waiters' \in Seq(Thread)
          /\ type' \in {"NORMAL", "RECURSIVE", "ERRORCHECK"}
      <4>1. CASE Destroy(t)
        BY <4>1 DEF Destroy
      <4>2. CASE MutexInit(t)
        BY <4>2 DEF MutexInit
      <4> QED
        BY <2>10, <4>1, <4>2
    <3> QED
      BY <3>1, <3>2, <3>3 DEF schedVars, SchedTypeOK
  <2>11. ASSUME NEW t \in Thread, Yield(t) \/ Tick(t) PROVE TypeOK'
    BY <2>11, SwitchType DEF Yield, Tick, mutexVars
  <2>12. CASE UNCHANGED vars
    BY <2>12 DEF vars, schedVars, mutexVars, SchedTypeOK
  <2> QED
    BY <2>1, <2>2, <2>6, <2>7, <2>9, <2>10, <2>11, <2>12 DEF Next, Step
<1> QED
  BY <1>1, <1>2, PTL DEF Spec

-----------------------------------------------------------------------------
(* The lock fields after a step, as the callers see them.                  *)
LEMMA OwnershipStep ==
  ASSUME TypeOK, Ownership, [Next]_vars
  PROVE  Ownership'
<1>1. ASSUME UNCHANGED <<lock, owner, recursion_count, type, held>> PROVE Ownership'
  BY <1>1 DEF Ownership
<1>2. ASSUME NEW t \in Thread, lock = 0, Acquire(t) PROVE Ownership'
  <2>1. owner = None /\ \A u \in Thread : held[u] = 0
    BY <1>2 DEF Ownership, TypeOK
  <2>2. held'[t] = 1 /\ \A u \in Thread \ {t} : held'[u] = 0
    BY <1>2, <2>1 DEF Acquire, TypeOK
  <2> QED
    BY <1>2, <2>2 DEF Acquire, Ownership
<1>3. ASSUME NEW t \in Thread, Nest(t) PROVE Ownership'
  <2>1. owner = t /\ held[t] = recursion_count /\ type = "RECURSIVE"
    BY <1>3 DEF Nest, Ownership
  <2>2. held'[t] = held[t] + 1 /\ \A u \in Thread \ {t} : held'[u] = held[u]
    BY <1>3 DEF Nest, TypeOK
  <2> QED
    BY <1>3, <2>1, <2>2 DEF Nest, Ownership, TypeOK
<1>4. ASSUME NEW t \in Thread, EnqueueSelf(t) \/ Refuse(t) PROVE Ownership'
  BY <1>1, <1>4 DEF EnqueueSelf, Refuse, mutexVars
<1>5. ASSUME NEW t \in Thread, LockBody(t) \/ TryBody(t) \/ Relock(t) PROVE Ownership'
  BY <1>2, <1>3, <1>4, <1>5 DEF LockBody, TryBody, Relock
<1>6. ASSUME NEW t \in Thread, Unlock(t) PROVE Ownership'
  <2>1. CASE Refuse(t)
    BY <1>4, <2>1
  <2>2. CASE Release(t) /\ owner = t /\ ~(type = "RECURSIVE" /\ recursion_count > 1)
    <3>1. held[t] = 1 /\ \A u \in Thread \ {t} : held[u] = 0
      BY <2>2 DEF Ownership, TypeOK
    <3>2. \A u \in Thread : held'[u] = 0
      BY <2>2, <3>1 DEF Release, TypeOK
    <3> QED
      BY <2>2, <3>2 DEF Release, Ownership
  <2>3. CASE /\ type = "RECURSIVE" /\ owner = t /\ recursion_count > 1
             /\ recursion_count' = recursion_count - 1
             /\ held' = [held EXCEPT ![t] = @ - 1]
             /\ UNCHANGED <<lock, owner, type>>
    <3>1. held[t] = recursion_count /\ \A u \in Thread \ {t} : held[u] = 0
      BY <2>3 DEF Ownership, TypeOK
    <3>2. held'[t] = recursion_count - 1 /\ \A u \in Thread \ {t} : held'[u] = 0
      BY <2>3, <3>1 DEF TypeOK
    <3> QED
      BY <2>3, <3>2 DEF Ownership, TypeOK
  <2>4. held[t] > 0 => owner = t
    BY DEF Ownership
  <2> QED
    BY <1>6, <2>1, <2>2, <2>3, <2>4 DEF Unlock
<1>7. ASSUME NEW t \in Thread, MutexInit(t) PROVE Ownership'
  BY <1>7 DEF MutexInit, Ownership, TypeOK
<1>8. ASSUME NEW t \in Thread,
             \/ LockCall(t) \/ TryCall(t) \/ LazyInit(t) \/ Park(t) \/ Destroy(t)
             \/ Yield(t) \/ Tick(t)
      PROVE  Ownership'
  <2>1. UNCHANGED <<lock, owner, recursion_count, type, held>>
    BY <1>8 DEF LockCall, TryCall, LazyInit, Park, Destroy, Yield, Tick, mutexVars
  <2> QED
    BY <1>1, <2>1
<1>9. CASE UNCHANGED vars
  BY <1>1, <1>9 DEF vars, mutexVars
<1> QED
  BY <1>5, <1>6, <1>7, <1>8, <1>9 DEF Next, Step

(* Lock word, owner, recursion count and the program's account agree in    *)
(* every reachable state, for every set of threads.                        *)
THEOREM OwnershipHolds == Spec => []Ownership
<1>1. Init => Ownership
  BY DEF Init, Ownership
<1> QED
  BY <1>1, TypeCorrect, OwnershipStep, PTL DEF Spec

(* uthread_mutex_lock, trylock and unlock never let two threads into the   *)
(* critical section, whatever the type of the mutex, the way it was set up *)
(* and the places where SIGALRM strikes.                                   *)
THEOREM MutexSafe == Spec => []MutualExclusion
<1>1. TypeOK /\ Ownership => MutualExclusion
  BY DEF Ownership, MutualExclusion
<1> QED
  BY <1>1, TypeCorrect, OwnershipHolds, PTL

(* mutex.c implements the abstract lock.                                   *)
THEOREM Refinement == Spec => ImplementsLock
<1> USE DEF Contract!Init, Contract!Next, Contract!lockVars
<1>1. Init => Contract!Init
  BY DEF Init, Depth
<1>2. ASSUME TypeOK, Ownership, Ownership', [Next]_vars
      PROVE  [Contract!Next]_(Contract!lockVars)
  <2> USE <1>2
  <2>1. ASSUME UNCHANGED <<owner, held>> PROVE UNCHANGED Contract!lockVars
    BY <2>1 DEF Depth
  <2>2. ASSUME NEW t \in Thread, lock = 0, Acquire(t) PROVE Contract!Acquire(t)
    <3>1. owner = None /\ held[t] = 0
      BY <2>2 DEF Ownership, TypeOK
    <3> QED
      BY <2>2, <3>1 DEF Acquire, TypeOK, Depth, Contract!Acquire
  <2>3. ASSUME NEW t \in Thread, Nest(t) PROVE Contract!Nest(t)
    BY <2>3 DEF Nest, TypeOK, Depth, Contract!Nest
  <2>4. ASSUME NEW t \in Thread, LockBody(t) \/ TryBody(t) \/ Relock(t)
        PROVE  [Contract!Next]_(Contract!lockVars)
    <3>1. (Acquire(t) /\ lock = 0) \/ Nest(t) \/ UNCHANGED <<owner, held>>
      BY <2>4 DEF LockBody, TryBody, Relock, EnqueueSelf, Refuse, mutexVars
    <3> QED
      BY <2>1, <2>2, <2>3, <3>1
  <2>5. ASSUME NEW t \in Thread, Unlock(t) PROVE [Contract!Next]_(Contract!lockVars)
    <3>1. CASE UNCHANGED <<owner, held>>
      BY <2>1, <3>1
    <3>2. CASE Release(t) /\ owner = t /\ ~(type = "RECURSIVE" /\ recursion_count > 1)
      <4>1. Depth = 1 /\ owner' = None
        BY <3>2 DEF Release, Ownership, TypeOK, Depth
      <4> QED
        BY <3>2, <4>1 DEF Depth, Contract!Release
    <3>3. CASE /\ owner = t /\ type = "RECURSIVE" /\ recursion_count > 1
               /\ held' = [held EXCEPT ![t] = @ - 1] /\ UNCHANGED owner
      <4>1. Depth = recursion_count /\ Depth = held[t] /\ Depth' = Depth - 1
        BY <3>3 DEF Ownership, TypeOK, Depth
      <4> QED
        BY <3>3, <4>1 DEF Contract!Unnest
    <3>4. held[t] > 0 => owner = t
      BY DEF Ownership
    <3> QED
      BY <2>5, <3>1, <3>2, <3>3, <3>4 DEF Unlock, Refuse, mutexVars
  <2>6. ASSUME NEW t \in Thread, MutexInit(t) PROVE UNCHANGED <<owner, held>>
    BY <2>6 DEF MutexInit, Ownership, TypeOK
  <2>7. ASSUME NEW t \in Thread,
               \/ LockCall(t) \/ TryCall(t) \/ LazyInit(t) \/ Park(t) \/ Destroy(t)
               \/ Yield(t) \/ Tick(t)
        PROVE  UNCHANGED <<owner, held>>
    BY <2>7 DEF LockCall, TryCall, LazyInit, Park, Destroy, Yield, Tick, mutexVars
  <2>8. CASE UNCHANGED vars
    BY <2>1, <2>8 DEF vars, mutexVars
  <2> QED
    BY <2>1, <2>4, <2>5, <2>6, <2>7, <2>8 DEF Next, Step
<1> QED
  BY <1>1, <1>2, TypeCorrect, OwnershipHolds, PTL DEF Spec, ImplementsLock, Contract!Spec

-----------------------------------------------------------------------------
(* The wait queue of a mutex set up by uthread_mutex_init, when no tick    *)
(* falls between preemption_enable() and scheduler_schedule().             *)

(* A switch out of user code or of a retry: no queued thread is touched.   *)
LEMMA QueueSwitch ==
  ASSUME TypeOK, WaitQueueOK, NEW t \in Thread, pc[t] # "park",
         Yield(t) \/ Tick(t)
  PROVE  WaitQueueOK'
<1> DEFINE st == [state EXCEPT ![t] = "READY"]
           rdy == ready \cup {t}
<1>1. /\ UNCHANGED <<lock, owner, recursion_count, type, waiters, has_queue,
                     initialized, pc, held>>
      /\ current = t
  BY DEF Yield, Tick, mutexVars, uthread_yield, scheduler_tick
<1>2. \/ scheduler_schedule(st, rdy)
      \/ scheduler_schedule(state, ready) /\ state[t] # "RUNNING" /\ pc[t] = "user"
  BY DEF Yield, Tick, At, uthread_yield, scheduler_tick
<1>3. /\ st \in [Thread -> ThreadState] /\ state \in [Thread -> ThreadState]
      /\ rdy \in SUBSET Thread /\ ready \in SUBSET Thread
  BY DEF TypeOK, SchedTypeOK, ThreadState
<1>4. t \notin Members(waiters) /\ state[t] # "BLOCKED"
  BY <1>1 DEF WaitQueueOK
<1>5. \A u \in ready : state[u] = "READY"
  BY DEF WaitQueueOK
<1>6. /\ current' \in rdy \cup {Idle} /\ ready' \subseteq rdy /\ current' \notin ready'
      /\ pc[t] # "user" => rdy \subseteq ready' \cup {current'}
      /\ ready \subseteq ready' \cup {current'}
      /\ \A u \in Thread \ {t} : u # current' => state'[u] = state[u]
      /\ \A u \in ready' : state'[u] = "READY"
      /\ \A u \in Thread : u = current' \/ u = t => state'[u] # "BLOCKED"
  <2>1. CASE scheduler_schedule(st, rdy)
    <3>1. \A u \in rdy : st[u] = "READY"
      BY <1>3, <1>5
    <3>2. \A u \in Thread \ {t} : st[u] = state[u]
      BY <1>3
    <3> HIDE DEF st, rdy
    <3>3. /\ current' \in rdy \cup {Idle} /\ ready' = rdy \ {current'}
          /\ \A u \in Thread :
               /\ u = current' => state'[u] \in {"RUNNING", st[u]}
               /\ u # current' /\ state'[u] # st[u] => st[u] = "RUNNING" /\ u = current
      BY <1>3, <2>1, ScheduleFacts
    <3>4. ready \subseteq rdy /\ t \in rdy
      BY DEF rdy
    <3> QED
      BY <1>1, <1>3, <3>1, <3>2, <3>3, <3>4
  <2>2. CASE scheduler_schedule(state, ready) /\ state[t] # "RUNNING" /\ pc[t] = "user"
    <3>3. /\ current' \in ready \cup {Idle} /\ ready' = ready \ {current'}
          /\ \A u \in Thread :
               /\ u = current' => state'[u] \in {"RUNNING", state[u]}
               /\ u # current' /\ state'[u] # state[u] => state[u] = "RUNNING" /\ u = current
      BY <1>3, <2>2, ScheduleFacts
    <3> QED
      BY <1>1, <1>3, <1>4, <1>5, <2>2, <3>3
  <2> QED
    BY <1>2, <2>1, <2>2
<1> HIDE DEF st, rdy
<1>7. rdy = ready \cup {t}
  BY DEF rdy
<1>8. \A u \in Members(waiters) : u \in Thread /\ u \notin rdy
  BY <1>4, <1>7, EmptyFacts DEF WaitQueueOK, TypeOK
<1>9. \A u \in Members(waiters) : state'[u] = state[u] /\ u # current' /\ u \notin ready'
  BY <1>4, <1>6, <1>8, IdleAssumption
<1>10. Retrying # {} => Retrying' # {}
  <2> SUFFICES ASSUME NEW u \in Retrying PROVE u \in Retrying'
    OBVIOUS
  <2>1. u \in Thread /\ pc[u] = "relock" /\ u \in ready \cup {current}
    BY DEF Retrying
  <2>2. u \in ready' \cup {current'}
    BY <1>1, <1>6, <1>7, <2>1
  <2> QED
    BY <1>1, <2>1, <2>2 DEF Retrying
<1>11. \A u \in Thread : pc[u] = "park" => u = t
  BY <1>1 DEF WaitQueueOK
<1>12. \A u \in Thread : state'[u] = "BLOCKED" => u # current' /\ state[u] = "BLOCKED"
  BY <1>1, <1>6
<1> QED
  BY <1>1, <1>6, <1>9, <1>10, <1>11, <1>12 DEF WaitQueueOK, Waiting

(* The blocked thread leaves the CPU: it stays queued and is not current.  *)
LEMMA QueuePark ==
  ASSUME TypeOK, WaitQueueOK, NEW t \in Thread, Park(t)
  PROVE  WaitQueueOK'
<1>1. /\ current = t /\ pc[t] = "park" /\ lock = 1
      /\ pc' = [pc EXCEPT ![t] = "relock"]
      /\ UNCHANGED <<lock, waiters, has_queue, initialized>>
  BY DEF Park, At, Goto, mutexVars, WaitQueueOK
<1>2. /\ state \in [Thread -> ThreadState] /\ ready \in SUBSET Thread
      /\ pc \in [Thread -> PC] /\ scheduler_schedule(state, ready)
  BY DEF TypeOK, SchedTypeOK, Park
<1>3. /\ current' \in ready \cup {Idle} /\ ready' = ready \ {current'}
      /\ \A u \in Thread :
           /\ u = current' => state'[u] \in {"RUNNING", state[u]}
           /\ u # current' => state'[u] \in {state[u], "READY"}
           /\ u # current' /\ state'[u] # state[u] => state[u] = "RUNNING" /\ u = current
  BY <1>2, ScheduleFacts
<1>4. /\ t \notin ready /\ t # current'
      /\ \A u \in ready : state[u] = "READY"
  BY <1>1, <1>3, IdleAssumption DEF WaitQueueOK
<1>5. \A u \in Members(waiters) :
        /\ u \in Thread /\ u \notin ready /\ u # current' /\ state'[u] = "BLOCKED"
        /\ pc'[u] = "relock"
  <2> TAKE u \in Members(waiters)
  <2>1. u \in Thread /\ u \notin ready /\ state[u] = "BLOCKED" /\ Waiting(u)
    BY EmptyFacts DEF TypeOK, WaitQueueOK
  <2>2. pc[u] = "park" => u = t
    BY <1>1, <2>1 DEF WaitQueueOK
  <2> QED
    BY <1>1, <1>2, <1>3, <1>4, <2>1, <2>2, IdleAssumption DEF Waiting
<1>6. \A u \in Thread : state'[u] = "BLOCKED" => state[u] = "BLOCKED" /\ u # current'
  BY <1>1, <1>3, <1>4
<1>7. \A u \in Thread : /\ pc'[u] # "park"
                        /\ pc'[u] \notin {"lock_alloc", "try_alloc"}
                        /\ pc'[u] = "relock" => Waiting(u)
  BY <1>1, <1>2 DEF WaitQueueOK, Waiting
<1>8. \A u \in ready' : state'[u] = "READY"
  BY <1>1, <1>2, <1>3, <1>4
<1> QED
  BY <1>1, <1>3, <1>5, <1>6, <1>7, <1>8 DEF WaitQueueOK, Waiting

(* A thread that finds the mutex taken joins the tail, once.               *)
LEMMA QueueEnqueue ==
  ASSUME TypeOK, WaitQueueOK, NEW t \in Thread, current = t, pc[t] # "park",
         lock # 0, EnqueueSelf(t)
  PROVE  WaitQueueOK'
<1>1. /\ pc' = [pc EXCEPT ![t] = "park"] /\ pc \in [Thread -> PC]
      /\ state' = [state EXCEPT ![t] = "BLOCKED"] /\ state \in [Thread -> ThreadState]
      /\ UNCHANGED <<current, ready, lock, has_queue, initialized>>
      /\ lock = 1
  BY DEF EnqueueSelf, Goto, TypeOK, SchedTypeOK
<1>2. /\ t \notin Members(waiters) /\ t \notin ready /\ Distinct(waiters)
      /\ Members(waiters) \subseteq Thread
  BY EmptyFacts DEF WaitQueueOK, TypeOK
<1>3. CASE has_queue
  <2>1. Members(waiters') = Members(waiters) \cup {t} /\ Distinct(waiters')
    BY <1>2, <1>3, AddFacts DEF EnqueueSelf, TypeOK
  <2>2. initialized
    BY <1>3 DEF WaitQueueOK
  <2> QED
    BY <1>1, <1>2, <2>1, <2>2 DEF WaitQueueOK, Waiting
<1>4. CASE ~has_queue
  <2>1. waiters' = waiters
    BY <1>4 DEF EnqueueSelf
  <2>2. ~initialized
    BY <1>4 DEF WaitQueueOK
  <2> QED
    BY <1>1, <1>2, <2>1, <2>2 DEF WaitQueueOK, Waiting
<1> QED
  BY <1>3, <1>4

(* Unlock hands the head of the queue to the scheduler.                    *)
LEMMA QueueRelease ==
  ASSUME TypeOK, WaitQueueOK, NEW t \in Thread, At(t, "user"), initialized, Release(t)
  PROVE  WaitQueueOK'
<1> DEFINE W == Woken(waiters)
<1>1. /\ current = t /\ pc[t] = "user"
      /\ lock' = 0 /\ waiters' = AfterWake(waiters)
      /\ state' = [u \in Thread |-> IF u \in W THEN "READY" ELSE state[u]]
      /\ ready' = ready \cup W
      /\ UNCHANGED <<current, has_queue, initialized, pc>>
  BY DEF At, Release, scheduler_unblock
<1>2. /\ W \subseteq Members(waiters) /\ Members(waiters) \subseteq Thread
      /\ waiters # <<>> => W # {}
      /\ Members(waiters') \subseteq Members(waiters)
      /\ Members(waiters) \subseteq Members(waiters') \cup W
      /\ Distinct(waiters') /\ Members(waiters') \cap W = {}
  BY <1>1, WakeFacts, EmptyFacts DEF TypeOK, WaitQueueOK
<1> HIDE DEF W
<1>3. \A u \in Members(waiters) :
        /\ u # t /\ pc[u] = "relock" /\ state[u] = "BLOCKED" /\ u \notin ready
  <2> TAKE u \in Members(waiters)
  <2>1. /\ u \in Thread /\ Waiting(u) /\ state[u] = "BLOCKED" /\ u \notin ready
        /\ u = current => pc[u] = "park"
    BY <1>2 DEF WaitQueueOK
  <2>2. pc[u] = "park" => u = current
    BY <2>1 DEF WaitQueueOK
  <2> QED
    BY <1>1, <2>1, <2>2 DEF Waiting
<1>4. waiters' # <<>> => Retrying' # {}
  <2>1. ASSUME waiters' # <<>> PROVE W # {}
    BY <1>1, <1>2, <2>1 DEF AfterWake
  <2>2. \A u \in W : u \in Retrying'
    BY <1>1, <1>2, <1>3 DEF Retrying
  <2> QED
    BY <2>1, <2>2
<1>5. \A u \in Thread : state'[u] = "BLOCKED" => state[u] = "BLOCKED" /\ u \notin W
  BY <1>1
<1>6. current' \notin ready' /\ \A u \in ready' : state'[u] = "READY"
  <2>1. ready \subseteq Thread /\ current \notin ready /\ \A u \in ready : state[u] = "READY"
    BY DEF WaitQueueOK, TypeOK, SchedTypeOK
  <2> QED
    BY <1>1, <1>2, <1>3, <2>1
<1>7. \A u \in Members(waiters') :
        Waiting(u)' /\ state'[u] = "BLOCKED" /\ u \notin ready' /\ u # current'
  BY <1>1, <1>2, <1>3 DEF Waiting
<1>8. \A u \in Thread :
       /\ pc'[u] \notin {"lock_alloc", "try_alloc"}
       /\ pc'[u] # "park"
       /\ u = current' => state'[u] # "BLOCKED"
       /\ Waiting(u)' /\ state'[u] = "BLOCKED" => u \in Members(waiters')
  <2> TAKE u \in Thread
  <2>1. /\ pc[u] \notin {"lock_alloc", "try_alloc"}
        /\ pc[u] = "park" => u = current
        /\ u = current /\ pc[u] # "park" => state[u] # "BLOCKED"
        /\ Waiting(u) /\ state[u] = "BLOCKED" => u \in Members(waiters)
    BY DEF WaitQueueOK
  <2> QED
    BY <1>1, <1>2, <1>5, <2>1 DEF Waiting
<1> QED
  BY <1>1, <1>2, <1>4, <1>6, <1>7, <1>8 DEF WaitQueueOK

(* Every other step leaves the queue and the scheduler alone.              *)
LEMMA QueueQuiet ==
  ASSUME TypeOK, WaitQueueOK, NEW t \in Thread, current = t, pc[t] # "park",
         NEW l \in {"user", "lock", "try"}, pc' = [pc EXCEPT ![t] = l],
         UNCHANGED <<current, state, ready, waiters, has_queue, initialized>>,
         lock' = 1 \/ (lock' = lock /\ pc[t] # "relock")
  PROVE  WaitQueueOK'
<1>1. \A u \in Thread : u # t => pc'[u] = pc[u]
  BY DEF TypeOK
<1>2. pc'[t] = l
  BY DEF TypeOK
<1>3. \A u \in Members(waiters) : u \in Thread /\ u # t
  BY EmptyFacts DEF TypeOK, WaitQueueOK
<1>4. lock' = 0 => lock = 0 /\ Retrying \subseteq Retrying'
  <2> SUFFICES ASSUME lock' = 0 PROVE lock = 0 /\ Retrying \subseteq Retrying'
    OBVIOUS
  <2>1. lock = 0 /\ pc[t] # "relock"
    OBVIOUS
  <2> QED
    BY <1>1, <2>1 DEF Retrying
<1>5. \A u \in Thread : pc[u] # "park"
  BY DEF WaitQueueOK
<1>6. lock = 1 => lock' = 1
  OBVIOUS
<1>7. \A u \in Thread : u # t => (Waiting(u)' <=> Waiting(u))
  BY <1>1 DEF Waiting
<1>8. ~Waiting(t)' /\ pc'[t] \notin {"park", "lock_alloc", "try_alloc"}
  BY <1>2 DEF Waiting
<1> QED
  BY <1>1, <1>3, <1>4, <1>5, <1>6, <1>7, <1>8 DEF WaitQueueOK

(* Who blocks is queued once and only there, and a free mutex with a queue *)
(* always has a woken thread on its way.                                   *)
THEOREM QueueCorrect ==
  ASSUME ParkTicks = FALSE
  PROVE  Spec => []QueueDiscipline
<1>1. Init => QueueDiscipline
  <2> SUFFICES ASSUME Init, mode = "init" PROVE WaitQueueOK
    BY DEF QueueDiscipline
  <2>1. has_queue = TRUE /\ initialized = TRUE
    BY DEF Init
  <2>2. /\ Members(waiters) = {} /\ Distinct(waiters) /\ waiters = <<>>
        /\ \A t \in Thread : pc[t] = "user"
    BY EmptyFacts, <<>> \in Seq(Thread) DEF Init
  <2>3. /\ current \notin ready /\ \A t \in ready : state[t] = "READY"
        /\ \A t \in Thread : state[t] # "BLOCKED"
    BY DEF Init, SchedInit
  <2> QED
    BY <2>1, <2>2, <2>3 DEF WaitQueueOK, Waiting
<1>2. TypeOK /\ QueueDiscipline /\ [Next]_vars => QueueDiscipline'
  <2> SUFFICES ASSUME TypeOK, mode = "init", WaitQueueOK, [Next]_vars
               PROVE  WaitQueueOK'
    BY ModeFixed DEF QueueDiscipline
  <2> USE DEF At, Goto, schedVars, mutexVars
  <2>1. ASSUME NEW t \in Thread, LockCall(t) \/ TryCall(t) PROVE WaitQueueOK'
    <3>1. initialized
      BY <2>1 DEF LockCall, TryCall, MayUse
    <3>2. PICK l \in {"lock", "try"} : pc' = [pc EXCEPT ![t] = l]
      BY <2>1, <3>1 DEF LockCall, TryCall
    <3> QED
      BY <2>1, <3>2, QueueQuiet DEF LockCall, TryCall
  <2>2. ASSUME NEW t \in Thread, LazyInit(t) PROVE FALSE
    BY <2>2 DEF LazyInit, WaitQueueOK
  <2>3. ASSUME NEW t \in Thread, current = t, pc[t] # "park",
               Acquire(t) \/ ((Nest(t) \/ Refuse(t)) /\ pc[t] # "relock")
        PROVE  WaitQueueOK'
    <3>1. /\ pc' = [pc EXCEPT ![t] = "user"]
          /\ UNCHANGED <<current, state, ready, waiters, has_queue, initialized>>
          /\ lock' = 1 \/ (lock' = lock /\ pc[t] # "relock")
      BY <2>3 DEF Acquire, Nest, Refuse
    <3> QED
      BY <2>3, <3>1, QueueQuiet
  <2>4. ASSUME NEW t \in Thread, LockBody(t) \/ TryBody(t) \/ Relock(t)
        PROVE  WaitQueueOK'
    <3>1. current = t /\ pc[t] # "park"
      BY <2>4 DEF LockBody, TryBody, Relock
    <3>2. \/ Acquire(t)
          \/ (Nest(t) \/ Refuse(t)) /\ pc[t] # "relock"
          \/ lock # 0 /\ EnqueueSelf(t)
      BY <2>4 DEF LockBody, TryBody, Relock
    <3>3. CASE lock # 0 /\ EnqueueSelf(t)
      BY <3>1, <3>3, QueueEnqueue
    <3>4. CASE Acquire(t) \/ ((Nest(t) \/ Refuse(t)) /\ pc[t] # "relock")
      BY <2>3, <3>1, <3>4
    <3> QED
      BY <3>2, <3>3, <3>4, Zenon
  <2>5. ASSUME NEW t \in Thread, Park(t) PROVE WaitQueueOK'
    BY <2>5, QueuePark
  <2>6. ASSUME NEW t \in Thread, Unlock(t) PROVE WaitQueueOK'
    <3>1. At(t, "user") /\ initialized
      BY <2>6 DEF Unlock
    <3>2. CASE Release(t)
      BY <3>1, <3>2, QueueRelease
    <3>3. CASE ~Release(t)
      <4>1. UNCHANGED <<current, state, ready, waiters, has_queue, initialized, pc, lock>>
        BY <2>6, <3>1, <3>3 DEF Unlock, Refuse, TypeOK
      <4>2. pc' = [pc EXCEPT ![t] = "user"]
        BY <3>1, <4>1 DEF TypeOK
      <4> QED
        BY <3>1, <4>1, <4>2, QueueQuiet
    <3> QED
      BY <3>2, <3>3
  <2>7. ASSUME NEW t \in Thread, Destroy(t) PROVE WaitQueueOK'
    <3>1. Members(waiters) = {}
      BY <2>7, EmptyFacts DEF Destroy, TypeOK
    <3>2. \A u \in Thread : Waiting(u) => state[u] # "BLOCKED"
      BY <2>7, <3>1 DEF Destroy, WaitQueueOK
    <3>3. /\ UNCHANGED <<current, state, ready, lock, waiters, pc>>
          /\ has_queue' = FALSE /\ initialized' = FALSE /\ waiters = <<>>
      BY <2>7 DEF Destroy
    <3> QED
      BY <3>1, <3>2, <3>3 DEF WaitQueueOK, Waiting
  <2>8. ASSUME NEW t \in Thread, MutexInit(t) PROVE WaitQueueOK'
    <3>1. /\ \A u \in Thread : pc'[u] = "user" /\ pc[u] = "user"
          /\ UNCHANGED <<current, state, ready>> /\ waiters' = <<>>
      BY <2>8 DEF MutexInit
    <3>2. has_queue' <=> initialized'
      <4>1. PICK ok \in BOOLEAN : has_queue' = ok /\ initialized' = ok
        BY <2>8 DEF MutexInit
      <4> QED
        BY <4>1, Zenon
    <3>3. Members(waiters') = {} /\ Distinct(waiters')
      BY <3>1, EmptyFacts DEF TypeOK
    <3> QED
      BY <3>1, <3>2, <3>3 DEF WaitQueueOK, Waiting
  <2>9. ASSUME NEW t \in Thread, Yield(t) \/ Tick(t) PROVE WaitQueueOK'
    BY <2>9, QueueSwitch DEF Yield, Tick
  <2>10. CASE UNCHANGED vars
    BY <2>10 DEF vars, WaitQueueOK, Waiting, Retrying
  <2> QED
    BY <2>1, <2>2, <2>4, <2>5, <2>6, <2>7, <2>8, <2>9, <2>10 DEF Next, Step
<1> QED
  BY <1>1, <1>2, TypeCorrect, PTL DEF Spec

(* unlock's single wake_one is enough: no thread sleeps on a free mutex    *)
(* unless another has been woken to take it.                               *)
THEOREM WakeupNotLost ==
  ASSUME ParkTicks = FALSE
  PROVE  Spec => []NoLostWakeup
<1>1. TypeOK /\ QueueDiscipline => NoLostWakeup
  BY EmptyFacts DEF QueueDiscipline, WaitQueueOK, NoLostWakeup, Blocked, Waiting, TypeOK
<1> QED
  BY <1>1, TypeCorrect, QueueCorrect, PTL

-----------------------------------------------------------------------------
(* The queues of the condition.  One lemma for each kind of step.                           *)

(* The invariant, unfolded once for the steps below.                       *)
LEMMA QueueFacts ==
  ASSUME CondQueuesOK
  PROVE  /\ SchedTypeOK /\ RunStructureOK
         /\ current \in Thread \cup {Idle} /\ ready \subseteq Thread
         /\ state \in [Thread -> ThreadState] /\ pc \in [Thread -> CondPC]
         /\ current \notin ready /\ \A t \in ready : state[t] = "READY"
         /\ waiters \in Seq(Thread) /\ Members(waiters) \subseteq Thread
         /\ \A t \in Members(waiters) : Waiting(t) /\ state[t] = "BLOCKED"
         /\ cond_waiters \in Seq(Thread) /\ Members(cond_waiters) \subseteq Thread
         /\ \A t \in Members(cond_waiters) : InCond(t) /\ state[t] = "BLOCKED"
         /\ Distinct(waiters) /\ Distinct(cond_waiters)
         /\ \A t \in Thread : Parking(t) => t = current /\ state[t] = "BLOCKED"
         /\ current \in Members(waiters) \cup Members(cond_waiters) => Parking(current)
  BY EmptyFacts DEF CondQueuesOK, SchedTypeOK, RunStructureOK, SleepersSignallable, SleepersQueued

(* t moves on without giving up the CPU or going to sleep.                 *)
LEMMA QueuesQuiet ==
  ASSUME CondQueuesOK, NEW t \in Thread, current = t, pc[t] # "park",
         UNCHANGED <<current, state, ready>>,
         NEW l \in CondPC \ {"park", "relock", "cond_park", "cond_check", "cond_sleep"},
         pc' = [pc EXCEPT ![t] = l],
         lock' \in {0, 1}, waiters' = waiters \/ waiters' = <<>>,
         lock' = 1 \/ waiters' = <<>> \/ (lock' = lock /\ pc[t] # "relock"),
         cond_waiters' \in Seq(Thread), Distinct(cond_waiters'),
         Members(cond_waiters') \subseteq Members(cond_waiters) \ {t},
         cond_mode' = "init" =>
           /\ cond_has_queue' /\ cond_initialized' /\ l \notin {"cond_alloc", "cond_enter"}
           /\ \A u \in Thread : u # t => pc[u] \notin {"cond_alloc", "cond_enter"}
           /\ \A u \in Thread : u # t /\ InCond(u) /\ state[u] = "BLOCKED"
                                  => u \in Members(cond_waiters')
  PROVE  CondQueuesOK'
<1>1. /\ pc' \in [Thread -> CondPC]
      /\ pc'[t] = l /\ \A u \in Thread : u # t => pc'[u] = pc[u]
  BY QueueFacts
<1>2. /\ waiters' \in Seq(Thread) /\ Distinct(waiters')
      /\ Members(waiters') \subseteq Members(waiters) /\ t \notin Members(waiters)
  <2>1. t \notin Members(waiters)
    BY QueueFacts DEF Waiting, Parking
  <2>2. <<>> \in Seq(Thread) /\ Distinct(<<>>) /\ Members(<<>>) = {}
    BY EmptyFacts
  <2>3. CASE waiters' = waiters
    BY <2>1, <2>3, QueueFacts
  <2>4. CASE waiters' = <<>>
    BY <2>1, <2>2, <2>4
  <2> QED
    BY <2>3, <2>4
<1>3. \A u \in Thread : ~Parking(u)'
  BY <1>1, QueueFacts DEF Parking
<1>4. \A u \in Thread : u # t => (Waiting(u)' <=> Waiting(u)) /\ (InCond(u)' <=> InCond(u))
  BY <1>1 DEF Waiting, InCond
<1>5. ~Waiting(t)' /\ ~InCond(t)'
  BY <1>1 DEF Waiting, InCond
<1>6. SleepersSignallable'
  <2>1. \A u \in Members(cond_waiters') : InCond(u)' /\ state'[u] = "BLOCKED"
    BY <1>4, QueueFacts
  <2>2. Members(cond_waiters') \cap (ready' \cup Members(waiters')) = {}
    BY <1>2 DEF CondQueuesOK, SleepersSignallable, SleepersQueued
  <2>3. cond_mode' = "init" =>
          \A u \in Thread : InCond(u)' /\ state'[u] = "BLOCKED" => u \in Members(cond_waiters')
    BY <1>4, <1>5
  <2> QED
    BY <2>1, <2>2, <2>3 DEF SleepersSignallable, SleepersQueued
<1>7. MutexQueueServed'
  <2> SUFFICES ASSUME lock' = 0, waiters' # <<>> PROVE Retrying' # {}
    BY DEF MutexQueueServed
  <2>1. lock = 0 /\ waiters # <<>> /\ pc[t] # "relock"
    OBVIOUS
  <2>2. PICK u \in Retrying : TRUE
    BY <2>1 DEF CondQueuesOK, MutexQueueServed
  <2>3. u \in Retrying'
    BY <1>1, <2>1, <2>2 DEF Retrying
  <2> QED
    BY <2>3
<1>8. /\ SchedTypeOK' /\ RunStructureOK'
      /\ \A u \in Members(waiters') : Waiting(u)' /\ state'[u] = "BLOCKED"
  BY <1>2, <1>4, QueueFacts DEF SchedTypeOK, RunStructureOK
<1>9. current' \notin Members(waiters') \cup Members(cond_waiters')
  BY <1>2
<1>10. cond_mode' = "init" =>
         /\ cond_has_queue' /\ cond_initialized'
         /\ \A u \in Thread : pc'[u] \notin {"cond_alloc", "cond_enter"}
  BY <1>1
<1> QED
  BY <1>1, <1>2, <1>3, <1>6, <1>7, <1>8, <1>9, <1>10 DEF CondQueuesOK

(* A thread that finds the mutex taken joins its queue.                    *)
LEMMA QueuesEnqueue ==
  ASSUME CondQueuesOK, NEW t \in Thread, current = t, pc[t] # "park", lock # 0,
         EnqueueSelf(t),
         cond_waiters' \in Seq(Thread), Distinct(cond_waiters'),
         Members(cond_waiters') = Members(cond_waiters) \ {t},
         UNCHANGED <<cond_has_queue, cond_initialized, cond_mode>>
  PROVE  CondQueuesOK'
<1>1. /\ pc' \in [Thread -> CondPC]
      /\ pc'[t] = "park" /\ \A u \in Thread : u # t => pc'[u] = pc[u]
      /\ state' \in [Thread -> ThreadState]
      /\ state'[t] = "BLOCKED" /\ \A u \in Thread : u # t => state'[u] = state[u]
      /\ UNCHANGED <<current, ready, lock>>
  BY QueueFacts DEF EnqueueSelf, Goto, CondPC, PC, ThreadState
<1>2. t \notin Members(waiters)
  BY QueueFacts DEF Waiting, Parking
<1>3. /\ waiters' \in Seq(Thread) /\ Distinct(waiters')
      /\ Members(waiters') \subseteq Members(waiters) \cup {t}
  BY <1>2, AddFacts, QueueFacts DEF EnqueueSelf
<1>4. /\ \A u \in Thread : u # t => (Waiting(u)' <=> Waiting(u)) /\ (InCond(u)' <=> InCond(u))
      /\ Waiting(t)' /\ ~InCond(t)' /\ Parking(t)'
      /\ \A u \in Thread : u # t => ~Parking(u)'
  BY <1>1, QueueFacts DEF Waiting, InCond, Parking
<1>5. SleepersSignallable'
  <2>1. \A u \in Members(cond_waiters') : InCond(u)' /\ state'[u] = "BLOCKED"
    BY <1>1, <1>4, QueueFacts
  <2>2. Members(cond_waiters') \cap (ready' \cup Members(waiters')) = {}
    BY <1>1, <1>3 DEF CondQueuesOK, SleepersSignallable, SleepersQueued
  <2>3. cond_mode' = "init" =>
          \A u \in Thread : InCond(u)' /\ state'[u] = "BLOCKED" => u \in Members(cond_waiters')
    BY <1>1, <1>4 DEF CondQueuesOK, SleepersSignallable, SleepersQueued
  <2> QED
    BY <2>1, <2>2, <2>3 DEF SleepersSignallable, SleepersQueued
<1>6. MutexQueueServed' /\ lock' \in {0, 1}
  BY <1>1 DEF MutexQueueServed, CondQueuesOK
<1>7. /\ SchedTypeOK' /\ RunStructureOK'
      /\ \A u \in Members(waiters') : Waiting(u)' /\ state'[u] = "BLOCKED"
  BY <1>1, <1>3, <1>4, QueueFacts DEF SchedTypeOK, RunStructureOK
<1>8. cond_mode' = "init" =>
         /\ cond_has_queue' /\ cond_initialized'
         /\ \A u \in Thread : pc'[u] \notin {"cond_alloc", "cond_enter"}
  BY <1>1 DEF CondQueuesOK
<1> QED
  BY <1>1, <1>3, <1>4, <1>5, <1>6, <1>7, <1>8 DEF CondQueuesOK

(* The blocked thread leaves the CPU, from a lock call or from a wait.     *)
LEMMA QueuesPark ==
  ASSUME CondQueuesOK, NEW t \in Thread, current = t, scheduler_schedule(state, ready),
         \/ pc[t] = "park" /\ pc' = [pc EXCEPT ![t] = "relock"]
         \/ pc[t] \in {"cond_park", "cond_check"} /\ pc' = [pc EXCEPT ![t] = "cond_sleep"],
         UNCHANGED <<lock, waiters, condVars>>
  PROVE  CondQueuesOK'
<1>1. /\ pc' \in [Thread -> CondPC] /\ \A u \in Thread : u # t => pc'[u] = pc[u]
      /\ pc'[t] \in {"relock", "cond_sleep"} /\ state[t] = "BLOCKED"
      /\ Waiting(t)' <=> Waiting(t)
      /\ InCond(t)' <=> InCond(t)
      /\ UNCHANGED <<cond_waiters, cond_has_queue, cond_initialized, cond_mode>>
  BY QueueFacts DEF CondPC, PC, Parking, Waiting, InCond, condVars
<1>2. /\ SchedTypeOK' /\ RunStructureOK' /\ current' # t
      /\ \A u \in Thread : state'[u] = "BLOCKED" <=> state[u] = "BLOCKED"
      /\ \A u \in Thread : u \in ready' \cup {current'} <=> u \in ready
  BY <1>1, ParkFacts, QueueFacts
<1>3. \A u \in Thread : (Waiting(u)' <=> Waiting(u)) /\ (InCond(u)' <=> InCond(u)) /\ ~Parking(u)'
  BY <1>1, QueueFacts DEF Waiting, InCond, Parking
<1>4. \A u \in Members(waiters) \cup Members(cond_waiters) :
        u \in Thread /\ u \notin ready /\ state'[u] = "BLOCKED"
  BY <1>2, QueueFacts
<1>5. current' \notin Members(waiters) \cup Members(cond_waiters) /\ current' \in ready \cup {Idle}
  BY <1>2, <1>4, IdleAssumption DEF SchedTypeOK
<1>6. SleepersSignallable'
  <2>1. Members(cond_waiters) \cap (ready' \cup Members(waiters)) = {}
    BY <1>2, <1>4 DEF CondQueuesOK, SleepersSignallable, SleepersQueued
  <2> QED
    BY <1>1, <1>2, <1>3, <1>4, <2>1, QueueFacts DEF CondQueuesOK, SleepersSignallable, SleepersQueued
<1>7. MutexQueueServed'
  <2>1. \A u \in Retrying : u \in Retrying'
    BY <1>1, <1>2 DEF Retrying
  <2> QED
    BY <2>1 DEF CondQueuesOK, MutexQueueServed
<1>8. cond_mode' = "init" =>
         /\ cond_has_queue' /\ cond_initialized'
         /\ \A u \in Thread : pc'[u] \notin {"cond_alloc", "cond_enter"}
  BY <1>1 DEF CondQueuesOK
<1> QED
  BY <1>1, <1>2, <1>3, <1>4, <1>5, <1>6, <1>7, <1>8, QueueFacts DEF CondQueuesOK

(* Yield and tick.                                                         *)
LEMMA QueuesSwitch ==
  ASSUME CondQueuesOK, NEW t \in Thread, ~Parking(t),
         (uthread_yield(t) /\ pc[t] = "user") \/ scheduler_tick(t),
         UNCHANGED <<lock, waiters, pc, condVars>>
  PROVE  CondQueuesOK'
<1>1. uthread_yield(t) \/ scheduler_tick(t)
  OBVIOUS
<1>2. /\ current = t /\ SchedTypeOK' /\ RunStructureOK'
      /\ \A u \in Thread : state'[u] = "BLOCKED" => state[u] = "BLOCKED"
      /\ \A u \in Thread : u # t /\ state[u] = "BLOCKED" => state'[u] = "BLOCKED"
      /\ \A u \in Thread : u \in ready' \cup {current'} => u \in ready \cup {current}
      /\ \A u \in ready : u \in ready' \cup {current'}
      /\ scheduler_tick(t) => t \in ready' \cup {current'}
  BY <1>1, SwitchFacts, QueueFacts
<1>3. t \notin Members(waiters) \cup Members(cond_waiters)
  BY <1>2, QueueFacts
<1>4. \A u \in Members(waiters) \cup Members(cond_waiters) :
        u \in Thread /\ u \notin ready' \cup {current'} /\ state'[u] = "BLOCKED"
  BY <1>2, <1>3, QueueFacts
<1>5. \A u \in Thread : ~Parking(u) /\ ~Parking(u)'
  BY <1>2, QueueFacts DEF Parking
<1>6. UNCHANGED <<cond_waiters, cond_has_queue, cond_initialized, cond_mode>>
  BY DEF condVars
<1>7. SleepersSignallable'
  BY <1>2, <1>4, <1>6, QueueFacts DEF CondQueuesOK, SleepersSignallable, SleepersQueued, InCond
<1>8. MutexQueueServed'
  <2>1. \A u \in Retrying : u \in Retrying'
    BY <1>2 DEF Retrying
  <2> QED
    BY <2>1 DEF CondQueuesOK, MutexQueueServed
<1> QED
  BY <1>2, <1>4, <1>5, <1>6, <1>7, <1>8, QueueFacts DEF CondQueuesOK, Waiting

(* scheduler_unblock of threads that sleep in one of the queues.           *)
LEMMA QueuesUnblock ==
  ASSUME CondQueuesOK, NEW t \in Thread, current = t, ~Parking(t), pc[t] # "relock",
         NEW T \in SUBSET (Members(waiters) \cup Members(cond_waiters)),
         scheduler_unblock(T),
         pc' = [pc EXCEPT ![t] = "user"],
         lock' \in {0, 1},
         waiters' \in Seq(Thread), Distinct(waiters'),
         Members(waiters') = Members(waiters) \ T,
         lock' = 0 /\ waiters' # <<>> => \/ lock = 0 /\ waiters # <<>>
                                         \/ \E u \in T : u \in Members(waiters),
         cond_waiters' \in Seq(Thread), Distinct(cond_waiters'),
         Members(cond_waiters') = Members(cond_waiters) \ T,
         UNCHANGED <<cond_has_queue, cond_initialized, cond_mode>>
  PROVE  CondQueuesOK'
<1>1. /\ pc' \in [Thread -> CondPC] /\ pc'[t] = "user"
      /\ \A u \in Thread : u # t => pc'[u] = pc[u]
  BY QueueFacts DEF CondPC, PC
<1>2. current \notin T /\ T \in SUBSET Thread
  BY QueueFacts
<1>3. /\ SchedTypeOK' /\ RunStructureOK' /\ current' = current /\ ready' = ready \cup T
      /\ \A u \in Thread : state'[u] = "BLOCKED" <=> state[u] = "BLOCKED" /\ u \notin T
  BY <1>2, UnblockFacts, QueueFacts
<1>4. /\ \A u \in Thread : u # t => (Waiting(u)' <=> Waiting(u)) /\ (InCond(u)' <=> InCond(u))
      /\ ~InCond(t)' /\ t \notin Members(waiters) \cup Members(cond_waiters)
      /\ \A u \in Thread : ~Parking(u)'
  BY <1>1, QueueFacts DEF Waiting, InCond, Parking
<1>5. SleepersSignallable'
  <2>1. \A u \in Members(cond_waiters') : InCond(u)' /\ state'[u] = "BLOCKED"
    BY <1>3, <1>4, QueueFacts
  <2>2. Members(cond_waiters') \cap (ready' \cup Members(waiters')) = {}
    BY <1>3 DEF CondQueuesOK, SleepersSignallable, SleepersQueued
  <2>3. cond_mode' = "init" =>
          \A u \in Thread : InCond(u)' /\ state'[u] = "BLOCKED" => u \in Members(cond_waiters')
    BY <1>3, <1>4 DEF CondQueuesOK, SleepersSignallable, SleepersQueued
  <2> QED
    BY <2>1, <2>2, <2>3 DEF SleepersSignallable, SleepersQueued
<1>6. MutexQueueServed'
  <2> SUFFICES ASSUME lock' = 0, waiters' # <<>> PROVE Retrying' # {}
    BY DEF MutexQueueServed
  <2>1. CASE lock = 0 /\ waiters # <<>>
    <3>1. PICK u \in Retrying : TRUE
      BY <2>1 DEF CondQueuesOK, MutexQueueServed
    <3>2. u \in Retrying'
      BY <1>1, <1>3, <3>1 DEF Retrying
    <3> QED
      BY <3>2
  <2>2. CASE \E u \in T : u \in Members(waiters)
    <3>1. PICK u \in T : u \in Members(waiters)
      BY <2>2
    <3>2. u \in Thread /\ u # t /\ pc[u] = "relock"
      BY <1>2, <3>1, QueueFacts DEF Waiting, Parking
    <3>3. u \in Retrying'
      BY <1>1, <1>3, <3>1, <3>2 DEF Retrying
    <3> QED
      BY <3>3
  <2> QED
    BY <2>1, <2>2
<1>7. \A u \in Members(waiters') : Waiting(u)' /\ state'[u] = "BLOCKED"
  BY <1>3, <1>4, QueueFacts
<1>8. cond_mode' = "init" =>
         /\ cond_has_queue' /\ cond_initialized'
         /\ \A u \in Thread : pc'[u] \notin {"cond_alloc", "cond_enter"}
  BY <1>1 DEF CondQueuesOK
<1> QED
  BY <1>1, <1>3, <1>4, <1>5, <1>6, <1>7, <1>8 DEF CondQueuesOK

(* A thread enters a wait, or comes out of one without a queue.            *)
LEMMA QueuesWait ==
  ASSUME CondQueuesOK, NEW t \in Thread, current = t, ~Parking(t), BlockAndWake(t),
         NEW l \in {"user", "cond_park", "cond_check"}, pc' = [pc EXCEPT ![t] = l],
         lock' \in {0, 1},
         cond_waiters' = IF l # "user" /\ cond_has_queue
                           THEN wait_queue_add(cond_waiters, t) ELSE cond_waiters,
         UNCHANGED <<cond_has_queue, cond_initialized, cond_mode>>
  PROVE  CondQueuesOK'
<1> DEFINE W == Woken(waiters)
<1>1. /\ pc' \in [Thread -> CondPC] /\ pc'[t] = l
      /\ \A u \in Thread : u # t => pc'[u] = pc[u]
  BY QueueFacts DEF CondPC, PC
<1>2. /\ t \notin Members(waiters) \cup Members(cond_waiters)
      /\ \A u \in Thread : ~Parking(u)
  BY QueueFacts
<1>3. /\ W \subseteq Members(waiters) /\ t \notin W /\ W \subseteq Thread
      /\ waiters # <<>> => W # {}
      /\ waiters' \in Seq(Thread) /\ Distinct(waiters')
      /\ Members(waiters') \subseteq Members(waiters) \ W
  BY <1>2, WakeFacts, QueueFacts DEF BlockAndWake
<1> HIDE DEF W
<1>4. /\ current' = t /\ ready' = ready \cup W
      /\ state' \in [Thread -> ThreadState] /\ state'[t] = "BLOCKED"
      /\ \A u \in W : state'[u] = "READY"
      /\ \A u \in Thread : u # t /\ u \notin W => state'[u] = state[u]
  <2>1. /\ current' = t /\ ready' = ready \cup W
        /\ state' = [u \in Thread |-> IF u = t THEN "BLOCKED"
                                      ELSE IF u \in W THEN "READY" ELSE state[u]]
    BY DEF BlockAndWake, W
  <2> QED
    BY <1>3, <2>1, QueueFacts DEF ThreadState
<1>5. SchedTypeOK' /\ RunStructureOK'
  BY <1>3, <1>4, QueueFacts DEF SchedTypeOK, RunStructureOK
<1>6. /\ cond_waiters' \in Seq(Thread) /\ Distinct(cond_waiters')
      /\ Members(cond_waiters') = Members(cond_waiters)
                                    \cup (IF l # "user" /\ cond_has_queue THEN {t} ELSE {})
  BY <1>2, AddFacts, QueueFacts
<1>7. /\ \A u \in Thread : u # t => /\ Waiting(u)' <=> Waiting(u)
                                    /\ InCond(u)' <=> InCond(u)
                                    /\ ~Parking(u)'
      /\ l # "user" => InCond(t)' /\ Parking(t)'
      /\ l = "user" => ~InCond(t)' /\ ~Parking(t)'
  BY <1>1, <1>2 DEF Waiting, InCond, Parking
<1>8. \A u \in Members(waiters) : u \in Thread /\ u \notin Members(cond_waiters)
  BY QueueFacts DEF CondQueuesOK, SleepersSignallable, SleepersQueued
<1>9. SleepersSignallable'
  <2>1. \A u \in Members(cond_waiters') : InCond(u)' /\ state'[u] = "BLOCKED"
    BY <1>2, <1>3, <1>4, <1>6, <1>7, <1>8, QueueFacts
  <2>2. Members(cond_waiters') \cap (ready' \cup Members(waiters')) = {}
    BY <1>2, <1>3, <1>4, <1>6, <1>8, QueueFacts DEF CondQueuesOK, SleepersSignallable, SleepersQueued
  <2>3. cond_mode' = "init" =>
          \A u \in Thread : InCond(u)' /\ state'[u] = "BLOCKED" => u \in Members(cond_waiters')
    BY <1>3, <1>4, <1>6, <1>7 DEF CondQueuesOK, SleepersSignallable, SleepersQueued
  <2> QED
    BY <1>6, <2>1, <2>2, <2>3 DEF SleepersSignallable, SleepersQueued
<1>10. MutexQueueServed'
  <2> SUFFICES ASSUME waiters' # <<>> PROVE Retrying' # {}
    BY DEF MutexQueueServed
  <2>1. waiters # <<>>
    BY DEF BlockAndWake, AfterWake
  <2>2. PICK u \in W : TRUE
    BY <1>3, <2>1
  <2>3. u \in Thread /\ u # t /\ pc[u] = "relock"
    BY <1>2, <1>3, QueueFacts DEF Waiting, Parking
  <2>4. u \in Retrying'
    BY <1>1, <1>4, <2>3 DEF Retrying
  <2> QED
    BY <2>4
<1>11. \A u \in Members(waiters') : Waiting(u)' /\ state'[u] = "BLOCKED"
  BY <1>2, <1>3, <1>4, <1>7, <1>8, QueueFacts
<1>12. \A u \in Thread : Parking(u)' => u = current' /\ state'[u] = "BLOCKED"
  BY <1>4, <1>7
<1>13. current' \in Members(waiters') \cup Members(cond_waiters') => Parking(current)'
  BY <1>2, <1>3, <1>4, <1>6, <1>7
<1>14. cond_mode' = "init" =>
         /\ cond_has_queue' /\ cond_initialized'
         /\ \A u \in Thread : pc'[u] \notin {"cond_alloc", "cond_enter"}
  BY <1>1 DEF CondQueuesOK
<1> QED
  BY <1>1, <1>3, <1>5, <1>6, <1>9, <1>10, <1>11, <1>12, <1>13, <1>14 DEF CondQueuesOK

(* A step of the mutex by a thread that is not inside a condition wait, or *)
(* that has come back from its scheduler_schedule().                       *)
LEMMA QueuesMutexStep ==
  ASSUME ParkTicks = FALSE, CondQueuesOK, NEW t \in Thread, MutexStep(t)
  PROVE  CondQueuesOK'
<1>1. /\ UNCHANGED <<cond_waiters, cond_has_queue, cond_initialized, cond_mode>>
      /\ Step(t)
      /\ pc[t] \notin {"cond_park", "cond_check"}
  BY DEF MutexStep, condVars, InCond
<1>2. /\ cond_waiters' \in Seq(Thread) /\ Distinct(cond_waiters')
      /\ Members(cond_waiters') = Members(cond_waiters)
      /\ cond_mode' = "init" =>
           /\ cond_has_queue' /\ cond_initialized'
           /\ \A u \in Thread : u # t => pc[u] \notin {"cond_alloc", "cond_enter"}
           /\ \A u \in Thread : u # t /\ InCond(u) /\ state[u] = "BLOCKED"
                                  => u \in Members(cond_waiters')
  BY <1>1, QueueFacts DEF CondQueuesOK, SleepersSignallable, SleepersQueued
<1>3. lock \in {0, 1}
  BY DEF CondQueuesOK
<1>4. ASSUME current = t, pc[t] # "park"
      PROVE  ~Parking(t) /\ Members(cond_waiters') = Members(cond_waiters) \ {t}
  BY <1>1, <1>2, <1>4, QueueFacts DEF Parking
<1>5. ASSUME NEW l \in PC \ {"park", "relock"}, current = t, pc[t] # "park",
             pc' = [pc EXCEPT ![t] = l],
             UNCHANGED <<current, state, ready>>, lock' \in {0, 1},
             waiters' = waiters \/ waiters' = <<>>,
             lock' = 1 \/ waiters' = <<>> \/ (lock' = lock /\ pc[t] # "relock")
      PROVE  CondQueuesOK'
  <2>1. /\ l \in CondPC \ {"park", "relock", "cond_park", "cond_check", "cond_sleep"}
        /\ l \notin {"cond_alloc", "cond_enter"}
    BY DEF CondPC, PC
  <2> QED
    BY <1>2, <1>4, <1>5, <2>1, QueuesQuiet
<1>6. ASSUME current = t, pc[t] # "park", Acquire(t)
      PROVE  CondQueuesOK'
  <2>1. /\ UNCHANGED <<current, state, ready, waiters>> /\ lock' = 1
        /\ pc' = [pc EXCEPT ![t] = "user"]
    BY <1>6 DEF Acquire, Goto, schedVars
  <2> QED
    BY <1>5, <1>6, <2>1 DEF PC
<1>7. ASSUME current = t, pc[t] \notin {"park", "relock"}, Nest(t) \/ Refuse(t)
      PROVE  CondQueuesOK'
  <2>1. /\ UNCHANGED <<current, state, ready, waiters, lock>>
        /\ pc' = [pc EXCEPT ![t] = "user"]
    BY <1>7 DEF Nest, Refuse, Goto, schedVars, mutexVars
  <2> QED
    BY <1>3, <1>5, <1>7, <2>1 DEF PC
<1>8. ASSUME current = t, pc[t] # "park", lock # 0, EnqueueSelf(t)
      PROVE  CondQueuesOK'
  BY <1>1, <1>2, <1>4, <1>8, QueuesEnqueue
<1>9. CASE LockCall(t) \/ TryCall(t)
  <2>1. /\ UNCHANGED <<current, state, ready, waiters, lock>>
        /\ current = t /\ pc[t] = "user"
        /\ \E l \in {"lock", "lock_alloc", "try", "try_alloc"} : pc' = [pc EXCEPT ![t] = l]
    BY <1>9 DEF LockCall, TryCall, At, Goto, schedVars, mutexVars
  <2> QED
    BY <1>3, <1>5, <2>1 DEF PC
<1>10. CASE LazyInit(t)
  <2>1. /\ UNCHANGED <<current, state, ready, lock>> /\ waiters' = <<>>
        /\ current = t /\ pc[t] \in {"lock_alloc", "try_alloc"}
        /\ \E l \in {"lock", "try", "user"} : pc' = [pc EXCEPT ![t] = l]
    BY <1>10 DEF LazyInit, At, Goto, schedVars
  <2> QED
    BY <1>3, <1>5, <2>1 DEF PC
<1>11. CASE LockBody(t)
  BY <1>6, <1>7, <1>8, <1>11 DEF LockBody, At
<1>12. CASE TryBody(t)
  BY <1>6, <1>7, <1>12 DEF TryBody, At
<1>13. CASE Park(t)
  <2>1. UNCHANGED <<lock, waiters, condVars>>
    BY <1>1, <1>13 DEF Park, mutexVars, condVars
  <2> QED
    BY <1>13, <2>1, QueuesPark DEF Park, At, Goto
<1>14. CASE Relock(t)
  BY <1>6, <1>8, <1>14 DEF Relock, At
<1>15. CASE Unlock(t)
  <2>1. current = t /\ pc[t] = "user" /\ ~Parking(t)
    BY <1>15 DEF Unlock, At, Parking
  <2>2. pc = [pc EXCEPT ![t] = "user"]
    BY <2>1, QueueFacts
  <2>3. ASSUME UNCHANGED <<current, state, ready, waiters, lock>>,
               pc' = [pc EXCEPT ![t] = "user"]
        PROVE  CondQueuesOK'
    BY <1>3, <1>5, <2>1, <2>3 DEF PC
  <2>4. CASE Refuse(t)
    BY <1>7, <2>1, <2>4
  <2>5. ASSUME Release(t) PROVE CondQueuesOK'
    <3>1. /\ scheduler_unblock(Woken(waiters)) /\ waiters' = AfterWake(waiters)
          /\ pc' = pc /\ lock' = 0
      BY <2>5 DEF Release
    <3>2. PICK T : T = Woken(waiters)
      OBVIOUS
    <3>3. /\ T \subseteq Members(waiters) /\ (waiters # <<>> => T # {})
          /\ waiters' \in Seq(Thread) /\ Distinct(waiters')
          /\ Members(waiters') = Members(waiters) \ T
      BY <3>1, <3>2, WakeFacts, QueueFacts
    <3>4. Members(cond_waiters') = Members(cond_waiters) \ T
      BY <1>1, <3>3 DEF CondQueuesOK, SleepersSignallable, SleepersQueued
    <3>5. waiters' # <<>> => \E u \in T : u \in Members(waiters)
      BY <3>1, <3>3 DEF AfterWake
    <3> QED
      BY <1>1, <1>2, <2>1, <2>2, <3>1, <3>2, <3>3, <3>4, <3>5, QueuesUnblock
  <2> QED
    BY <1>15, <2>2, <2>3, <2>4, <2>5 DEF Unlock, schedVars
<1>16. CASE Destroy(t) \/ MutexInit(t)
  <2>1. /\ UNCHANGED <<current, state, ready, pc>> /\ waiters' = <<>> /\ lock' \in {0, 1}
        /\ current = t /\ pc[t] = "user"
    BY <1>3, <1>16 DEF Destroy, MutexInit, At, schedVars
  <2>2. pc' = [pc EXCEPT ![t] = "user"]
    BY <2>1, QueueFacts
  <2> QED
    BY <1>5, <2>1, <2>2 DEF PC
<1>17. CASE Yield(t) \/ Tick(t)
  <2>1. /\ UNCHANGED <<lock, waiters, pc, condVars>> /\ ~Parking(t)
        /\ (uthread_yield(t) /\ pc[t] = "user") \/ scheduler_tick(t)
    BY <1>1, <1>17 DEF Yield, Tick, At, Parking, mutexVars, condVars
  <2> QED
    BY <2>1, QueuesSwitch
<1> QED
  BY <1>1, <1>9, <1>10, <1>11, <1>12, <1>13, <1>14, <1>15, <1>16, <1>17 DEF Step

(* A thread in a condition wait takes the mutex back, or joins its queue.  *)
LEMMA QueuesReacquire ==
  ASSUME CondQueuesOK, NEW t \in Thread, current = t,
         pc[t] \in {"cond_check", "cond_sleep"}, Reacquire(t),
         cond_waiters' \in Seq(Thread), Distinct(cond_waiters'),
         Members(cond_waiters') = Members(cond_waiters) \ {t},
         UNCHANGED <<cond_has_queue, cond_initialized, cond_mode>>
  PROVE  CondQueuesOK'
<1>1. cond_mode' = "init" =>
        /\ cond_has_queue' /\ cond_initialized'
        /\ \A u \in Thread : u # t => pc[u] \notin {"cond_alloc", "cond_enter"}
        /\ \A u \in Thread : u # t /\ InCond(u) /\ state[u] = "BLOCKED"
                               => u \in Members(cond_waiters')
  BY DEF CondQueuesOK, SleepersSignallable, SleepersQueued
<1>2. CASE lock = 0
  <2>1. /\ UNCHANGED <<current, state, ready, waiters>> /\ lock' = 1
        /\ pc' = [pc EXCEPT ![t] = "user"]
    BY <1>2 DEF Reacquire, Acquire, Goto, schedVars
  <2>2. "user" \in CondPC \ {"park", "relock", "cond_park", "cond_check", "cond_sleep"}
    BY DEF CondPC, PC
  <2> QED
    BY <1>1, <2>1, <2>2, QueuesQuiet
<1>3. CASE lock # 0
  <2>1. EnqueueSelf(t)
    BY <1>3 DEF Reacquire
  <2> QED
    BY <1>3, <2>1, QueuesEnqueue
<1> QED
  BY <1>2, <1>3

(* A wake-up by uthread_cond_signal or uthread_cond_broadcast: the threads *)
(* of T, all sleeping in the condition, become ready.                      *)
LEMMA QueuesWake ==
  ASSUME CondQueuesOK, NEW t \in Thread, InCall(t), Goto(t, "user"),
         NEW T \in SUBSET Members(cond_waiters), scheduler_unblock(T),
         cond_waiters' \in Seq(Thread), Distinct(cond_waiters'),
         Members(cond_waiters') = Members(cond_waiters) \ T,
         UNCHANGED <<mutexVars, cond_has_queue, cond_initialized, cond_mode>>
  PROVE  CondQueuesOK'
<1>1. /\ current = t /\ ~Parking(t) /\ pc[t] # "relock"
      /\ pc' = [pc EXCEPT ![t] = "user"]
      /\ UNCHANGED <<lock, waiters>> /\ lock' \in {0, 1}
  BY DEF InCall, At, Goto, Parking, mutexVars, CondQueuesOK
<1>2. /\ waiters' \in Seq(Thread) /\ Distinct(waiters')
      /\ Members(waiters') = Members(waiters) \ T
      /\ T \in SUBSET (Members(waiters) \cup Members(cond_waiters))
  BY <1>1, QueueFacts DEF CondQueuesOK, SleepersSignallable, SleepersQueued
<1> QED
  BY <1>1, <1>2, QueuesUnblock

(* Every other step of condvar.c.                                          *)
LEMMA QueuesCondStep ==
  ASSUME CondQueuesOK, NEW t \in Thread,
         \/ CondCall(t) \/ CondLazyInit(t) \/ CondWait(t) \/ TimedWaitUnqueued(t)
         \/ CondPark(t) \/ CondTimeout(t) \/ CondWoken(t)
         \/ CondSignal(t) \/ CondBroadcast(t) \/ CondDestroy(t) \/ CondInit(t)
  PROVE  CondQueuesOK'
<1>1. ASSUME current = t, ~Parking(t)
      PROVE  t \notin Members(waiters) \cup Members(cond_waiters)
  BY <1>1, QueueFacts
<1>2. <<>> \in Seq(Thread) /\ Distinct(<<>>) /\ Members(<<>>) = {} /\ lock \in {0, 1}
  BY EmptyFacts DEF CondQueuesOK
<1>3. ASSUME current = t, pc[t] \in {"user", "cond_alloc"},
             UNCHANGED <<current, state, ready, waiters, lock>>,
             NEW l \in {"user", "cond_alloc", "cond_enter"}, pc' = [pc EXCEPT ![t] = l],
             cond_waiters' = cond_waiters \/ cond_waiters' = <<>>,
             cond_mode' = "init" =>
               /\ cond_has_queue' /\ cond_initialized' /\ l = "user"
               /\ \A u \in Thread : pc[u] \notin {"cond_alloc", "cond_enter"} /\ ~InCond(u)
      PROVE  CondQueuesOK'
  <2>1. /\ cond_waiters' \in Seq(Thread) /\ Distinct(cond_waiters')
        /\ Members(cond_waiters') \subseteq Members(cond_waiters) \ {t}
    BY <1>1, <1>2, <1>3, QueueFacts DEF Parking
  <2>2. l \in CondPC \ {"park", "relock", "cond_park", "cond_check", "cond_sleep"}
    BY DEF CondPC, PC
  <2> QED
    BY <1>2, <1>3, <2>1, <2>2, QueuesQuiet
<1>4. CASE CondCall(t)
  <2>1. /\ UNCHANGED <<current, state, ready, waiters, lock, cond_waiters, cond_mode>>
        /\ current = t /\ pc[t] = "user" /\ pc' = [pc EXCEPT ![t] = "cond_alloc"]
        /\ ~cond_initialized
    BY <1>4 DEF CondCall, At, Goto, schedVars, mutexVars, condVars
  <2>2. cond_mode # "init"
    BY <2>1 DEF CondQueuesOK
  <2> QED
    BY <1>3, <2>1, <2>2
<1>5. CASE CondLazyInit(t)
  <2>1. /\ UNCHANGED <<current, state, ready, waiters, lock, cond_mode>>
        /\ current = t /\ pc[t] = "cond_alloc" /\ cond_waiters' = <<>>
        /\ \E l \in {"user", "cond_enter"} : pc' = [pc EXCEPT ![t] = l]
    BY <1>5 DEF CondLazyInit, At, Goto, schedVars, mutexVars
  <2>2. cond_mode # "init"
    BY <2>1 DEF CondQueuesOK
  <2> QED
    BY <1>3, <2>1, <2>2
<1>6. CASE CondWait(t)
  <2>1. /\ current = t /\ ~Parking(t) /\ BlockAndWake(t) /\ lock' \in {0, 1}
        /\ cond_waiters' = IF cond_has_queue THEN wait_queue_add(cond_waiters, t)
                           ELSE cond_waiters
        /\ \E l \in {"cond_park", "cond_check"} : pc' = [pc EXCEPT ![t] = l]
        /\ UNCHANGED <<cond_has_queue, cond_initialized, cond_mode>>
    BY <1>6 DEF CondWait, InCall, At, Goto, Parking
  <2> QED
    BY <2>1, QueuesWait
<1>7. CASE TimedWaitUnqueued(t)
  <2>1. /\ current = t /\ ~Parking(t) /\ BlockAndWake(t) /\ lock' \in {0, 1}
        /\ pc' = [pc EXCEPT ![t] = "user"]
        /\ UNCHANGED <<cond_waiters, cond_has_queue, cond_initialized, cond_mode>>
    BY <1>7 DEF TimedWaitUnqueued, InCall, At, Goto, Parking, condVars
  <2> QED
    BY <2>1, QueuesWait
<1>8. CASE CondPark(t)
  <2>1. UNCHANGED <<lock, waiters, condVars>>
    BY <1>8 DEF CondPark, mutexVars
  <2> QED
    BY <1>8, <2>1, QueuesPark DEF CondPark, At, Goto
<1>9. CASE CondTimeout(t)
  <2>1. /\ cond_waiters' \in Seq(Thread) /\ Distinct(cond_waiters')
        /\ Members(cond_waiters') = Members(cond_waiters) \ {t}
    BY <1>9, RemoveFacts, QueueFacts DEF CondTimeout
  <2> QED
    BY <1>9, <2>1, QueuesReacquire DEF CondTimeout, At
<1>10. CASE CondWoken(t)
  <2>1. /\ current = t /\ ~Parking(t) /\ Reacquire(t) /\ pc[t] = "cond_sleep"
        /\ UNCHANGED <<cond_waiters, cond_has_queue, cond_initialized, cond_mode>>
    BY <1>10 DEF CondWoken, At, Parking, condVars
  <2>2. Members(cond_waiters') = Members(cond_waiters) \ {t}
    BY <1>1, <2>1
  <2> QED
    BY <2>1, <2>2, QueuesReacquire, QueueFacts
<1>11. CASE CondSignal(t)
  <2>1. /\ InCall(t) /\ Goto(t, "user") /\ scheduler_unblock(Woken(cond_waiters))
        /\ cond_waiters' = AfterWake(cond_waiters)
        /\ UNCHANGED <<mutexVars, cond_has_queue, cond_initialized, cond_mode>>
    BY <1>11 DEF CondSignal
  <2>2. /\ Woken(cond_waiters) \in SUBSET Members(cond_waiters)
        /\ cond_waiters' \in Seq(Thread) /\ Distinct(cond_waiters')
        /\ Members(cond_waiters') = Members(cond_waiters) \ Woken(cond_waiters)
    BY <2>1, WakeFacts, QueueFacts
  <2> QED
    BY <2>1, <2>2, QueuesWake
<1>12. CASE CondBroadcast(t)
  <2>1. /\ InCall(t) /\ Goto(t, "user") /\ scheduler_unblock(Members(cond_waiters))
        /\ cond_waiters' = <<>>
        /\ UNCHANGED <<mutexVars, cond_has_queue, cond_initialized, cond_mode>>
    BY <1>12 DEF CondBroadcast
  <2>2. /\ Members(cond_waiters) \in SUBSET Members(cond_waiters)
        /\ Members(cond_waiters') = Members(cond_waiters) \ Members(cond_waiters)
    BY <1>2, <2>1
  <2> QED
    BY <1>2, <2>1, <2>2, QueuesWake
<1>13. CASE CondDestroy(t) \/ CondInit(t)
  <2>1. /\ UNCHANGED <<current, state, ready, waiters, lock, pc>>
        /\ current = t /\ pc[t] = "user" /\ cond_waiters' = <<>>
        /\ cond_mode' = "init" =>
             /\ cond_has_queue' /\ cond_initialized'
             /\ \A u \in Thread : pc[u] \notin {"cond_alloc", "cond_enter"} /\ ~InCond(u)
    BY <1>13 DEF CondDestroy, CondInit, At, vars, schedVars, mutexVars
  <2>2. pc' = [pc EXCEPT ![t] = "user"]
    BY <2>1, QueueFacts
  <2> QED
    BY <1>3, <2>1, <2>2
<1> QED
  BY <1>4, <1>5, <1>6, <1>7, <1>8, <1>9, <1>10, <1>11, <1>12, <1>13

(* CondQueuesOK is an inductive invariant of condvar.c and mutex.c         *)
(* together, when no tick falls between a preemption_enable() and the      *)
(* scheduler_schedule() it is followed by.                                 *)
THEOREM CondQueuesCorrect ==
  ASSUME ParkTicks = FALSE
  PROVE  CondSpec => []CondQueuesOK
<1>1. CondInitState => CondQueuesOK
  <2> SUFFICES ASSUME CondInitState PROVE CondQueuesOK
    OBVIOUS
  <2>1. /\ current \in Thread /\ ready = Thread \ {current}
        /\ state = [t \in Thread |-> IF t = current THEN "RUNNING" ELSE "READY"]
        /\ lock = 0 /\ waiters = <<>> /\ cond_waiters = <<>>
        /\ pc = [t \in Thread |-> "user"]
        /\ cond_mode = "init" => cond_has_queue /\ cond_initialized
    BY DEF CondInitState, Init, SchedInit
  <2>2. <<>> \in Seq(Thread) /\ Distinct(<<>>) /\ Members(<<>>) = {}
    BY DEF Distinct, Members
  <2>3. pc \in [Thread -> CondPC] /\ \A t \in Thread : pc[t] = "user"
    BY <2>1 DEF CondPC, PC
  <2>4. SchedTypeOK /\ RunStructureOK
    BY <2>1 DEF SchedTypeOK, RunStructureOK, ThreadState
  <2>5. SleepersSignallable /\ MutexQueueServed
    BY <2>1, <2>2, <2>3 DEF SleepersSignallable, SleepersQueued, MutexQueueServed, InCond
  <2> QED
    BY <2>1, <2>2, <2>3, <2>4, <2>5 DEF CondQueuesOK, Parking
<1>2. CondQueuesOK /\ [CondNext]_allVars => CondQueuesOK'
  <2> SUFFICES ASSUME CondQueuesOK, [CondNext]_allVars PROVE CondQueuesOK'
    OBVIOUS
  <2>1. CASE CondNext
    BY <2>1, QueuesMutexStep, QueuesCondStep DEF CondNext
  <2>2. CASE UNCHANGED allVars
    BY <2>2 DEF allVars, vars, schedVars, mutexVars, condVars, CondQueuesOK, SchedTypeOK,
         RunStructureOK, SleepersSignallable, SleepersQueued, MutexQueueServed, InCond, Waiting, Parking,
         Retrying
  <2> QED
    BY <2>1, <2>2
<1> QED
  BY <1>1, <1>2, PTL DEF CondSpec

(* Whoever releases the mutex, uthread_cond_wait included, leaves a woken  *)
(* waiter on its way to a free mutex with a queue.                         *)
THEOREM MutexQueueIsServed ==
  ASSUME ParkTicks = FALSE
  PROVE  CondSpec => []MutexQueueServed
<1>1. CondQueuesOK => MutexQueueServed
  BY DEF CondQueuesOK
<1> QED
  BY <1>1, CondQueuesCorrect, PTL

-----------------------------------------------------------------------------
(* Sleepers of a condition, with ticks anywhere.                           *)

(* Unlinking one thread keeps every other, linked once or twice.           *)
LEMMA RemoveKeeps ==
  ASSUME NEW q \in Seq(Thread), NEW t \in Thread, NEW u \in Members(q), u # t
  PROVE  u \in Members(wait_queue_remove_specific(q, t))
<1> DEFINE k == CHOOSE i \in 1 .. Len(q) : q[i] = t
           r == SubSeq(q, 1, k - 1) \o SubSeq(q, k + 1, Len(q))
<1>1. CASE t \notin Members(q)
  BY <1>1 DEF wait_queue_remove_specific
<1>2. CASE t \in Members(q)
  <2>1. k \in 1 .. Len(q) /\ q[k] = t
    BY <1>2 DEF Members
  <2>2. wait_queue_remove_specific(q, t) = r
    BY <1>2 DEF wait_queue_remove_specific
  <2> HIDE DEF k
  <2>3. /\ r \in Seq(Thread) /\ Len(r) = Len(q) - 1
        /\ \A i \in 1 .. Len(q) - 1 : r[i] = IF i < k THEN q[i] ELSE q[i + 1]
    BY <2>1, UnlinkFacts
  <2>4. PICK i \in 1 .. Len(q) : q[i] = u
    BY DEF Members
  <2> HIDE DEF r
  <2>5. \E j \in 1 .. Len(r) : r[j] = u
    <3>1. CASE i < k
      BY <2>1, <2>3, <2>4, <3>1
    <3>2. CASE i > k
      <4>1. i - 1 \in 1 .. Len(q) - 1 /\ ~(i - 1 < k) /\ (i - 1) + 1 = i
        BY <2>1, <2>4, <3>2
      <4> QED
        BY <2>3, <2>4, <4>1
    <3> QED
      BY <2>1, <2>4, <3>1, <3>2
  <2> QED
    BY <2>2, <2>5 DEF Members
<1> QED
  BY <1>1, <1>2

(* A dispatch puts nobody to sleep.                                        *)
LEMMA DispatchWakes ==
  ASSUME NEW st \in [Thread -> ThreadState], NEW rdy, scheduler_schedule(st, rdy)
  PROVE  /\ state' \in [Thread -> ThreadState]
         /\ \A u \in Thread : state'[u] = "BLOCKED" => st[u] = "BLOCKED"
  BY DEF scheduler_schedule, SwitchStates, ThreadState

(* One thread moves on: enough for SleepersOK if no other falls asleep, and *)
(* none that stays asleep leaves the queue.                                *)
LEMMA SleepersMove ==
  ASSUME SleepersOK, NEW t \in Thread, NEW l \in CondPC,
         pc' = [pc EXCEPT ![t] = l],
         state' \in [Thread -> ThreadState], cond_waiters' \in Seq(Thread),
         cond_mode' = "init" =>
           /\ cond_mode = "init" /\ cond_has_queue' /\ cond_initialized'
           /\ l \notin {"cond_alloc", "cond_enter"},
         \A u \in Thread : u # t /\ state'[u] = "BLOCKED" =>
           /\ state[u] = "BLOCKED"
           /\ u \in Members(cond_waiters) => u \in Members(cond_waiters'),
         \/ l \notin {"cond_park", "cond_check", "cond_sleep"}
         \/ state'[t] # "BLOCKED"
         \/ cond_mode # "init"
         \/ t \in Members(cond_waiters')
  PROVE  SleepersOK'
<1>1. /\ pc' \in [Thread -> CondPC] /\ pc'[t] = l
      /\ \A u \in Thread : u # t => pc'[u] = pc[u]
  BY DEF SleepersOK
<1>2. SleepersQueued'
  BY <1>1 DEF SleepersOK, SleepersQueued, InCond
<1> QED
  BY <1>1, <1>2 DEF SleepersOK

(* A step of mutex.c by t: only t may fall asleep, in a lock call.         *)
LEMMA SleepersMutexStep ==
  ASSUME SleepersOK, NEW t \in Thread, MutexStep(t)
  PROVE  SleepersOK'
<1>1. /\ pc \in [Thread -> CondPC] /\ state \in [Thread -> ThreadState]
      /\ cond_waiters \in Seq(Thread)
      /\ cond_mode = "init" => cond_has_queue /\ cond_initialized
      /\ pc = [pc EXCEPT ![t] = pc[t]]
  BY DEF SleepersOK
<1>2. Step(t) /\ UNCHANGED <<cond_waiters, cond_has_queue, cond_initialized, cond_mode>>
  BY DEF MutexStep, condVars
<1>3. ASSUME NEW l \in {"user", "lock", "try", "lock_alloc", "try_alloc", "park", "relock"},
             pc' = [pc EXCEPT ![t] = l], state' \in [Thread -> ThreadState],
             \A u \in Thread : u # t /\ state'[u] = "BLOCKED" => state[u] = "BLOCKED"
      PROVE  SleepersOK'
  BY <1>1, <1>2, <1>3, SleepersMove DEF CondPC, PC
<1>4. ASSUME pc' = pc, state' \in [Thread -> ThreadState],
             \A u \in Thread : state'[u] = "BLOCKED" => state[u] = "BLOCKED"
      PROVE  SleepersOK'
  <2>1. SleepersQueued'
    BY <1>2, <1>4 DEF SleepersOK, SleepersQueued, InCond
  <2> QED
    BY <1>1, <1>2, <1>4, <2>1 DEF SleepersOK
<1>5. CASE LockCall(t) \/ TryCall(t) \/ LazyInit(t)
  <2>1. /\ UNCHANGED state
        /\ \E l \in {"user", "lock", "try", "lock_alloc", "try_alloc"} :
             pc' = [pc EXCEPT ![t] = l]
    BY <1>5 DEF LockCall, TryCall, LazyInit, At, Goto, schedVars
  <2> QED
    BY <1>1, <1>3, <2>1
<1>6. CASE LockBody(t) \/ TryBody(t) \/ Relock(t)
  <2>1. CASE Acquire(t) \/ Nest(t) \/ Refuse(t)
    <3>1. UNCHANGED state /\ pc' = [pc EXCEPT ![t] = "user"]
      BY <2>1 DEF Acquire, Nest, Refuse, Goto, schedVars
    <3> QED
      BY <1>1, <1>3, <3>1
  <2>2. CASE EnqueueSelf(t)
    <3>1. state' = [state EXCEPT ![t] = "BLOCKED"] /\ pc' = [pc EXCEPT ![t] = "park"]
      BY <2>2 DEF EnqueueSelf, Goto
    <3>2. /\ state' \in [Thread -> ThreadState]
          /\ \A u \in Thread : u # t => state'[u] = state[u]
      BY <1>1, <3>1 DEF ThreadState
    <3> QED
      BY <1>3, <3>1, <3>2
  <2> QED
    BY <1>6, <2>1, <2>2 DEF LockBody, TryBody, Relock
<1>7. CASE Park(t)
  <2>1. scheduler_schedule(state, ready) /\ pc' = [pc EXCEPT ![t] = "relock"]
    BY <1>7 DEF Park, Goto
  <2> QED
    BY <1>1, <1>3, <2>1, DispatchWakes
<1>8. CASE Unlock(t)
  <2>1. CASE Refuse(t)
    BY <1>1, <1>3, <2>1 DEF Refuse, Goto, schedVars
  <2>2. CASE UNCHANGED <<state, pc>>
    BY <1>1, <1>4, <2>2
  <2>3. CASE Release(t)
    <3>1. /\ pc' = pc
          /\ state' = [u \in Thread |-> IF u \in Woken(waiters) THEN "READY" ELSE state[u]]
      BY <2>3 DEF Release, scheduler_unblock
    <3> QED
      BY <1>1, <1>4, <3>1 DEF ThreadState
  <2> QED
    BY <1>8, <2>1, <2>2, <2>3 DEF Unlock, schedVars
<1>9. CASE Destroy(t) \/ MutexInit(t)
  BY <1>1, <1>4, <1>9 DEF Destroy, MutexInit, schedVars
<1>10. CASE Yield(t) \/ Tick(t)
  <2>1. /\ pc' = pc
        /\ \/ scheduler_schedule(state, ready)
           \/ scheduler_schedule([state EXCEPT ![t] = "READY"], ready \cup {t})
    BY <1>10 DEF Yield, Tick, uthread_yield, scheduler_tick
  <2>2. /\ [state EXCEPT ![t] = "READY"] \in [Thread -> ThreadState]
        /\ \A u \in Thread : [state EXCEPT ![t] = "READY"][u] = "BLOCKED" => state[u] = "BLOCKED"
    BY <1>1 DEF ThreadState
  <2>3. CASE scheduler_schedule(state, ready)
    BY <1>1, <1>4, <2>1, <2>3, DispatchWakes
  <2>4. CASE scheduler_schedule([state EXCEPT ![t] = "READY"], ready \cup {t})
    <3> DEFINE st == [state EXCEPT ![t] = "READY"]
               rdy == ready \cup {t}
    <3>1. st \in [Thread -> ThreadState] /\ scheduler_schedule(st, rdy)
      BY <2>2, <2>4
    <3> HIDE DEF st, rdy
    <3>2. /\ state' \in [Thread -> ThreadState]
          /\ \A u \in Thread : state'[u] = "BLOCKED" => st[u] = "BLOCKED"
      BY <3>1, DispatchWakes
    <3> QED
      BY <1>4, <2>1, <2>2, <3>2 DEF st
  <2> QED
    BY <2>1, <2>3, <2>4
<1> QED
  BY <1>2, <1>5, <1>6, <1>7, <1>8, <1>9, <1>10 DEF Step

(* The caller of a wait falls asleep and a waiter of the mutex wakes up.   *)
LEMMA BlockWakes ==
  ASSUME state \in [Thread -> ThreadState], NEW t \in Thread, BlockAndWake(t)
  PROVE  /\ state' \in [Thread -> ThreadState]
         /\ \A u \in Thread : u # t /\ state'[u] = "BLOCKED" => state[u] = "BLOCKED"
  BY DEF BlockAndWake, ThreadState

(* The thread that leaves a wait goes on as in uthread_mutex_lock.         *)
LEMMA ReacquireWakes ==
  ASSUME pc \in [Thread -> CondPC], state \in [Thread -> ThreadState], NEW t \in Thread,
         Reacquire(t)
  PROVE  /\ \E l \in {"user", "park"} : pc' = [pc EXCEPT ![t] = l]
         /\ state' \in [Thread -> ThreadState]
         /\ \A u \in Thread : u # t => state'[u] = state[u]
<1>1. CASE Acquire(t)
  BY <1>1 DEF Acquire, Goto, schedVars
<1>2. CASE EnqueueSelf(t)
  BY <1>2 DEF EnqueueSelf, Goto, ThreadState
<1> QED
  BY <1>1, <1>2 DEF Reacquire

(* A step of condvar.c: a wait queues its caller in the step in which it   *)
(* falls asleep, and a signal wakes whom it takes out.                     *)
LEMMA SleepersCondStep ==
  ASSUME SleepersOK, NEW t \in Thread,
         \/ CondCall(t) \/ CondLazyInit(t) \/ CondWait(t) \/ TimedWaitUnqueued(t)
         \/ CondPark(t) \/ CondTimeout(t) \/ CondWoken(t)
         \/ CondSignal(t) \/ CondBroadcast(t) \/ CondDestroy(t) \/ CondInit(t)
  PROVE  SleepersOK'
<1>1. /\ pc \in [Thread -> CondPC] /\ state \in [Thread -> ThreadState]
      /\ cond_waiters \in Seq(Thread)
      /\ cond_mode = "init" =>
           /\ cond_has_queue /\ cond_initialized
           /\ \A u \in Thread : pc[u] \notin {"cond_alloc", "cond_enter"}
      /\ cond_mode = "init" => \A u \in Thread :
           InCond(u) /\ state[u] = "BLOCKED" => u \in Members(cond_waiters)
      /\ pc = [pc EXCEPT ![t] = pc[t]]
  BY DEF SleepersOK, SleepersQueued
<1>2. {"user", "park", "cond_alloc", "cond_enter", "cond_park", "cond_check", "cond_sleep"}
        \subseteq CondPC
  BY DEF CondPC, PC
<1>3. CASE CondCall(t) \/ CondLazyInit(t)
  <2>1. /\ ~cond_initialized \/ pc[t] = "cond_alloc"
        /\ UNCHANGED <<state, cond_mode>>
        /\ cond_waiters' = cond_waiters \/ cond_waiters' = <<>>
        /\ \E l \in {"user", "cond_alloc", "cond_enter"} : pc' = [pc EXCEPT ![t] = l]
    BY <1>3 DEF CondCall, CondLazyInit, At, Goto, schedVars, condVars
  <2>2. cond_mode # "init"
    BY <1>1, <2>1
  <2>3. pc' \in [Thread -> CondPC]
    BY <1>1, <1>2, <2>1
  <2>4. cond_waiters' \in Seq(Thread)
    <3>1. <<>> \in Seq(Thread)
      OBVIOUS
    <3> QED
      BY <1>1, <2>1, <3>1
  <2> QED
    BY <1>1, <2>1, <2>2, <2>3, <2>4 DEF SleepersOK, SleepersQueued
<1>4. CASE CondWait(t)
  <2>1. /\ BlockAndWake(t)
        /\ \E l \in {"cond_park", "cond_check"} : pc' = [pc EXCEPT ![t] = l]
        /\ cond_waiters' = IF cond_has_queue THEN wait_queue_add(cond_waiters, t)
                           ELSE cond_waiters
        /\ UNCHANGED <<cond_has_queue, cond_initialized, cond_mode>>
    BY <1>4 DEF CondWait, Goto
  <2>2. /\ cond_waiters' \in Seq(Thread) /\ Members(cond_waiters) \subseteq Members(cond_waiters')
        /\ cond_has_queue => t \in Members(cond_waiters')
    BY <1>1, <2>1, AddFacts
  <2>3. PICK l \in {"cond_park", "cond_check"} : pc' = [pc EXCEPT ![t] = l]
    BY <2>1
  <2>4. /\ state' \in [Thread -> ThreadState]
        /\ \A u \in Thread : u # t /\ state'[u] = "BLOCKED" => state[u] = "BLOCKED"
    BY <1>1, <2>1, BlockWakes
  <2> QED
    BY <1>1, <1>2, <2>1, <2>2, <2>3, <2>4, SleepersMove
<1>5. CASE TimedWaitUnqueued(t)
  <2>1. /\ BlockAndWake(t) /\ pc' = [pc EXCEPT ![t] = "user"]
        /\ UNCHANGED <<cond_waiters, cond_has_queue, cond_initialized, cond_mode>>
    BY <1>5 DEF TimedWaitUnqueued, Goto, condVars
  <2> QED
    BY <1>1, <1>2, <2>1, BlockWakes, SleepersMove
<1>6. CASE CondPark(t)
  <2>1. /\ scheduler_schedule(state, ready) /\ pc' = [pc EXCEPT ![t] = "cond_sleep"]
        /\ UNCHANGED <<cond_waiters, cond_has_queue, cond_initialized, cond_mode>>
        /\ InCond(t)
    BY <1>6 DEF CondPark, Goto, At, condVars, InCond
  <2>2. /\ state' \in [Thread -> ThreadState]
        /\ \A u \in Thread : state'[u] = "BLOCKED" => state[u] = "BLOCKED"
    BY <1>1, <2>1, DispatchWakes
  <2> QED
    BY <1>1, <1>2, <2>1, <2>2, SleepersMove
<1>7. CASE CondTimeout(t) \/ CondWoken(t)
  <2>1. /\ Reacquire(t)
        /\ UNCHANGED <<cond_has_queue, cond_initialized, cond_mode>>
        /\ \/ cond_waiters' = wait_queue_remove_specific(cond_waiters, t)
           \/ cond_waiters' = cond_waiters
    BY <1>7 DEF CondTimeout, CondWoken, condVars
  <2>2. /\ cond_waiters' \in Seq(Thread)
        /\ \A u \in Members(cond_waiters) : u # t => u \in Members(cond_waiters')
    BY <1>1, <2>1, RemoveFacts, RemoveKeeps
  <2>3. PICK l \in {"user", "park"} : pc' = [pc EXCEPT ![t] = l]
    BY <1>1, <2>1, ReacquireWakes
  <2>4. state' \in [Thread -> ThreadState] /\ \A u \in Thread : u # t => state'[u] = state[u]
    BY <1>1, <2>1, ReacquireWakes
  <2> QED
    BY <1>1, <1>2, <2>1, <2>2, <2>3, <2>4, SleepersMove
<1>8. CASE CondSignal(t) \/ CondBroadcast(t)
  <2>1. PICK W : /\ scheduler_unblock(W) /\ cond_waiters' \in Seq(Thread)
                 /\ Members(cond_waiters) \subseteq Members(cond_waiters') \cup W
    <3>1. CASE CondSignal(t)
      BY <1>1, <3>1, WakeFacts DEF CondSignal
    <3>2. CASE CondBroadcast(t)
      BY <1>1, <3>2 DEF CondBroadcast
    <3> QED
      BY <1>8, <3>1, <3>2
  <2>2. /\ pc' = [pc EXCEPT ![t] = "user"]
        /\ UNCHANGED <<cond_has_queue, cond_initialized, cond_mode>>
    BY <1>8 DEF CondSignal, CondBroadcast, Goto
  <2>3. /\ state' \in [Thread -> ThreadState]
        /\ \A u \in Thread : state'[u] = "BLOCKED" => state[u] = "BLOCKED" /\ u \notin W
    BY <1>1, <2>1 DEF scheduler_unblock, ThreadState
  <2> QED
    BY <1>1, <1>2, <2>1, <2>2, <2>3, SleepersMove
<1>9. CASE CondDestroy(t) \/ CondInit(t)
  <2>1. /\ UNCHANGED <<pc, state>> /\ cond_waiters' = <<>>
        /\ cond_mode' = "init" =>
             /\ cond_has_queue' /\ cond_initialized'
             /\ \A u \in Thread : pc[u] \notin {"cond_alloc", "cond_enter"} /\ ~InCond(u)
    BY <1>9 DEF CondDestroy, CondInit, vars, schedVars
  <2>2. cond_waiters' \in Seq(Thread)
    BY <2>1
  <2> QED
    BY <1>1, <2>1, <2>2 DEF SleepersOK, SleepersQueued, InCond
<1> QED
  BY <1>3, <1>4, <1>5, <1>6, <1>7, <1>8, <1>9

(* No signal is missed between the release of the mutex in                 *)
(* uthread_cond_wait and the sleep: wherever the timer fires, also between *)
(* its preemption_enable() and its scheduler_schedule(), where other       *)
(* threads then lock the mutex and signal, a thread that is asleep in a    *)
(* wait is in the queue of the condition.                                  *)
THEOREM NoSignalIsMissed == CondSpec => []SleepersQueued
<1>1. CondInitState => SleepersOK
  <2> SUFFICES ASSUME CondInitState PROVE SleepersOK
    OBVIOUS
  <2>1. /\ state = [t \in Thread |-> IF t = current THEN "RUNNING" ELSE "READY"]
        /\ pc = [t \in Thread |-> "user"] /\ cond_waiters = <<>>
        /\ cond_mode = "init" => cond_has_queue /\ cond_initialized
    BY DEF CondInitState, Init, SchedInit
  <2>2. /\ pc \in [Thread -> CondPC] /\ \A t \in Thread : pc[t] = "user"
        /\ state \in [Thread -> ThreadState] /\ cond_waiters \in Seq(Thread)
    BY <2>1 DEF CondPC, PC, ThreadState
  <2> QED
    BY <2>1, <2>2 DEF SleepersOK, SleepersQueued, InCond
<1>2. SleepersOK /\ [CondNext]_allVars => SleepersOK'
  <2> SUFFICES ASSUME SleepersOK, [CondNext]_allVars PROVE SleepersOK'
    OBVIOUS
  <2>1. CASE CondNext
    BY <2>1, SleepersMutexStep, SleepersCondStep DEF CondNext
  <2>2. CASE UNCHANGED allVars
    BY <2>2 DEF allVars, vars, schedVars, condVars, SleepersOK, SleepersQueued, InCond
  <2> QED
    BY <2>1, <2>2
<1>3. SleepersOK => SleepersQueued
  BY DEF SleepersOK
<1> QED
  BY <1>1, <1>2, <1>3, PTL DEF CondSpec

-----------------------------------------------------------------------------
(* What a wait gives back.                                                 *)

(* One thread moves on: enough for DepthOK if the moving thread keeps to   *)
(* its bounds.                                                             *)
LEMMA DepthMove ==
  ASSUME DepthOK, NEW t \in Thread, NEW l \in CondPC, NEW h \in 0 .. MaxDepth,
         NEW d \in 0 .. MaxDepth,
         pc' = [pc EXCEPT ![t] = l], held' = [held EXCEPT ![t] = h],
         depth' = [depth EXCEPT ![t] = d],
         l \notin {"user", "cond_alloc", "cond_enter"} => h < MaxDepth,
         d > 0 => l \in {"park", "relock", "cond_park", "cond_check", "cond_sleep"}
  PROVE  DepthOK'
<1>1. /\ pc' \in [Thread -> CondPC] /\ pc'[t] = l
      /\ held' \in [Thread -> 0 .. MaxDepth] /\ held'[t] = h
      /\ depth' \in [Thread -> 0 .. MaxDepth] /\ depth'[t] = d
      /\ \A u \in Thread : u # t => pc'[u] = pc[u] /\ held'[u] = held[u] /\ depth'[u] = depth[u]
  BY DEF DepthOK
<1> QED
  BY <1>1 DEF DepthOK, InCond, Waiting

(* A step of mutex.c by t moves only t, and only within the bounds.        *)
LEMMA DepthMutexStep ==
  ASSUME DepthOK, NEW t \in Thread, MutexStep(t)
  PROVE  /\ DepthOK'
         /\ \A u \in Thread : depth[u] > 0 /\ depth'[u] = 0 =>
              owner' = u /\ recursion_count' = 1
<1> DEFINE d(l) == IF l = "user" THEN 0 ELSE depth[t]
<1>1. /\ pc \in [Thread -> CondPC] /\ held \in [Thread -> 0 .. MaxDepth]
      /\ depth \in [Thread -> 0 .. MaxDepth] /\ MaxDepth \in Nat \ {0}
      /\ \A u \in Thread : depth[u] > 0 =>
           pc[u] \in {"park", "relock", "cond_park", "cond_check", "cond_sleep"}
      /\ \A u \in Thread : pc[u] \notin {"user", "cond_alloc", "cond_enter"} => held[u] < MaxDepth
  BY MutexAssumption DEF DepthOK, InCond, Waiting
<1>2. /\ Step(t)
      /\ depth' = [u \in Thread |-> IF pc'[u] = "user" THEN 0 ELSE depth[u]]
  BY DEF MutexStep
<1>3. ASSUME NEW l \in CondPC, NEW h \in 0 .. MaxDepth,
             pc' = [pc EXCEPT ![t] = l], held' = [held EXCEPT ![t] = h],
             l \notin {"user", "cond_alloc", "cond_enter"} => h < MaxDepth,
             depth[t] > 0 => \/ l \in {"park", "relock", "cond_park", "cond_check", "cond_sleep"}
                             \/ l = "user" /\ owner' = t /\ recursion_count' = 1
      PROVE  /\ DepthOK'
             /\ \A u \in Thread : depth[u] > 0 /\ depth'[u] = 0 =>
                  owner' = u /\ recursion_count' = 1
  <2>1. /\ pc'[t] = l /\ depth'[t] = d(l) /\ d(l) \in 0 .. MaxDepth
        /\ \A u \in Thread : u # t => pc'[u] = pc[u] /\ depth'[u] = depth[u]
    BY <1>1, <1>2, <1>3
  <2>2. /\ pc' \in [Thread -> CondPC] /\ held' \in [Thread -> 0 .. MaxDepth]
        /\ depth' \in [Thread -> 0 .. MaxDepth] /\ held'[t] = h
        /\ \A u \in Thread : u # t => held'[u] = held[u]
    BY <1>1, <1>2, <1>3
  <2>3. /\ l = "user" \/ depth'[t] = depth[t]
        /\ l \notin {"park", "relock", "cond_park", "cond_check", "cond_sleep", "user"} =>
             depth'[t] = 0
    BY <1>1, <1>3, <2>1
  <2> QED
    BY <1>1, <1>3, <2>1, <2>2, <2>3 DEF DepthOK, InCond, Waiting
<1>4. held = [held EXCEPT ![t] = held[t]] /\ pc = [pc EXCEPT ![t] = pc[t]]
  BY <1>1
<1>5. ASSUME UNCHANGED <<pc, held>>
      PROVE  /\ DepthOK'
             /\ \A u \in Thread : depth[u] > 0 /\ depth'[u] = 0 =>
                  owner' = u /\ recursion_count' = 1
  BY <1>1, <1>3, <1>4, <1>5
<1>6. ASSUME NEW l \in {"user", "lock", "try", "lock_alloc", "try_alloc", "park", "relock"},
             pc' = [pc EXCEPT ![t] = l], held' = held, held[t] < MaxDepth,
             depth[t] > 0 => l \in {"park", "relock"}
      PROVE  /\ DepthOK'
             /\ \A u \in Thread : depth[u] > 0 /\ depth'[u] = 0 =>
                  owner' = u /\ recursion_count' = 1
  BY <1>1, <1>3, <1>4, <1>6 DEF CondPC, PC
<1>7. CASE LockCall(t) \/ TryCall(t) \/ LazyInit(t)
  <2>1. /\ held' = held
        /\ \/ pc[t] = "user" /\ held[t] < MaxDepth
           \/ pc[t] \in {"lock_alloc", "try_alloc"}
        /\ \E l \in {"user", "lock", "try", "lock_alloc", "try_alloc"} :
             pc' = [pc EXCEPT ![t] = l]
    BY <1>7 DEF LockCall, TryCall, LazyInit, At, Goto
  <2> QED
    BY <1>1, <1>6, <2>1
<1>8. CASE LockBody(t) \/ TryBody(t) \/ Relock(t)
  <2>1. pc[t] \in {"lock", "try", "relock"} /\ held[t] < MaxDepth
    BY <1>1, <1>8 DEF LockBody, TryBody, Relock, At
  <2>2. /\ depth[t] > 0 => pc[t] = "relock"
        /\ held[t] + 1 \in 0 .. MaxDepth
    BY <1>1, <2>1
  <2>3. CASE Acquire(t)
    <3>1. /\ pc' = [pc EXCEPT ![t] = "user"] /\ held' = [held EXCEPT ![t] = held[t] + 1]
          /\ owner' = t /\ recursion_count' = 1
      BY <2>3 DEF Acquire, Goto
    <3> QED
      BY <1>3, <2>2, <3>1 DEF CondPC, PC
  <2>4. CASE EnqueueSelf(t)
    BY <1>6, <2>1, <2>4 DEF EnqueueSelf, Goto
  <2>5. CASE Nest(t) /\ pc[t] # "relock"
    <3>1. pc' = [pc EXCEPT ![t] = "user"] /\ held' = [held EXCEPT ![t] = held[t] + 1]
      BY <2>5 DEF Nest, Goto
    <3> QED
      BY <1>3, <2>2, <2>5, <3>1 DEF CondPC, PC
  <2>6. CASE Refuse(t) /\ pc[t] # "relock"
    BY <1>6, <2>1, <2>2, <2>6 DEF Refuse, Goto
  <2> QED
    BY <1>8, <2>3, <2>4, <2>5, <2>6 DEF LockBody, TryBody, Relock, At
<1>9. CASE Park(t)
  BY <1>1, <1>6, <1>9 DEF Park, At, Goto
<1>10. CASE Unlock(t)
  <2>1. pc[t] = "user" /\ ~(depth[t] > 0)
    BY <1>1, <1>10 DEF Unlock, At
  <2>2. /\ pc' = [pc EXCEPT ![t] = "user"]
        /\ \/ held' = held
           \/ held[t] > 0 /\ held' = [held EXCEPT ![t] = held[t] - 1]
           \/ held' = [held EXCEPT ![t] = IF held[t] = 0 THEN 0 ELSE held[t] - 1]
    BY <1>4, <1>10, <2>1 DEF Unlock, Release, Refuse, Goto
  <2>3. \E h \in 0 .. MaxDepth : held' = [held EXCEPT ![t] = h]
    BY <1>1, <1>4, <2>2
  <2> QED
    BY <1>3, <2>1, <2>2, <2>3 DEF CondPC, PC
<1>11. CASE Destroy(t) \/ MutexInit(t) \/ Yield(t) \/ Tick(t)
  BY <1>5, <1>11 DEF Destroy, MutexInit, Yield, Tick
<1> QED
  BY <1>2, <1>7, <1>8, <1>9, <1>10, <1>11 DEF Step

(* A step of condvar.c: the two waits note how often the caller held the   *)
(* mutex, and only a thread that takes it back ends its wait.              *)
LEMMA DepthCondStep ==
  ASSUME DepthOK, NEW t \in Thread,
         \/ CondCall(t) \/ CondLazyInit(t) \/ CondWait(t) \/ TimedWaitUnqueued(t)
         \/ CondPark(t) \/ CondTimeout(t) \/ CondWoken(t)
         \/ CondSignal(t) \/ CondBroadcast(t) \/ CondDestroy(t) \/ CondInit(t)
  PROVE  /\ DepthOK'
         /\ \A u \in Thread : depth[u] > 0 /\ depth'[u] = 0 =>
              owner' = u /\ recursion_count' = 1
<1>1. /\ pc \in [Thread -> CondPC] /\ held \in [Thread -> 0 .. MaxDepth]
      /\ depth \in [Thread -> 0 .. MaxDepth] /\ MaxDepth \in Nat \ {0}
      /\ pc[t] \notin {"park", "relock", "cond_park", "cond_check", "cond_sleep"} =>
           ~(depth[t] > 0)
      /\ pc[t] \notin {"user", "cond_alloc", "cond_enter"} => held[t] < MaxDepth
      /\ held = [held EXCEPT ![t] = held[t]] /\ depth = [depth EXCEPT ![t] = depth[t]]
  BY MutexAssumption DEF DepthOK, InCond, Waiting
<1>2. ASSUME depth' = depth
      PROVE  \A u \in Thread : ~(depth[u] > 0 /\ depth'[u] = 0)
  BY <1>1, <1>2
<1>3. ASSUME NEW l \in CondPC, pc' = [pc EXCEPT ![t] = l], UNCHANGED <<held, depth>>,
             l \notin {"user", "cond_alloc", "cond_enter"} => held[t] < MaxDepth,
             \/ l \in {"park", "relock", "cond_park", "cond_check", "cond_sleep"}
             \/ pc[t] \notin {"park", "relock", "cond_park", "cond_check", "cond_sleep"}
      PROVE  DepthOK'
  <2>1. depth[t] > 0 => l \in {"park", "relock", "cond_park", "cond_check", "cond_sleep"}
    BY <1>1, <1>3
  <2>2. held[t] \in 0 .. MaxDepth /\ depth[t] \in 0 .. MaxDepth
    BY <1>1
  <2> QED
    BY <1>1, <1>3, <2>1, <2>2, DepthMove
<1>4. CASE CondCall(t) \/ CondLazyInit(t) \/ CondSignal(t) \/ CondBroadcast(t)
  <2>1. /\ UNCHANGED <<held, depth>> /\ pc[t] \in {"user", "cond_alloc", "cond_enter"}
        /\ \E l \in {"user", "cond_alloc", "cond_enter"} : pc' = [pc EXCEPT ![t] = l]
    BY <1>4 DEF CondCall, CondLazyInit, CondSignal, CondBroadcast, InCall, At, Goto
  <2> QED
    BY <1>2, <1>3, <2>1 DEF CondPC, PC
<1>5. CASE CondWait(t)
  <2>1. /\ held' = [held EXCEPT ![t] = 0] /\ depth' = [depth EXCEPT ![t] = held[t]]
        /\ held[t] > 0 /\ pc[t] \in {"user", "cond_enter"}
        /\ \E l \in {"cond_park", "cond_check"} : pc' = [pc EXCEPT ![t] = l]
    BY <1>5 DEF CondWait, InCall, At, Goto
  <2>2. 0 \in 0 .. MaxDepth /\ held[t] \in 0 .. MaxDepth /\ 0 < MaxDepth
    BY <1>1
  <2>3. DepthOK'
    BY <2>1, <2>2, DepthMove DEF CondPC, PC
  <2>4. \A u \in Thread : depth'[u] = IF u = t THEN held[t] ELSE depth[u]
    BY <1>1, <2>1
  <2> QED
    BY <1>1, <2>1, <2>3, <2>4
<1>6. CASE TimedWaitUnqueued(t)
  <2>1. /\ held' = [held EXCEPT ![t] = 1] /\ depth' = depth
        /\ pc[t] \in {"user", "cond_enter"} /\ pc' = [pc EXCEPT ![t] = "user"]
    BY <1>6 DEF TimedWaitUnqueued, InCall, At, Goto
  <2>2. 1 \in 0 .. MaxDepth /\ depth[t] \in 0 .. MaxDepth /\ ~(depth[t] > 0)
    BY <1>1, <2>1
  <2>3. DepthOK'
    BY <1>1, <2>1, <2>2, DepthMove DEF CondPC, PC
  <2> QED
    BY <1>2, <2>1, <2>3
<1>7. CASE CondPark(t)
  <2>1. /\ UNCHANGED <<held, depth>> /\ pc[t] \in {"cond_park", "cond_check"}
        /\ pc' = [pc EXCEPT ![t] = "cond_sleep"]
    BY <1>7 DEF CondPark, At, Goto
  <2> QED
    BY <1>1, <1>2, <1>3, <2>1 DEF CondPC, PC
<1>8. CASE CondTimeout(t) \/ CondWoken(t)
  <2>1. Reacquire(t) /\ pc[t] \in {"cond_check", "cond_sleep"}
    BY <1>8 DEF CondTimeout, CondWoken, At
  <2>2. held[t] + 1 \in 0 .. MaxDepth /\ 0 \in 0 .. MaxDepth /\ held[t] < MaxDepth
    BY <1>1, <2>1
  <2>3. CASE lock = 0
    <3>1. /\ held' = [held EXCEPT ![t] = held[t] + 1] /\ depth' = [depth EXCEPT ![t] = 0]
          /\ pc' = [pc EXCEPT ![t] = "user"] /\ owner' = t /\ recursion_count' = 1
      BY <2>1, <2>3 DEF Reacquire, Acquire, Goto
    <3>2. DepthOK'
      <4>1. "user" \in CondPC /\ ~(0 > 0)
        BY DEF CondPC, PC
      <4> QED
        BY <2>2, <3>1, <4>1, DepthMove
    <3>3. \A u \in Thread : u # t => depth'[u] = depth[u]
      BY <1>1, <3>1
    <3>4. \A u \in Thread : u # t => ~(depth[u] > 0 /\ depth'[u] = 0)
      BY <1>1, <3>3
    <3> QED
      BY <3>1, <3>2, <3>4
  <2>4. CASE lock # 0
    <3>1. UNCHANGED <<held, depth>> /\ pc' = [pc EXCEPT ![t] = "park"]
      BY <2>1, <2>4 DEF Reacquire, EnqueueSelf, Goto
    <3> QED
      BY <1>2, <1>3, <2>2, <3>1 DEF CondPC, PC
  <2> QED
    BY <2>3, <2>4
<1>9. CASE CondDestroy(t) \/ CondInit(t)
  <2>1. UNCHANGED <<pc, held, depth>> /\ pc[t] = "user"
    BY <1>9 DEF CondDestroy, CondInit, At, vars
  <2>2. pc' = [pc EXCEPT ![t] = "user"]
    BY <1>1, <2>1
  <2> QED
    BY <1>2, <1>3, <2>1, <2>2 DEF CondPC, PC
<1> QED
  BY <1>4, <1>5, <1>6, <1>7, <1>8, <1>9

(* DepthOK is an inductive invariant, whatever the timer does.             *)
THEOREM DepthCorrect == CondSpec => []DepthOK
<1>1. CondInitState => DepthOK
  BY MutexAssumption DEF CondInitState, Init, DepthOK, CondPC, PC
<1>2. DepthOK /\ [CondNext]_allVars => DepthOK'
  <2> SUFFICES ASSUME DepthOK, [CondNext]_allVars PROVE DepthOK'
    OBVIOUS
  <2>1. CASE CondNext
    BY <2>1, DepthMutexStep, DepthCondStep DEF CondNext
  <2>2. CASE UNCHANGED allVars
    BY <2>2 DEF allVars, vars, DepthOK, InCond, Waiting
  <2> QED
    BY <2>1, <2>2
<1> QED
  BY <1>1, <1>2, PTL DEF CondSpec

(* Every return from a condition wait leaves the caller the owner of the   *)
(* mutex, locked exactly once, however often it was locked before and      *)
(* wherever the timer fires.                                               *)
THEOREM WaitReturnsWithMutex ==
  CondSpec => [][\A t \in Thread : depth[t] > 0 /\ depth'[t] = 0 =>
                   owner' = t /\ recursion_count' = 1]_allVars
<1>1. DepthOK /\ [CondNext]_allVars =>
        [\A t \in Thread : depth[t] > 0 /\ depth'[t] = 0 =>
           owner' = t /\ recursion_count' = 1]_allVars
  BY DepthMutexStep, DepthCondStep DEF CondNext
<1> QED
  BY <1>1, DepthCorrect, PTL DEF CondSpec
=============================================================================
