------------------------------- MODULE Mutex -------------------------------
(***************************************************************************)
(* src/src/mutex.c: one mutex shared by all threads.                       *)
(*                                                                         *)
(* pc[t] is where thread t is in the library: "user" code; before the      *)
(* preemption_disable() of a lock or trylock call ("lock", "try", or       *)
(* "lock_alloc", "try_alloc" when the call saw initialized = false);       *)
(* queued on waiters with preemption enabled again and scheduler_schedule()*)
(* not yet entered ("park"); after that scheduler_schedule() ("relock").   *)
(* Between preemption_disable and preemption_enable SIGALRM is blocked, so *)
(* each such section is one action.                                        *)
(***************************************************************************)
EXTENDS Scheduler

CONSTANTS MutexTypes, \* types uthread_mutex_init may be given
          InitModes,  \* how the program sets the mutex up (Init)
          ParkTicks,  \* TRUE: the timer may also fire at pc "park"
          MaxDepth,   \* bound on the nesting of a recursive lock
          None        \* NULL as an owner

ASSUME MutexAssumption ==
  /\ MutexTypes \subseteq {"NORMAL", "RECURSIVE", "ERRORCHECK"}
  /\ InitModes \subseteq {"init", "zero", "static"}
  /\ ParkTicks \in BOOLEAN
  /\ MaxDepth \in Nat \ {0}
  /\ None \notin Thread

VARIABLES lock,             \* mutex->lock
          owner,            \* mutex->owner
          recursion_count,  \* mutex->recursion_count
          type,             \* mutex->type
          waiters,          \* *mutex->waiters, <<>> while there is no queue
          has_queue,        \* mutex->waiters # NULL
          initialized,      \* mutex->initialized
          mode,             \* how the program has set the mutex up
          pc,
          held              \* lock calls of t that succeeded less its unlocks

mutexVars == <<lock, owner, recursion_count, type, waiters, has_queue, initialized,
               mode>>
vars == <<schedVars, mutexVars, pc, held>>

PC == {"user", "lock_alloc", "try_alloc", "lock", "try", "park", "relock"}

TypeOK ==
  /\ SchedTypeOK
  /\ lock \in {0, 1}
  /\ owner \in Thread \cup {None}
  /\ recursion_count \in Nat
  /\ type \in {"NORMAL", "RECURSIVE", "ERRORCHECK"}
  /\ waiters \in Seq(Thread)
  /\ has_queue \in BOOLEAN
  /\ initialized \in BOOLEAN
  /\ mode \in {"init", "zero", "static"}
  /\ pc \in [Thread -> PC]
  /\ held \in [Thread -> Nat]

(* "init": after uthread_mutex_init; "static": UTHREAD_MUTEX_INITIALIZER,  *)
(* which sets initialized without a queue; "zero": zeroed memory, used     *)
(* through the lazy initialisation of lock and trylock.                    *)
Init ==
  /\ SchedInit
  /\ lock = 0
  /\ owner = None
  /\ recursion_count = 0
  /\ waiters = <<>>
  /\ mode \in InitModes
  /\ type \in IF mode = "init" THEN MutexTypes ELSE {"NORMAL"}
  /\ has_queue = (mode = "init")
  /\ initialized = (mode # "zero")
  /\ pc = [t \in Thread |-> "user"]
  /\ held = [t \in Thread |-> 0]

At(t, label) == current = t /\ pc[t] = label

Goto(t, label) == pc' = [pc EXCEPT ![t] = label]

-----------------------------------------------------------------------------
(* Both lock paths end here: the fields are set and the call returns.      *)
Acquire(t) ==
  /\ lock' = 1
  /\ owner' = t
  /\ recursion_count' = 1
  /\ held' = [held EXCEPT ![t] = @ + 1]
  /\ Goto(t, "user")
  /\ UNCHANGED <<schedVars, type, waiters, has_queue, initialized, mode>>

(* The body of the while loop up to preemption_enable(); wait_queue_add on *)
(* a NULL queue does nothing.                                              *)
EnqueueSelf(t) ==
  /\ state' = [state EXCEPT ![t] = "BLOCKED"]
  /\ waiters' = IF has_queue THEN wait_queue_add(waiters, t) ELSE waiters
  /\ Goto(t, "park")
  /\ UNCHANGED <<current, ready, lock, owner, recursion_count, type, has_queue,
                 initialized, held, mode>>

(* Mutant: uthread_mutex_lock tests the lock once instead of in a loop.    *)
RelockUnchecked(t) == At(t, "relock") /\ Acquire(t)

(* A program that set its mutex up with uthread_mutex_init or the static   *)
(* initializer does not use it while it is destroyed.                      *)
MayUse == initialized \/ mode = "zero"

LockCall(t) ==
  /\ At(t, "user")
  /\ MayUse
  /\ held[t] < MaxDepth
  /\ Goto(t, IF initialized THEN "lock" ELSE "lock_alloc")
  /\ UNCHANGED <<schedVars, mutexVars, held>>

TryCall(t) ==
  /\ At(t, "user")
  /\ MayUse
  /\ held[t] < MaxDepth
  /\ Goto(t, IF initialized THEN "try" ELSE "try_alloc")
  /\ UNCHANGED <<schedVars, mutexVars, held>>

(* The lazy initialisation, decided on the initialized read at the call.   *)
(* A malloc that fails leaves NULL in waiters and returns ENOMEM.          *)
LazyInit(t) ==
  /\ \/ /\ \/ At(t, "lock_alloc") /\ Goto(t, "lock")
           \/ At(t, "try_alloc") /\ Goto(t, "try")
        /\ has_queue' = TRUE
        /\ initialized' = TRUE
     \/ /\ At(t, "lock_alloc") \/ At(t, "try_alloc")
        /\ Goto(t, "user")
        /\ has_queue' = FALSE
        /\ UNCHANGED initialized
  /\ waiters' = <<>>
  /\ UNCHANGED <<schedVars, lock, owner, recursion_count, type, held, mode>>

(* Mutant: nesting counts on the lock word.                                *)
NestOnLock(t) ==
  /\ owner = t
  /\ type = "RECURSIVE"
  /\ lock' = lock + 1
  /\ held' = [held EXCEPT ![t] = @ + 1]
  /\ Goto(t, "user")
  /\ UNCHANGED <<schedVars, owner, recursion_count, type, waiters, has_queue,
                 initialized, mode>>

(* The owner of a recursive mutex takes it once more.                      *)
Nest(t) ==
  /\ owner = t
  /\ type = "RECURSIVE"
  /\ recursion_count' = recursion_count + 1
  /\ held' = [held EXCEPT ![t] = @ + 1]
  /\ Goto(t, "user")
  /\ UNCHANGED <<schedVars, lock, owner, type, waiters, has_queue, initialized, mode>>

(* EDEADLK or EBUSY: nothing but the return.                               *)
Refuse(t) ==
  /\ Goto(t, "user")
  /\ UNCHANGED <<schedVars, mutexVars, held>>

LockBody(t) ==
  /\ At(t, "lock")
  /\ \/ Nest(t)
     \/ owner = t /\ type = "ERRORCHECK" /\ Refuse(t)
     \/ /\ owner # t \/ type = "NORMAL"
        /\ IF lock = 0 THEN Acquire(t) ELSE EnqueueSelf(t)

(* Blocked threads leave the CPU; a thread is back here when it was woken. *)
Park(t) ==
  /\ At(t, "park")
  /\ scheduler_schedule(state, ready)
  /\ Goto(t, "relock")
  /\ UNCHANGED <<mutexVars, held>>

Relock(t) ==
  /\ At(t, "relock")
  /\ IF lock = 0 THEN Acquire(t) ELSE EnqueueSelf(t)

TryBody(t) ==
  /\ At(t, "try")
  /\ \/ Nest(t)
     \/ owner = t /\ type = "ERRORCHECK" /\ Refuse(t)
     \/ /\ owner # t \/ type = "NORMAL"
        /\ IF lock = 0 THEN Acquire(t) ELSE Refuse(t)

(* Mutant: the waiter woken is not unlinked from the queue.                *)
ReleaseKeepsHead(t) ==
  /\ lock' = 0
  /\ owner' = None
  /\ recursion_count' = 0
  /\ scheduler_unblock(Woken(waiters))
  /\ held' = [held EXCEPT ![t] = IF @ = 0 THEN 0 ELSE @ - 1]
  /\ UNCHANGED <<type, waiters, has_queue, initialized, pc, mode>>

(* The release common to the last unlock and to a plain one.               *)
Release(t) ==
  /\ lock' = 0
  /\ owner' = None
  /\ recursion_count' = 0
  /\ scheduler_unblock(Woken(waiters))
  /\ waiters' = AfterWake(waiters)
  /\ held' = [held EXCEPT ![t] = IF @ = 0 THEN 0 ELSE @ - 1]
  /\ UNCHANGED <<type, has_queue, initialized, pc, mode>>

(* Mutant: the recursion count is not consulted on unlock.                 *)
UnlockFlat(t) ==
  /\ At(t, "user")
  /\ held[t] > 0
  /\ initialized
  /\ Release(t)

(* Mutant: unlock frees the mutex without waking a waiter.                 *)
UnlockNoWake(t) ==
  /\ At(t, "user")
  /\ held[t] > 0
  /\ initialized
  /\ lock' = 0
  /\ owner' = None
  /\ recursion_count' = 0
  /\ held' = [held EXCEPT ![t] = @ - 1]
  /\ UNCHANGED <<schedVars, type, waiters, has_queue, initialized, pc, mode>>

(* Mutant: unlock does not check the owner of an error-checking mutex.     *)
UnlockNoOwnerCheck(t) ==
  /\ At(t, "user")
  /\ held[t] > 0 \/ type = "ERRORCHECK"
  /\ initialized
  /\ Release(t)

(* The caller holds the mutex ("Must be called by thread that holds the    *)
(* lock", uthread.h) unless the type checks that: then a caller that does  *)
(* not gets EPERM.  A destroyed mutex refuses with EINVAL.                 *)
Unlock(t) ==
  /\ At(t, "user")
  /\ held[t] > 0 \/ type = "ERRORCHECK"
  /\ initialized
  /\ \/ type = "ERRORCHECK" /\ owner # t /\ Refuse(t)
     \/ /\ type = "RECURSIVE" /\ owner = t /\ recursion_count > 1
        /\ recursion_count' = recursion_count - 1
        /\ held' = [held EXCEPT ![t] = @ - 1]
        /\ UNCHANGED <<schedVars, lock, owner, type, waiters, has_queue,
                       initialized, pc, mode>>
     \/ /\ ~(type = "RECURSIVE" /\ owner = t /\ recursion_count > 1)
        /\ type = "ERRORCHECK" => owner = t
        /\ Release(t)

(* uthread_mutex_destroy on a mutex that is free and has no queued waiter. *)
(* It blocks no signal; it is one step because the program begins no call  *)
(* on the mutex before it returns.  A thread already in a lock call that a *)
(* tick lets run between the tests and the end leaves the same state as    *)
(* one that runs after the end: it takes the mutex or, in no queue, sleeps.*)
Destroy(t) ==
  /\ At(t, "user")
  /\ initialized
  /\ lock = 0
  /\ waiters = <<>>
  /\ has_queue' = FALSE
  /\ initialized' = FALSE
  /\ UNCHANGED <<schedVars, lock, owner, recursion_count, type, waiters, pc, held, mode>>

(* uthread_mutex_init of a mutex nobody uses; ok is the malloc.            *)
MutexInit(t) ==
  /\ At(t, "user")
  /\ ~initialized
  /\ \A u \in Thread : pc[u] = "user" /\ held[u] = 0
  /\ \E ok \in BOOLEAN : has_queue' = ok /\ initialized' = ok
  /\ type' \in MutexTypes
  /\ lock' = 0
  /\ owner' = None
  /\ recursion_count' = 0
  /\ waiters' = <<>>
  /\ UNCHANGED <<schedVars, mode, pc, held>>

Yield(t) ==
  /\ At(t, "user")
  /\ uthread_yield(t)
  /\ UNCHANGED <<mutexVars, pc, held>>

(* SIGALRM reaches t wherever it is not blocked.                           *)
Tick(t) ==
  /\ pc[t] = "park" => ParkTicks
  /\ scheduler_tick(t)
  /\ UNCHANGED <<mutexVars, pc, held>>

Step(t) ==
  \/ LockCall(t) \/ TryCall(t) \/ LazyInit(t) \/ LockBody(t) \/ TryBody(t)
  \/ Park(t) \/ Relock(t) \/ Unlock(t) \/ Destroy(t) \/ MutexInit(t)
  \/ Yield(t) \/ Tick(t)

Next == \E t \in Thread : Step(t)

Spec == Init /\ [][Next]_vars

(* Fairness.  A thread dispatched again and again gets on with its library *)
(* call: ticks are at least 1 ms apart (uthread_set_timeslice), far longer *)
(* than such a step.  A program thread does not spin for ever without      *)
(* yielding.  The policy does not pass over a ready thread for ever, which *)
(* is Round-Robin's FIFO order.                                            *)
Library(t) == LazyInit(t) \/ LockBody(t) \/ TryBody(t) \/ Park(t) \/ Relock(t)

Dispatched(t) == Next /\ current # t /\ current' = t

FairSpec ==
  /\ Spec
  /\ \A t \in Thread : /\ SF_vars(Library(t))
                       /\ WF_vars(Yield(t))
                       /\ SF_vars(Dispatched(t))
-----------------------------------------------------------------------------
(* At most one thread is between a lock call that returned success and the *)
(* matching unlock: uthread_mutex_lock, trylock and unlock keep the        *)
(* critical sections of their callers apart.                               *)
MutualExclusion ==
  \A t, u \in Thread : held[t] > 0 /\ held[u] > 0 => t = u

Depth == IF owner = None THEN 0 ELSE held[owner]

Contract == INSTANCE AbstractLock
              WITH Client <- Thread, Nobody <- None, holder <- owner, depth <- Depth

(* The owner field of the mutex is a lock in the abstract sense, and the   *)
(* number of successful lock calls its owner has not yet undone is that    *)
(* lock's depth: no path of mutex.c hands the mutex over, nests it or      *)
(* frees it otherwise.                                                     *)
ImplementsLock == Contract!Spec

Blocked == {t \in Thread : pc[t] = "relock" /\ state[t] = "BLOCKED"}

Retrying == {t \in Thread : pc[t] = "relock" /\ t \in ready \cup {current}}

(* Whenever a mutex set up by uthread_mutex_init is free and a thread is   *)
(* blocked in uthread_mutex_lock, some waiter has been woken and is on its *)
(* way to retest the lock: unlock's single wake_one is never lost, however *)
(* lock calls barge in before the woken thread runs.                       *)
NoLostWakeup == mode = "init" /\ lock = 0 /\ Blocked # {} => Retrying # {}

(* The next/prev links of a thread serve the run queue and the wait queues *)
(* alike, so uthread_mutex_lock must never leave a thread in both, nor     *)
(* twice in waiters.                                                       *)
OneQueue ==
  /\ Members(waiters) \cap ready = {}
  /\ Distinct(waiters)

(* The lock word, the owner field and the program's own account of who     *)
(* holds the mutex agree after every step of mutex.c, and the recursion    *)
(* count is exactly the number of unlocks still due.  This is the          *)
(* inductive invariant behind MutualExclusion and ImplementsLock.          *)
Ownership ==
  /\ lock = IF owner = None THEN 0 ELSE 1
  /\ \A t \in Thread : held[t] > 0 <=> owner = t
  /\ owner # None =>
       held[owner] = IF type = "RECURSIVE" THEN recursion_count ELSE 1

Waiting(t) == pc[t] \in {"park", "relock"}

WaitQueueOK ==
  /\ current \notin ready
  /\ \A t \in ready : state[t] = "READY"
  /\ \A t \in Members(waiters) :
       /\ Waiting(t) /\ state[t] = "BLOCKED" /\ t \notin ready
       /\ t = current => pc[t] = "park"
  /\ Distinct(waiters)
  /\ has_queue <=> initialized
  /\ \A t \in Thread :
       /\ pc[t] \notin {"lock_alloc", "try_alloc"}
       /\ pc[t] = "park" => t = current /\ lock = 1
       /\ t = current /\ pc[t] # "park" => state[t] # "BLOCKED"
       /\ Waiting(t) /\ state[t] = "BLOCKED" =>
            IF initialized THEN t \in Members(waiters) ELSE lock = 1
  /\ lock = 0 /\ waiters # <<>> => Retrying # {}

(* On a mutex set up by uthread_mutex_init, who waits is queued, who is    *)
(* queued waits, and a free mutex with a queue has a woken thread under    *)
(* way; a destroyed mutex that still strands a thread is never free again. *)
(* This is the inductive invariant behind NoLostWakeup and OneQueue.       *)
QueueDiscipline == mode = "init" => WaitQueueOK

(* A free mutex set up by uthread_mutex_init that has blocked threads is   *)
(* eventually taken again: the waiter that unlock woke reaches the loop in *)
(* uthread_mutex_lock.                                                     *)
HandOver == (mode = "init" /\ lock = 0 /\ Blocked # {}) ~> lock = 1
=============================================================================
