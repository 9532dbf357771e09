----------------------------- MODULE Semaphore -----------------------------
(***************************************************************************)
(* src/src/semaphore.c: one counting semaphore shared by all threads.      *)
(*                                                                         *)
(* pc[t] is "user" outside the library, "park" between the                 *)
(* preemption_enable() of the wait loop and its scheduler_schedule(), and  *)
(* "retry" after that call.  The sections in between run with SIGALRM      *)
(* blocked, one action each; a call's test of initialized comes before its *)
(* section and is taken together with it, since the program does not       *)
(* destroy a semaphore while another thread begins a call on it (Destroy). *)
(* sem->waiters is NULL exactly while initialized is FALSE.                *)
(***************************************************************************)
EXTENDS Scheduler, Integers, FiniteSets

CONSTANTS InitialValues, \* values uthread_sem_init may be given
          Word,          \* the number of values of an int, 2^32
          MaxSupply,     \* bound on the initial value plus the posts
          TimedWaits,    \* TRUE: the program calls uthread_sem_timedwait
          ParkTicks      \* TRUE: the timer may also fire at pc "park"

ASSUME SemaphoreAssumption ==
  /\ Word \in Nat \ {0} /\ Word % 2 = 0
  /\ InitialValues \subseteq 0 .. Word - 1
  /\ MaxSupply \in Nat
  /\ TimedWaits \in BOOLEAN
  /\ ParkTicks \in BOOLEAN
  /\ IsFiniteSet(Thread)

VARIABLES value,       \* sem->value
          waiters,     \* *sem->waiters
          initialized, \* sem->initialized
          pc,
          timed,       \* the wait of t has a deadline
          expired,     \* get_time_ns() has reached that deadline
          supply,      \* initial value, as an int, plus posts
          taken,       \* waits and trywaits that returned success
          stranded     \* units whose wake-up a wait that timed out used up

semVars == <<value, waiters, initialized>>
vars == <<schedVars, semVars, pc, timed, expired, supply, taken, stranded>>

TypeOK ==
  /\ SchedTypeOK
  /\ value \in Int
  /\ waiters \in Seq(Thread)
  /\ initialized \in BOOLEAN
  /\ pc \in [Thread -> {"user", "park", "retry"}]
  /\ timed \in [Thread -> BOOLEAN]
  /\ expired \in [Thread -> BOOLEAN]
  /\ supply \in Int
  /\ taken \in Nat
  /\ stranded \in Nat

INT_MAX == Word \div 2 - 1

(* The int with the bits of n: the cast of uthread_sem_init, which makes a *)
(* large unsigned value negative, and the increment of an int, which the   *)
(* build lets wrap.                                                        *)
ToInt(n) == ((n + Word \div 2) % Word) - Word \div 2

Init ==
  /\ SchedInit
  /\ \E v \in InitialValues : value = ToInt(v)
  /\ waiters = <<>>
  /\ initialized = TRUE
  /\ pc = [t \in Thread |-> "user"]
  /\ timed = [t \in Thread |-> FALSE]
  /\ expired = [t \in Thread |-> FALSE]
  /\ supply = value
  /\ taken = 0
  /\ stranded = 0

At(t, label) == current = t /\ pc[t] = label

Goto(t, label) == pc' = [pc EXCEPT ![t] = label]

-----------------------------------------------------------------------------
AtMost(n, bound) == IF n < bound THEN n ELSE bound

AtLeast(n, bound) == IF n > bound THEN n ELSE bound

(* The wait loop is left with value > 0: one unit is taken.                *)
Take(t) ==
  /\ value' = value - 1
  /\ taken' = taken + 1
  /\ stranded' = AtMost(stranded, value - 1)
  /\ Goto(t, "user")
  /\ UNCHANGED <<schedVars, waiters, initialized, supply>>

(* One turn of the wait loop up to preemption_enable(); on a destroyed     *)
(* semaphore wait_queue_add(NULL, self) does nothing.                      *)
EnqueueSelf(t) ==
  /\ state' = [state EXCEPT ![t] = "BLOCKED"]
  /\ waiters' = IF initialized THEN wait_queue_add(waiters, t) ELSE waiters
  /\ Goto(t, "park")
  /\ UNCHANGED <<current, ready, value, initialized, supply, taken, stranded>>

(* UTHREAD_ETIMEDOUT; a thread still queued is unlinked, one that a post   *)
(* has woken leaves its unit to nobody.                                    *)
TimeOut(t) ==
  /\ waiters' = wait_queue_remove_specific(waiters, t)
  /\ stranded' = IF pc[t] = "retry" /\ t \notin Members(waiters)
                   THEN AtMost(stranded + 1, AtLeast(value, 0)) ELSE stranded
  /\ Goto(t, "user")
  /\ UNCHANGED <<schedVars, value, initialized, supply, taken>>

Wait(t) ==
  /\ At(t, "user")
  /\ initialized
  /\ timed' = [timed EXCEPT ![t] = FALSE]
  /\ expired' = [expired EXCEPT ![t] = FALSE]
  /\ IF value > 0 THEN Take(t) ELSE EnqueueSelf(t)

(* late says that the deadline has passed when the call begins; it counts  *)
(* only when there is no unit to take.                                     *)
TimedWait(t) ==
  /\ TimedWaits
  /\ At(t, "user")
  /\ initialized
  /\ timed' = [timed EXCEPT ![t] = TRUE]
  /\ \E late \in BOOLEAN :
       /\ expired' = [expired EXCEPT ![t] = late]
       /\ IF value > 0 THEN Take(t)
          ELSE IF late THEN TimeOut(t) ELSE EnqueueSelf(t)

TryWait(t) ==
  /\ At(t, "user")
  /\ initialized
  /\ value > 0
  /\ Take(t)
  /\ UNCHANGED <<timed, expired>>

Park(t) ==
  /\ At(t, "park")
  /\ scheduler_schedule(state, ready)
  /\ Goto(t, "retry")
  /\ UNCHANGED <<semVars, timed, expired, supply, taken, stranded>>

(* Mutant: the while of uthread_sem_wait is an if.                         *)
RetryUnchecked(t) ==
  /\ At(t, "retry")
  /\ Take(t)
  /\ UNCHANGED <<timed, expired>>

(* Back from scheduler_schedule(): a passed deadline is looked at before   *)
(* the value.                                                              *)
Retry(t) ==
  /\ At(t, "retry")
  /\ IF expired[t] THEN TimeOut(t)
     ELSE IF value > 0 THEN Take(t) ELSE EnqueueSelf(t)
  /\ UNCHANGED <<timed, expired>>

(* Mutant: post wakes a waiter only when the value leaves zero.            *)
PostWakeAtZero(t) ==
  /\ At(t, "user")
  /\ initialized
  /\ supply < MaxSupply
  /\ value' = ToInt(value + 1)
  /\ supply' = supply + 1
  /\ scheduler_unblock(IF value = 0 THEN Woken(waiters) ELSE {})
  /\ waiters' = IF value = 0 THEN AfterWake(waiters) ELSE waiters
  /\ UNCHANGED <<initialized, pc, timed, expired, taken, stranded>>

Post(t) ==
  /\ At(t, "user")
  /\ initialized
  /\ supply < MaxSupply
  /\ value' = ToInt(value + 1)
  /\ supply' = supply + 1
  /\ scheduler_unblock(Woken(waiters))
  /\ waiters' = AfterWake(waiters)
  /\ UNCHANGED <<initialized, pc, timed, expired, taken, stranded>>

(* uthread_sem_destroy when no thread is queued.  It blocks no signal; it  *)
(* is one step because the program begins no call on the semaphore before  *)
(* it returns.  A woken waiter that a tick lets run in the middle of it    *)
(* leaves the same state as one that runs after it: if it has to wait      *)
(* again it is in no queue.                                                *)
Destroy(t) ==
  /\ At(t, "user")
  /\ initialized
  /\ waiters = <<>>
  /\ initialized' = FALSE
  /\ UNCHANGED <<schedVars, value, waiters, pc, timed, expired, supply, taken, stranded>>

(* uthread_sem_init of a semaphore nobody uses; ok is the malloc.          *)
SemInit(t) ==
  /\ At(t, "user")
  /\ ~initialized
  /\ \A u \in Thread : pc[u] = "user"
  /\ \E v \in InitialValues : value' = ToInt(v)
  /\ \E ok \in BOOLEAN : initialized' = ok
  /\ waiters' = <<>>
  /\ supply' = value'
  /\ taken' = 0
  /\ stranded' = 0
  /\ UNCHANGED <<schedVars, pc, timed, expired>>

(* The clock reaches the deadline of a timed wait.                         *)
Expire(t) ==
  /\ pc[t] # "user"
  /\ timed[t]
  /\ ~expired[t]
  /\ expired' = [expired EXCEPT ![t] = TRUE]
  /\ UNCHANGED <<schedVars, semVars, pc, timed, supply, taken, stranded>>

Yield(t) ==
  /\ At(t, "user")
  /\ uthread_yield(t)
  /\ UNCHANGED <<semVars, pc, timed, expired, supply, taken, stranded>>

Tick(t) ==
  /\ pc[t] = "park" => ParkTicks
  /\ scheduler_tick(t)
  /\ UNCHANGED <<semVars, pc, timed, expired, supply, taken, stranded>>

Step(t) ==
  \/ Wait(t) \/ TimedWait(t) \/ TryWait(t) \/ Park(t) \/ Retry(t) \/ Post(t)
  \/ Destroy(t) \/ SemInit(t) \/ Yield(t) \/ Tick(t)

Next == \E t \in Thread : Step(t) \/ Expire(t)

Spec == Init /\ [][Next]_vars

(* Fairness as in Mutex.                                                   *)
Dispatched(t) == Next /\ current # t /\ current' = t

FairSpec ==
  /\ Spec
  /\ \A t \in Thread : /\ SF_vars(Park(t) \/ Retry(t))
                       /\ WF_vars(Yield(t))
                       /\ SF_vars(Dispatched(t))

-----------------------------------------------------------------------------
(* No wait or trywait succeeds without a unit to take, however many        *)
(* threads post and wait at once: up to the width of an int value is what  *)
(* was supplied less what was taken, and no wait has taken it below zero.  *)
(* Past INT_MAX posts the unchecked increment makes value negative and the *)
(* units are there again when it has come round.                           *)
UnitsConserved ==
  /\ value = ToInt(supply - taken)
  /\ supply <= INT_MAX => value = supply - taken /\ (taken > 0 => value >= 0)

Blocked == {t \in Thread : pc[t] # "user" /\ state[t] = "BLOCKED"}

Woke == {t \in Thread : pc[t] = "retry" /\ t \in ready \cup {current}}

(* While threads sleep on the semaphore, every unit it holds is promised:  *)
(* as many threads have been woken and are on their way to the value test  *)
(* of uthread_sem_wait as there are units, apart from units whose wake-up  *)
(* went to a uthread_sem_timedwait that timed out.                         *)
UnitsPromised == waiters # <<>> => Cardinality(Woke) + stranded >= value

(* Who is queued sleeps in a wait and is queued once; who runs does not    *)
(* sleep, unless it is about to give the CPU up.  With UnitsPromised this  *)
(* is inductive.                                                           *)
WaitQueueOK ==
  /\ RunStructureOK
  /\ Distinct(waiters)
  /\ \A t \in Members(waiters) : pc[t] # "user" /\ state[t] = "BLOCKED"
  /\ \A t \in Thread : pc[t] = "park" => t = current
  /\ current \in Thread => (state[current] = "BLOCKED" <=> pc[current] = "park")

(* A unit next to a sleeping thread does not stay there: a woken thread    *)
(* comes back to the loop of uthread_sem_wait and takes one, unless a      *)
(* uthread_sem_timedwait took the wake-up and timed out.                   *)
PostDelivered ==
  (value > stranded /\ Blocked # {}) ~> (value <= stranded \/ Blocked = {})
=============================================================================
