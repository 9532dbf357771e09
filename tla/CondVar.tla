------------------------------ MODULE CondVar ------------------------------
(***************************************************************************)
(* src/src/condvar.c: one condition variable, used with the mutex of       *)
(* module Mutex.                                                           *)
(*                                                                         *)
(* pc[t] has five more values: "cond_alloc" in a call that has read        *)
(* initialized and found it false; "cond_enter" in that call after the     *)
(* lazy initialisation, before its preemption_disable(); "cond_park"       *)
(* between the preemption_enable() of uthread_cond_wait and its            *)
(* scheduler_schedule(); "cond_check" at the same place in                 *)
(* uthread_cond_timedwait, before the clock is read; and "cond_sleep"      *)
(* after that scheduler_schedule().  Taking the mutex back is the same     *)
(* loop as in uthread_mutex_lock.  signal_seq, which decides nothing, is   *)
(* left out.                                                               *)
(***************************************************************************)
EXTENDS Mutex

CONSTANTS TimedWaits, \* TRUE: the program calls uthread_cond_timedwait
          CondModes   \* how the condition may be set up, as InitModes in Mutex

ASSUME CondVarAssumption ==
  TimedWaits \in BOOLEAN /\ CondModes \subseteq {"init", "static", "zero"}

VARIABLES cond_waiters,     \* *cond->waiters
          cond_has_queue,   \* cond->waiters is not NULL
          cond_initialized, \* cond->initialized
          cond_mode,        \* how the condition was set up last
          depth             \* lock calls to undo when t went to wait, 0 outside

condVars == <<cond_waiters, cond_has_queue, cond_initialized, cond_mode>>
allVars == <<vars, condVars, depth>>

InCond(t) == pc[t] \in {"cond_park", "cond_check", "cond_sleep"}

CondInitState ==
  /\ Init
  /\ cond_mode \in CondModes
  /\ cond_waiters = <<>>
  /\ cond_has_queue = (cond_mode = "init")
  /\ cond_initialized = (cond_mode # "zero")
  /\ depth = [t \in Thread |-> 0]

-----------------------------------------------------------------------------
(* A call on an uninitialised condition up to its malloc; which call it is *)
(* shows later.                                                            *)
CondCall(t) ==
  /\ At(t, "user")
  /\ ~cond_initialized
  /\ Goto(t, "cond_alloc")
  /\ UNCHANGED <<schedVars, mutexVars, held, condVars, depth>>

(* The lazy initialisation, decided on the initialized read at the call:   *)
(* a new queue, or ENOMEM with NULL left in waiters.                       *)
CondLazyInit(t) ==
  /\ At(t, "cond_alloc")
  /\ cond_waiters' = <<>>
  /\ \/ cond_has_queue' = TRUE /\ cond_initialized' = TRUE /\ Goto(t, "cond_enter")
     \/ cond_has_queue' = FALSE /\ Goto(t, "user") /\ UNCHANGED cond_initialized
  /\ UNCHANGED <<schedVars, mutexVars, held, cond_mode, depth>>

(* t begins the protected part of a call.                                  *)
InCall(t) == (At(t, "user") /\ cond_initialized) \/ At(t, "cond_enter")

(* Mutant: the mutex is released without waking one of its waiters.        *)
ReleaseNoWake(t) ==
  /\ state' = [state EXCEPT ![t] = "BLOCKED"]
  /\ UNCHANGED <<current, ready, waiters>>

(* The caller is queued and blocked; the mutex waiter woken becomes ready. *)
BlockAndWake(t) ==
  /\ state' = [u \in Thread |-> IF u = t THEN "BLOCKED"
                                ELSE IF u \in Woken(waiters) THEN "READY" ELSE state[u]]
  /\ ready' = ready \cup Woken(waiters)
  /\ waiters' = AfterWake(waiters)
  /\ UNCHANGED current

(* Both waits up to the first preemption_enable(); "must be locked"        *)
(* (uthread.h) is left to the caller.  The recursion count is not reset.   *)
CondWait(t) ==
  /\ InCall(t)
  /\ held[t] > 0
  /\ initialized
  /\ cond_waiters' = IF cond_has_queue THEN wait_queue_add(cond_waiters, t)
                     ELSE cond_waiters
  /\ lock' = 0
  /\ owner' = None
  /\ BlockAndWake(t)
  /\ depth' = [depth EXCEPT ![t] = held[t]]
  /\ held' = [held EXCEPT ![t] = 0]
  /\ \/ Goto(t, "cond_park")
     \/ TimedWaits /\ cond_has_queue /\ Goto(t, "cond_check")
  /\ UNCHANGED <<recursion_count, type, has_queue, initialized, mode,
                 cond_has_queue, cond_initialized, cond_mode>>

(* uthread_cond_timedwait without a queue: blocked_queue is NULL, both     *)
(* loops are passed at once, and the call returns in state BLOCKED.        *)
TimedWaitUnqueued(t) ==
  /\ InCall(t)
  /\ TimedWaits /\ ~cond_has_queue
  /\ held[t] > 0
  /\ initialized
  /\ BlockAndWake(t)
  /\ lock' = 1
  /\ owner' = t
  /\ recursion_count' = 1
  /\ held' = [held EXCEPT ![t] = 1]
  /\ Goto(t, "user")
  /\ UNCHANGED <<type, has_queue, initialized, mode, condVars, depth>>

CondPark(t) ==
  /\ At(t, "cond_park") \/ At(t, "cond_check")
  /\ scheduler_schedule(state, ready)
  /\ Goto(t, "cond_sleep")
  /\ UNCHANGED <<mutexVars, held, condVars, depth>>

(* The first turn of the mutex loop; depth is read when the wait returns.  *)
Reacquire(t) ==
  /\ IF lock = 0 THEN Acquire(t) ELSE EnqueueSelf(t)
  /\ depth' = IF lock = 0 THEN [depth EXCEPT ![t] = 0] ELSE depth

(* The deadline has passed when the clock is read: the thread leaves the   *)
(* condition and goes on with the state it has.                            *)
CondTimeout(t) ==
  /\ At(t, "cond_check")
  /\ cond_waiters' = wait_queue_remove_specific(cond_waiters, t)
  /\ Reacquire(t)
  /\ UNCHANGED <<cond_has_queue, cond_initialized, cond_mode>>

CondWoken(t) ==
  /\ At(t, "cond_sleep")
  /\ Reacquire(t)
  /\ UNCHANGED condVars

CondSignal(t) ==
  /\ InCall(t)
  /\ scheduler_unblock(Woken(cond_waiters))
  /\ cond_waiters' = AfterWake(cond_waiters)
  /\ Goto(t, "user")
  /\ UNCHANGED <<mutexVars, held, cond_has_queue, cond_initialized, cond_mode, depth>>

(* Mutant: broadcast wakes everybody but leaves the queue as it is.        *)
BroadcastKeepsQueue(t) ==
  /\ InCall(t)
  /\ scheduler_unblock(Members(cond_waiters))
  /\ Goto(t, "user")
  /\ UNCHANGED <<mutexVars, held, condVars, depth>>

CondBroadcast(t) ==
  /\ InCall(t)
  /\ scheduler_unblock(Members(cond_waiters))
  /\ cond_waiters' = <<>>
  /\ Goto(t, "user")
  /\ UNCHANGED <<mutexVars, held, cond_has_queue, cond_initialized, cond_mode, depth>>

(* uthread_cond_destroy of a condition without waiters.  It blocks no      *)
(* signal; see Destroy in Mutex.                                           *)
CondDestroy(t) ==
  /\ At(t, "user")
  /\ cond_initialized
  /\ cond_waiters = <<>>
  /\ cond_initialized' = FALSE
  /\ cond_has_queue' = FALSE
  /\ cond_mode' = "zero"
  /\ UNCHANGED <<vars, cond_waiters, depth>>

(* uthread_cond_init of a condition that is not initialised and that no    *)
(* thread is using; ok is the malloc.                                      *)
CondInit(t) ==
  /\ At(t, "user")
  /\ ~cond_initialized
  /\ \A u \in Thread : pc[u] \notin {"cond_alloc", "cond_enter"} /\ ~InCond(u)
  /\ \E ok \in BOOLEAN :
       /\ cond_initialized' = ok
       /\ cond_has_queue' = ok
       /\ cond_mode' = IF ok THEN "init" ELSE "zero"
  /\ cond_waiters' = <<>>
  /\ UNCHANGED <<vars, depth>>

(* A step of mutex.c.  The program does not destroy the mutex while a      *)
(* thread in a condition wait has yet to take it back.                     *)
MutexStep(t) ==
  /\ Step(t)
  /\ InCond(t) => ParkTicks \/ pc[t] = "cond_sleep"
  /\ (\E u \in Thread : InCond(u)) => initialized' = initialized
  /\ depth' = [u \in Thread |-> IF pc'[u] = "user" THEN 0 ELSE depth[u]]
  /\ UNCHANGED condVars

CondNext ==
  \E t \in Thread :
    \/ CondCall(t) \/ CondLazyInit(t) \/ CondWait(t) \/ TimedWaitUnqueued(t)
    \/ CondPark(t) \/ CondTimeout(t) \/ CondWoken(t)
    \/ CondSignal(t) \/ CondBroadcast(t) \/ CondDestroy(t) \/ CondInit(t)
    \/ MutexStep(t)

CondSpec == CondInitState /\ [][CondNext]_allVars

-----------------------------------------------------------------------------
(* Who sleeps in a wait on a condition set up by uthread_cond_init is in   *)
(* its queue, where a signal finds it.  The static initializer has no      *)
(* queue, and of two first users of a zeroed condition the second replaces *)
(* the queue of the first.                                                 *)
SleepersQueued ==
  cond_mode = "init" => \A t \in Thread :
    InCond(t) /\ state[t] = "BLOCKED" => t \in Members(cond_waiters)

(* A thread that sleeps in a condition wait can be found by a signal, and  *)
(* only such threads are in cond_waiters: once, in no other queue, from    *)
(* the release of the mutex until a signal takes them out.  "Atomically    *)
(* releases mutex and blocks."                                             *)
SleepersSignallable ==
  /\ SleepersQueued
  /\ \A t \in Members(cond_waiters) : InCond(t) /\ state[t] = "BLOCKED"
  /\ Distinct(cond_waiters)
  /\ Members(cond_waiters) \cap (ready \cup Members(waiters)) = {}

(* A free mutex with threads in its queue has a woken one on its way:      *)
(* uthread_cond_wait, which releases the mutex by itself, wakes a waiter   *)
(* as uthread_mutex_unlock does, however the mutex was initialised.        *)
MutexQueueServed == lock = 0 /\ waiters # <<>> => Retrying # {}

(* uthread_cond_wait "Reacquires mutex before returning": the caller gets  *)
(* back the mutex as it held it, to be unlocked as often as before.  With  *)
(* MaxDepth = 2 the code breaks this: a recursive mutex held twice comes   *)
(* back held once.                                                         *)
ReacquiresAsHeld ==
  [][\A t \in Thread : depth[t] > 0 /\ depth'[t] = 0 =>
       owner' = t /\ recursion_count' = depth[t]]_allVars

CondPC == PC \cup {"cond_alloc", "cond_enter", "cond_park", "cond_check", "cond_sleep"}

(* Still on the CPU with everything done but to give it up.                *)
Parking(t) == pc[t] \in {"park", "cond_park", "cond_check"}

(* The inductive invariant behind SleepersSignallable and                  *)
(* MutexQueueServed: who is in the queue of the mutex sleeps in a lock     *)
(* call, who is in the queue of the condition sleeps in a wait, and only   *)
(* a thread about to give the CPU up is queued and current.                *)
CondQueuesOK ==
  /\ SchedTypeOK /\ RunStructureOK
  /\ lock \in {0, 1}
  /\ pc \in [Thread -> CondPC]
  /\ waiters \in Seq(Thread) /\ Distinct(waiters)
  /\ \A t \in Members(waiters) : Waiting(t) /\ state[t] = "BLOCKED"
  /\ cond_waiters \in Seq(Thread)
  /\ \A t \in Thread : Parking(t) => t = current /\ state[t] = "BLOCKED"
  /\ current \in Members(waiters) \cup Members(cond_waiters) => Parking(current)
  /\ cond_mode = "init" =>
       /\ cond_has_queue /\ cond_initialized
       /\ \A t \in Thread : pc[t] \notin {"cond_alloc", "cond_enter"}
  /\ SleepersSignallable
  /\ MutexQueueServed

(* The inductive invariant behind SleepersQueued: only a condition without *)
(* a queue, or one in its first use, has calls that replace the queue.     *)
SleepersOK ==
  /\ state \in [Thread -> ThreadState]
  /\ pc \in [Thread -> CondPC]
  /\ cond_waiters \in Seq(Thread)
  /\ cond_mode = "init" =>
       /\ cond_has_queue /\ cond_initialized
       /\ \A t \in Thread : pc[t] \notin {"cond_alloc", "cond_enter"}
  /\ SleepersQueued

(* The inductive invariant behind what a wait returns with.                *)
DepthOK ==
  /\ pc \in [Thread -> CondPC]
  /\ held \in [Thread -> 0 .. MaxDepth]
  /\ depth \in [Thread -> 0 .. MaxDepth]
  /\ \A t \in Thread : pc[t] \notin {"user", "cond_alloc", "cond_enter"} => held[t] < MaxDepth
  /\ \A t \in Thread : depth[t] > 0 => InCond(t) \/ Waiting(t)
=============================================================================
