----------------------------- MODULE Lifecycle -----------------------------
(***************************************************************************)
(* src/src/uthread.c: creation, exit, join, detach and reaping of threads, *)
(* the table of registered threads, uthread_init and uthread_shutdown.     *)
(*                                                                         *)
(* pc[t] is "user" in program code; "join" in uthread_join after the       *)
(* unprotected test of the detached flag and before preemption_disable();  *)
(* "joining" when uthread_join has given up the CPU; "exiting" in          *)
(* uthread_exit before its scheduler_schedule().  All other code runs with *)
(* SIGALRM blocked.  A thread structure that has been freed is never       *)
(* reused, and thread_cleanup and cleanup handlers, which nothing          *)
(* registers, are left out.                                                *)
(***************************************************************************)
EXTENDS Scheduler, FiniteSets

CONSTANTS MaxThreads, \* UTHREAD_MAX_THREADS
          Programs,   \* how the program may use thread handles
          None        \* NULL as a joiner

ASSUME LifecycleAssumption ==
  /\ MaxThreads \in Nat \ {0}
  /\ Programs \subseteq {"owner", "free"}
  /\ None \notin Thread

VARIABLES mem,         \* the thread structure: "unused", "live" or "freed"
          all_threads, \* g_scheduler.all_threads
          main,        \* the thread that owns the process stack
          detached, exited, joiner,
          pc,
          target,      \* the thread t is joining
          creator,     \* the thread that created t
          program,     \* the discipline of the program, see MayHandle
          initialized, \* g_scheduler.initialized
          aborted      \* an assertion has ended the process

flags == <<detached, exited, joiner>>
globals == <<main, program, initialized, aborted>>
vars == <<schedVars, mem, all_threads, flags, pc, target, creator, globals>>

TypeOK ==
  /\ SchedTypeOK
  /\ mem \in [Thread -> {"unused", "live", "freed"}]
  /\ all_threads \in SUBSET Thread
  /\ main \in Thread
  /\ program \in {"owner", "free"}
  /\ detached \in [Thread -> BOOLEAN]
  /\ exited \in [Thread -> BOOLEAN]
  /\ joiner \in [Thread -> Thread \cup {None}]
  /\ pc \in [Thread -> {"user", "join", "joining", "exiting"}]
  /\ target \in [Thread -> Thread \cup {None}]
  /\ creator \in [Thread -> Thread \cup {None}]
  /\ initialized \in BOOLEAN
  /\ aborted \in BOOLEAN

(* After uthread_init: the main thread runs and is registered.             *)
Init ==
  /\ main \in Thread
  /\ program \in Programs
  /\ current = main
  /\ ready = {}
  /\ state = [t \in Thread |-> IF t = main THEN "RUNNING" ELSE "READY"]
  /\ mem = [t \in Thread |-> IF t = main THEN "live" ELSE "unused"]
  /\ all_threads = {main}
  /\ detached = [t \in Thread |-> FALSE]
  /\ exited = [t \in Thread |-> FALSE]
  /\ joiner = [t \in Thread |-> None]
  /\ pc = [t \in Thread |-> "user"]
  /\ target = [t \in Thread |-> None]
  /\ creator = [t \in Thread |-> None]
  /\ initialized = TRUE
  /\ aborted = FALSE

At(t, label) == ~aborted /\ current = t /\ pc[t] = label

Goto(t, label) == pc' = [pc EXCEPT ![t] = label]

(* The program uses a handle until a join or detach of it has succeeded.   *)
(* In an "owner" program only its creator joins or detaches a thread, and  *)
(* detaches it only when it has exited; in a "free" one anyone does.       *)
MayHandle(t, u) ==
  u # t /\ mem[u] = "live" /\ (program = "free" \/ creator[u] = t)

MayDetach(t, u) == MayHandle(t, u) /\ (program = "free" \/ exited[u])

-----------------------------------------------------------------------------
scheduler_add_thread(u) ==
  /\ Cardinality(all_threads) < MaxThreads
  /\ all_threads' = all_threads \cup {u}
  /\ UNCHANGED aborted

(* A full table trips the assertion in scheduler_add_thread.               *)
Create(t) ==
  /\ At(t, "user")
  /\ initialized
  /\ \E u \in Thread, d \in BOOLEAN :
       /\ mem[u] = "unused"
       /\ d => program = "free"
       /\ \/ /\ scheduler_add_thread(u)
             /\ mem' = [mem EXCEPT ![u] = "live"]
             /\ detached' = [detached EXCEPT ![u] = d]
             /\ creator' = [creator EXCEPT ![u] = t]
             /\ scheduler_unblock({u})
          \/ /\ Cardinality(all_threads) = MaxThreads
             /\ aborted' = TRUE
             /\ UNCHANGED <<schedVars, mem, all_threads, detached, creator>>
  /\ UNCHANGED <<exited, joiner, pc, target, main, program, initialized>>

(* scheduler_remove_thread and thread_free.                                *)
Free(u) ==
  /\ all_threads' = all_threads \ {u}
  /\ mem' = [mem EXCEPT ![u] = "freed"]

(* uthread_join up to preemption_disable().                                *)
JoinCall(t) ==
  /\ At(t, "user")
  /\ initialized
  /\ \E u \in Thread :
       /\ MayHandle(t, u)
       /\ ~detached[u]
       /\ target' = [target EXCEPT ![t] = u]
  /\ Goto(t, "join")
  /\ UNCHANGED <<schedVars, mem, all_threads, flags, creator, globals>>

(* One turn of the loop: reap the target or sleep until it exits.  What    *)
(* happens with a target already freed is undefined: no step.              *)
JoinLoop(t) ==
  LET u == target[t] IN
  \/ /\ exited[u]
     /\ Free(u)
     /\ Goto(t, "user")
     /\ UNCHANGED <<schedVars, joiner>>
  \/ /\ ~exited[u]
     /\ joiner' = [joiner EXCEPT ![u] = t]
     /\ scheduler_schedule([state EXCEPT ![t] = "BLOCKED"], ready)
     /\ Goto(t, "joining")
     /\ UNCHANGED <<mem, all_threads>>

JoinBody(t) ==
  /\ At(t, "join")
  /\ mem[target[t]] = "live"
  /\ LET u == target[t] IN
       \/ /\ joiner[u] \notin {None, t}
          /\ Goto(t, "user")
          /\ UNCHANGED <<schedVars, mem, all_threads, joiner>>
       \/ joiner[u] \in {None, t} /\ JoinLoop(t)
  /\ UNCHANGED <<detached, exited, target, creator, globals>>

JoinResume(t) ==
  /\ At(t, "joining")
  /\ mem[target[t]] = "live"
  /\ JoinLoop(t)
  /\ UNCHANGED <<detached, exited, target, creator, globals>>

(* Mutant: detach of an exited thread frees it without unregistering it.   *)
DetachKeepsSlot(t) ==
  /\ At(t, "user")
  /\ initialized
  /\ \E u \in Thread :
       /\ MayDetach(t, u)
       /\ ~detached[u] /\ joiner[u] = None
       /\ detached' = [detached EXCEPT ![u] = TRUE]
       /\ mem' = IF exited[u] THEN [mem EXCEPT ![u] = "freed"] ELSE mem
  /\ UNCHANGED <<schedVars, all_threads, exited, joiner, pc, target, creator, globals>>

Detach(t) ==
  /\ At(t, "user")
  /\ initialized
  /\ \E u \in Thread :
       /\ MayDetach(t, u)
       /\ ~detached[u] /\ joiner[u] = None
       /\ detached' = [detached EXCEPT ![u] = TRUE]
       /\ IF exited[u] THEN Free(u) ELSE UNCHANGED <<mem, all_threads>>
  /\ UNCHANGED <<schedVars, exited, joiner, pc, target, creator, globals>>

(* Mutant: uthread_exit forgets the joiner.                                *)
ExitNoWake(t) ==
  /\ At(t, "user")
  /\ initialized
  /\ exited' = [exited EXCEPT ![t] = TRUE]
  /\ state' = [state EXCEPT ![t] = "TERMINATED"]
  /\ IF detached[t] THEN Free(t) ELSE UNCHANGED <<mem, all_threads>>
  /\ Goto(t, "exiting")
  /\ UNCHANGED <<current, ready, detached, joiner, target, creator, globals>>

(* Mutant: uthread_exit frees every thread as if it were detached.         *)
ExitAlwaysFrees(t) ==
  /\ At(t, "user")
  /\ initialized
  /\ exited' = [exited EXCEPT ![t] = TRUE]
  /\ state' = [u \in Thread |-> IF u = t THEN "TERMINATED"
                                ELSE IF u = joiner[t] THEN "READY" ELSE state[u]]
  /\ ready' = (ready \ {t}) \cup ({joiner[t]} \ {None})
  /\ Free(t)
  /\ Goto(t, "exiting")
  /\ UNCHANGED <<current, detached, joiner, target, creator, globals>>

(* uthread_exit up to scheduler_schedule(): the joiner is made ready, and  *)
(* a detached thread frees its own structure and stack.                    *)
Exit(t) ==
  /\ At(t, "user")
  /\ initialized
  /\ exited' = [exited EXCEPT ![t] = TRUE]
  /\ state' = [u \in Thread |-> IF u = t THEN "TERMINATED"
                                ELSE IF u = joiner[t] THEN "READY" ELSE state[u]]
  /\ ready' = (ready \ {t}) \cup ({joiner[t]} \ {None})
  /\ IF detached[t] THEN Free(t) ELSE UNCHANGED <<mem, all_threads>>
  /\ Goto(t, "exiting")
  /\ UNCHANGED <<current, detached, joiner, target, creator, globals>>

(* The last scheduler_schedule() of a thread that still has its stack.     *)
Dispatch(t) ==
  /\ At(t, "exiting")
  /\ mem[t] = "live"
  /\ scheduler_schedule(state, ready)
  /\ UNCHANGED <<mem, all_threads, flags, pc, target, creator, globals>>

(* uthread_shutdown by the thread on the process stack.                    *)
Shutdown(t) ==
  /\ At(t, "user")
  /\ initialized
  /\ t = main
  /\ mem' = [u \in Thread |-> IF u \in all_threads THEN "freed" ELSE mem[u]]
  /\ all_threads' = {}
  /\ ready' = {}
  /\ initialized' = FALSE
  /\ UNCHANGED <<current, state, flags, pc, target, creator, main, program, aborted>>

(* uthread_init after a shutdown: the caller gets a new main structure.    *)
Restart(t) ==
  /\ At(t, "user")
  /\ ~initialized
  /\ \E m \in Thread :
       /\ mem[m] = "unused"
       /\ main' = m
       /\ current' = m
       /\ state' = [state EXCEPT ![m] = "RUNNING"]
       /\ mem' = [mem EXCEPT ![m] = "live"]
       /\ all_threads' = {m}
  /\ ready' = {}
  /\ initialized' = TRUE
  /\ UNCHANGED <<flags, pc, target, creator, program, aborted>>

(* uthread_yield, and each turn of uthread_sleep.                          *)
Yield(t) ==
  /\ At(t, "user")
  /\ initialized
  /\ uthread_yield(t)
  /\ UNCHANGED <<mem, all_threads, flags, pc, target, creator, globals>>

Tick(t) ==
  /\ At(t, "user") \/ At(t, "join")
  /\ initialized
  /\ scheduler_tick(t)
  /\ UNCHANGED <<mem, all_threads, flags, pc, target, creator, globals>>

Step(t) ==
  \/ Create(t) \/ JoinCall(t) \/ JoinBody(t) \/ JoinResume(t) \/ Detach(t)
  \/ Exit(t) \/ Dispatch(t) \/ Shutdown(t) \/ Restart(t) \/ Yield(t) \/ Tick(t)

Next == \E t \in Thread : Step(t)

Spec == Init /\ [][Next]_vars

-----------------------------------------------------------------------------
(* A thread asleep in uthread_join whose target has exited has been made   *)
(* ready by uthread_exit: the termination is never missed, whatever ran    *)
(* between the test of exited and the sleep.                               *)
JoinerWoken ==
  initialized => \A t \in all_threads :
    pc[t] = "joining" /\ exited[target[t]] => t \in ready \cup {current}

(* The table of registered threads is exactly the set of allocated ones,   *)
(* whichever of join, detach, exit and shutdown frees a thread.            *)
TableExact == all_threads = {t \in Thread : mem[t] = "live"}

(* Nothing is used after it was freed.  The run structure only holds, and  *)
(* so the CPU is only ever given to, threads that are allocated and have   *)
(* not terminated, whatever the program detaches.  If only its creator     *)
(* joins or detaches a thread, and detaches it when it has exited, then a  *)
(* thread in uthread_join, its unprotected tests included, holds a handle  *)
(* to a structure that exists, and the stack under the CPU is allocated.   *)
UsedAlive ==
  initialized =>
    /\ \A t \in ready : mem[t] = "live" /\ ~exited[t]
    /\ program = "owner" =>
         /\ current \in Thread => mem[current] = "live"
         /\ \A t \in all_threads :
              pc[t] \in {"join", "joining"} => mem[target[t]] = "live"

(* A created thread is freed only when it has exited; uthread_shutdown     *)
(* "Waits for all threads to terminate".  The code breaks this: it frees   *)
(* every registered thread at once.                                        *)
ReapedAfterExit ==
  \A t \in Thread : creator[t] # None /\ mem[t] = "freed" => exited[t]

(* The parts of the inductive invariant.  What the run structure and the   *)
(* CPU hold is allocated, a thread has exited once it is in uthread_exit,  *)
(* and a structure not yet allocated is as Init leaves it.                 *)
Existing ==
  /\ ~initialized => all_threads = {}
  /\ \A t \in Thread : exited[t] <=> pc[t] = "exiting"
  /\ \A t \in Thread : mem[t] = "unused" => pc[t] = "user" /\ joiner[t] = None
  /\ \A t \in Thread : pc[t] \in {"join", "joining"} => target[t] \in Thread
  /\ \A t \in ready : mem[t] = "live" /\ ~exited[t]
  /\ current \in Thread => /\ mem[current] # "unused"
                           /\ initialized /\ ~exited[current] => mem[current] = "live"

(* Until its target exits, a thread asleep in uthread_join and the joiner  *)
(* field of its target point at each other.                                *)
JoinsPaired ==
  /\ \A t \in all_threads :
       pc[t] = "joining" /\ ~exited[target[t]] => joiner[target[t]] = t
  /\ \A u \in all_threads :
       ~exited[u] /\ joiner[u] # None =>
         /\ joiner[u] \in all_threads
         /\ pc[joiner[u]] = "joining" /\ target[joiner[u]] = u

(* What an "owner" program adds.                                           *)
Owned ==
  program = "owner" =>
    /\ \A t \in Thread : detached[t] => exited[t]
    /\ initialized /\ current \in Thread => mem[current] = "live"
    /\ \A t \in all_threads :
         pc[t] \in {"join", "joining"} =>
           creator[target[t]] = t /\ mem[target[t]] = "live"

LifeInv == TypeOK /\ TableExact /\ Existing /\ JoinsPaired /\ JoinerWoken /\ Owned
=============================================================================
