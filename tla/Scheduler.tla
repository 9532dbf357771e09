----------------------------- MODULE Scheduler -----------------------------
(***************************************************************************)
(* The scheduler core of LibUThread (src/src/scheduler.c): one CPU, one    *)
(* current thread, the state field of every thread, and the run structure  *)
(* of the policy seen through the scheduler_ops interface of internal.h.   *)
(*                                                                         *)
(* The run structure is the set "ready" of threads linked in it, and       *)
(* dequeue may return any of them: what holds here holds for Round-Robin,  *)
(* Priority and CFS alike.  Once a thread is dispatched to Idle nothing    *)
(* happens any more: idle_thread is zeroed by uthread_init and its context *)
(* is never made, so swapcontext to it has no defined continuation.        *)
(***************************************************************************)
EXTENDS Threads, Naturals, Sequences

VARIABLE ready \* threads linked in the run structure of the policy

schedVars == <<current, state, ready>>

SchedTypeOK ==
  /\ current \in Thread \cup {Idle}
  /\ state \in [Thread -> ThreadState]
  /\ ready \in SUBSET Thread

SchedInit ==
  /\ current \in Thread
  /\ ready = Thread \ {current}
  /\ state = [t \in Thread |-> IF t = current THEN "RUNNING" ELSE "READY"]

-----------------------------------------------------------------------------
(* Wait queues: FIFO lists of blocked threads, woken from the head.        *)

wait_queue_add(q, t) == Append(q, t)

Woken(q) == IF q = <<>> THEN {} ELSE {Head(q)}

AfterWake(q) == IF q = <<>> THEN <<>> ELSE Tail(q)

Members(q) == {q[i] : i \in 1 .. Len(q)}

Distinct(q) == \A i, j \in 1 .. Len(q) : q[i] = q[j] => i = j

(* Nothing is unlinked from a queue that t is not blocked in.              *)
wait_queue_remove_specific(q, t) ==
  LET k == CHOOSE i \in 1 .. Len(q) : q[i] = t IN
  IF t \in Members(q) THEN SubSeq(q, 1, k - 1) \o SubSeq(q, k + 1, Len(q)) ELSE q

-----------------------------------------------------------------------------
(* Dispatching.  st and rdy are the states and the run structure at the    *)
(* point where the caller enters scheduler_schedule().  A thread handed    *)
(* the CPU it already has keeps the state it came with.                    *)

Dequeue(rdy) == IF rdy = {} THEN {Idle} ELSE rdy

SwitchStates(st, next) ==
  [t \in Thread |-> IF t = next THEN "RUNNING"
                   ELSE IF t = current /\ st[t] = "RUNNING" THEN "READY" ELSE st[t]]

scheduler_schedule(st, rdy) ==
  \E next \in Dequeue(rdy) :
    /\ ready' = rdy \ {next}
    /\ current' = next
    /\ state' = IF next = current THEN st ELSE SwitchStates(st, next)

(* Makes the threads of T ready; the caller keeps the CPU.                 *)
scheduler_unblock(T) ==
  /\ state' = [t \in Thread |-> IF t \in T THEN "READY" ELSE state[t]]
  /\ ready' = ready \cup T
  /\ UNCHANGED current

(* uthread_yield and scheduler_yield: only a thread whose state is RUNNING *)
(* goes back to the run structure.                                         *)
uthread_yield(t) ==
  /\ current = t
  /\ IF state[t] = "RUNNING"
       THEN scheduler_schedule([state EXCEPT ![t] = "READY"], ready \cup {t})
       ELSE scheduler_schedule(state, ready)

(* The SIGALRM handler preempting t.  Every should_preempt answers true    *)
(* only when the run structure is not empty; when it answers false the     *)
(* tick changes nothing modelled here.                                     *)
scheduler_tick(t) ==
  /\ current = t
  /\ ready # {}
  /\ scheduler_schedule([state EXCEPT ![t] = "READY"], ready \cup {t})

(* The running thread goes to sleep on some wait queue.                    *)
scheduler_block(t) ==
  /\ current = t
  /\ scheduler_schedule([state EXCEPT ![t] = "BLOCKED"], ready)

(* The running thread wakes another.                                       *)
Wake(t) ==
  /\ current = t
  /\ \E u \in Thread : state[u] = "BLOCKED" /\ scheduler_unblock({u})

(* The running thread ends and may wake the thread that joins it.          *)
uthread_exit(t) ==
  /\ current = t
  /\ \E J \in SUBSET {u \in Thread : state[u] = "BLOCKED"} :
       /\ \A u, v \in J : u = v
       /\ scheduler_schedule([u \in Thread |-> IF u = t THEN "TERMINATED"
                                 ELSE IF u \in J THEN "READY" ELSE state[u]],
                             (ready \ {t}) \cup J)

SchedNext ==
  \E t \in Thread :
    \/ uthread_yield(t) \/ scheduler_tick(t) \/ scheduler_block(t)
    \/ Wake(t) \/ uthread_exit(t)

(* What every policy must implement, and all that the modules built on     *)
(* this one assume of it.                                                  *)
SchedSpec == SchedInit /\ [][SchedNext]_schedVars

(* The running thread is not linked in the run structure, and what is      *)
(* linked there is READY: part of the inductive invariants of the modules  *)
(* built on this one.                                                      *)
RunStructureOK ==
  /\ current \notin ready
  /\ \A t \in ready : state[t] = "READY"
=============================================================================
