----------------------------- MODULE RoundRobin -----------------------------
(***************************************************************************)
(* The scheduler core of scheduler.c driving the Round-Robin policy of     *)
(* src/src/sched_rr.c: a FIFO run queue and a time slice per thread.       *)
(* Blocking stands for any wait of the library, waking for any wake-up.    *)
(***************************************************************************)
EXTENDS Threads, Integers, FiniteSets, SequencesExt

CONSTANT Slice \* g_scheduler.timeslice_ns, in units of the smallest tick

ASSUME RoundRobinAssumption ==
  IsFiniteSet(Thread) /\ Slice \in Nat \ {0}

VARIABLES queue,              \* the list from g_rr_state.head to tail
          timeslice_remaining

vars == <<current, state, queue, timeslice_remaining>>

Core == INSTANCE Scheduler WITH ready <- Range(queue)

TypeOK ==
  /\ current \in Thread \cup {Idle}
  /\ state \in [Thread -> ThreadState]
  /\ queue \in Seq(Thread)
  /\ timeslice_remaining \in [Thread -> 0 .. Slice]

(* The main thread, not enqueued yet, starts with no time slice.           *)
Init ==
  /\ current \in Thread
  /\ queue \in {q \in [1 .. Cardinality(Thread) - 1 -> Thread \ {current}] :
                  IsInjective(q)}
  /\ state = [t \in Thread |-> IF t = current THEN "RUNNING" ELSE "READY"]
  /\ timeslice_remaining = [t \in Thread |-> IF t = current THEN 0 ELSE Slice]

-----------------------------------------------------------------------------
(* Mutant: a thread is put at the head of the run queue.                   *)
EnqueueAtHead(q, t) == <<t>> \o q

rr_enqueue(q, t) == Append(q, t)

rr_remove(q, t) ==
  IF t \in Range(q) THEN RemoveAt(q, CHOOSE i \in DOMAIN q : q[i] = t) ELSE q

rr_should_preempt(t, remaining) == remaining = 0 /\ queue # <<>>

(* scheduler_schedule with rr_dequeue.                                     *)
Schedule(st, q) ==
  LET next == IF q = <<>> THEN Idle ELSE Head(q) IN
  /\ queue' = IF q = <<>> THEN q ELSE Tail(q)
  /\ current' = next
  /\ state' = IF next = current THEN st ELSE Core!SwitchStates(st, next)

Refill(t) == [timeslice_remaining EXCEPT ![t] = Slice]

Yield(t) ==
  /\ current = t
  /\ \/ /\ state[t] = "RUNNING"
        /\ timeslice_remaining' = Refill(t)
        /\ Schedule([state EXCEPT ![t] = "READY"], rr_enqueue(queue, t))
     \/ /\ state[t] # "RUNNING"
        /\ Schedule(state, queue)
        /\ UNCHANGED timeslice_remaining

(* Mutant: a preempted thread is not put back in the run queue.            *)
TickDrops(t) ==
  /\ current = t
  /\ queue # <<>>
  /\ timeslice_remaining' = Refill(t)
  /\ Schedule([state EXCEPT ![t] = "READY"], queue)

(* scheduler_tick with rr_on_tick, elapsed being the time t has run.       *)
Tick(t) ==
  /\ current = t
  /\ \E elapsed \in 1 .. Slice :
       LET left == IF timeslice_remaining[t] > elapsed
                     THEN timeslice_remaining[t] - elapsed ELSE 0 IN
       \/ /\ rr_should_preempt(t, left)
          /\ timeslice_remaining' = Refill(t)
          /\ Schedule([state EXCEPT ![t] = "READY"], rr_enqueue(queue, t))
       \/ /\ ~rr_should_preempt(t, left)
          /\ timeslice_remaining' = [timeslice_remaining EXCEPT ![t] = left]
          /\ UNCHANGED <<current, state, queue>>

Block(t) ==
  /\ current = t
  /\ Schedule([state EXCEPT ![t] = "BLOCKED"], queue)
  /\ UNCHANGED timeslice_remaining

(* scheduler_unblock of a sleeping thread.                                 *)
Unblock(t) ==
  /\ current = t
  /\ \E u \in Thread :
       /\ state[u] = "BLOCKED"
       /\ state' = [state EXCEPT ![u] = "READY"]
       /\ queue' = rr_enqueue(queue, u)
       /\ timeslice_remaining' = Refill(u)
  /\ UNCHANGED current

(* uthread_exit, which may wake the joiner.                                *)
Exit(t) ==
  /\ current = t
  /\ LET st == [state EXCEPT ![t] = "TERMINATED"]
         rest == rr_remove(queue, t)
     IN \/ Schedule(st, rest) /\ UNCHANGED timeslice_remaining
        \/ \E u \in Thread :
             /\ state[u] = "BLOCKED"
             /\ timeslice_remaining' = Refill(u)
             /\ Schedule([st EXCEPT ![u] = "READY"], rr_enqueue(rest, u))

Next ==
  \E t \in Thread : Yield(t) \/ Tick(t) \/ Block(t) \/ Unblock(t) \/ Exit(t)

Spec == Init /\ [][Next]_vars

(* Whoever has the CPU yields, blocks or exits in the end.  Nothing is     *)
(* assumed of the timer: SIGALRM may stay blocked for as long as a thread  *)
(* stays out of the library (Preemption).                                  *)
FairSpec == Spec /\ WF_vars(\E t \in Thread : Yield(t) \/ Block(t) \/ Exit(t))

-----------------------------------------------------------------------------
(* sched_rr.c behind scheduler.c is a scheduler as Scheduler.tla describes *)
(* it: dequeue returns some enqueued thread, and NULL only when there is   *)
(* none.                                                                   *)
ImplementsScheduler == Core!SchedSpec

(* The inductive invariant behind the properties of this policy: the run   *)
(* queue holds ready threads, each once, the running thread is not among   *)
(* them and is not asleep.                                                 *)
QueueOK ==
  /\ TypeOK
  /\ IsInjective(queue)
  /\ current \notin Range(queue)
  /\ \A t \in Range(queue) : state[t] = "READY"
  /\ current \in Thread => state[current] # "BLOCKED"

(* scheduler_yield means to "Put current thread back in run queue": a      *)
(* thread that is neither asleep, running nor finished is in the run queue.*)
RunnableKept ==
  \A t \in Thread :
    state[t] \in {"READY", "RUNNING"} => t = current \/ t \in Range(queue)

(* No runnable thread is lost but in one way: a thread that the scheduler  *)
(* handed the CPU it already had stays in state READY, and its next yield  *)
(* does not enqueue it.  Every other yield, tick, wait, wake-up and exit   *)
(* of scheduler.c leaves each runnable thread running or queued.           *)
KeptUnlessReady ==
  [][\A t \in Thread :
       /\ t \in Range(queue) \cup {current} \/ state[t] = "BLOCKED"
       /\ state'[t] \in {"READY", "RUNNING"}
       => \/ t \in Range(queue)' \cup {current'}
          \/ t = current /\ state[t] = "READY"]_vars

Position(t) == CHOOSE i \in 1 .. Len(queue) : queue[i] = t

(* Nothing overtakes a queued thread: "Add to tail of queue (FIFO)".       *)
NoOvertaking ==
  [][\A t \in Range(queue) \cap Range(queue)' : Position(t)' <= Position(t)]_vars

(* Every queued thread gets the CPU: what the other modules assume of the  *)
(* policy follows from rr_enqueue at the tail and rr_dequeue at the head,  *)
(* as long as the threads in front give the CPU up.                        *)
Served == \A t \in Thread : t \in Range(queue) ~> current = t
=============================================================================
