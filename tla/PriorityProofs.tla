--------------------------- MODULE PriorityProofs ---------------------------
(***************************************************************************)
(* Proofs about the two policies that keep their threads in FIFO queues,   *)
(* for any number of threads: Priority and, as the instance RR, the        *)
(* Round-Robin policy, which shares current and state of the core with it. *)
(* Both implement Scheduler, on which every other proof of this project    *)
(* rests, and keep their own order.                                        *)
(***************************************************************************)
EXTENDS Priority, SchedulerProofs

CONSTANT Slice

VARIABLES queue, timeslice_remaining

RR == INSTANCE RoundRobin

(* Round-Robin.                                                            *)

(* The two ways of speaking of a list.                                     *)
LEMMA RRList ==
  ASSUME NEW q \in Seq(Thread)
  PROVE  RR!Range(q) = Members(q) /\ (RR!IsInjective(q) <=> Distinct(q))
  BY DEF RR!Range, RR!IsInjective, Members, Distinct

(* scheduler_schedule with rr_dequeue is scheduler_schedule of the core,   *)
(* and keeps the run queue in order.                                       *)
LEMMA RRSchedule ==
  ASSUME NEW st \in [Thread -> ThreadState], NEW q \in Seq(Thread), Distinct(q),
         RR!Schedule(st, q),
         \A t \in Members(q) : st[t] = "READY"
  PROVE  /\ RR!Core!scheduler_schedule(st, Members(q))
         /\ queue' \in Seq(Thread) /\ Distinct(queue')
         /\ current' \in Members(q) \cup {Idle}
         /\ Members(queue') = Members(q) \ {current'}
         /\ state' \in [Thread -> ThreadState]
         /\ \A t \in Members(queue') : state'[t] = "READY"
         /\ current' \in Thread => state'[current'] \in {"RUNNING", "READY"}
         /\ \A t \in Thread : state'[t] \in {"READY", "RUNNING"} =>
              t = current' \/ st[t] \in {"READY", "RUNNING"}
<1> DEFINE next == IF q = <<>> THEN Idle ELSE Head(q)
<1>1. /\ queue' = IF q = <<>> THEN q ELSE Tail(q)
      /\ current' = next
      /\ state' = IF next = current THEN st ELSE RR!Core!SwitchStates(st, next)
  BY DEF RR!Schedule
<1>2. /\ queue' \in Seq(Thread) /\ Distinct(queue')
      /\ next \in IF Members(q) = {} THEN {Idle} ELSE Members(q)
      /\ Members(queue') = Members(q) \ {next}
  BY <1>1, TailFacts, EmptyFacts, IdleAssumption
<1> HIDE DEF next
<1>3. RR!Core!scheduler_schedule(st, Members(q))
  <2>1. RR!Range(queue)' = Members(queue')
    BY <1>2 DEF RR!Range, Members
  <2> QED
    BY <1>1, <1>2, <2>1 DEF RR!Core!scheduler_schedule, RR!Core!Dequeue
<1>4. RR!Core!SwitchStates(st, next) =
        [t \in Thread |-> IF t = next THEN "RUNNING"
                         ELSE IF t = current /\ st[t] = "RUNNING" THEN "READY" ELSE st[t]]
  BY DEF RR!Core!SwitchStates
<1>5. Members(q) \subseteq Thread /\ next \in Members(q) \cup {Idle}
  BY <1>2, EmptyFacts
<1>6. state' \in [Thread -> ThreadState]
  BY <1>1, <1>4 DEF ThreadState
<1>7. \A t \in Thread :
        /\ t = next => state'[t] \in {"RUNNING", st[t]}
        /\ t # next => state'[t] \in {st[t], "READY"}
        /\ t # next /\ state'[t] # st[t] => st[t] = "RUNNING"
  BY <1>1, <1>4
<1>8. \A t \in Members(queue') : state'[t] = "READY"
  BY <1>2, <1>5, <1>7
<1>9. next \in Thread => state'[next] \in {"RUNNING", "READY"}
  BY <1>5, <1>7, IdleAssumption
<1> QED
  BY <1>1, <1>2, <1>3, <1>5, <1>6, <1>7, <1>8, <1>9

(* The invariant, unfolded once for the steps below.                       *)
LEMMA RRFacts ==
  ASSUME RR!QueueOK
  PROVE  /\ current \in Thread \cup {Idle} /\ state \in [Thread -> ThreadState]
         /\ queue \in Seq(Thread) /\ Distinct(queue) /\ Members(queue) \subseteq Thread
         /\ RR!Range(queue) = Members(queue)
         /\ timeslice_remaining \in [Thread -> 0 .. Slice]
         /\ current \notin Members(queue)
         /\ \A t \in Members(queue) : state[t] = "READY"
         /\ current \in Thread => state[current] # "BLOCKED"
<1>1. queue \in Seq(Thread)
  BY DEF RR!QueueOK, RR!TypeOK
<1> QED
  BY <1>1, RRList, EmptyFacts DEF RR!QueueOK, RR!TypeOK, RR!ThreadState, ThreadState

(* The unfolded invariant gives it back in the next state.                 *)
LEMMA RRFold ==
  ASSUME current' \in Thread \cup {Idle}, state' \in [Thread -> ThreadState],
         queue' \in Seq(Thread), Distinct(queue'),
         timeslice_remaining' \in [Thread -> 0 .. Slice],
         current' \notin Members(queue'),
         \A t \in Members(queue') : state'[t] = "READY",
         current' \in Thread => state'[current'] # "BLOCKED"
  PROVE  RR!QueueOK' /\ RR!Range(queue)' = Members(queue')
<1>1. RR!Range(queue)' = Members(queue')
  BY DEF RR!Range, Members
<1>2. RR!IsInjective(queue)'
  BY DEF RR!IsInjective, Distinct
<1> QED
  BY <1>1, <1>2 DEF RR!QueueOK, RR!TypeOK, RR!ThreadState, ThreadState

(* A step that ends in scheduler_schedule.                                 *)
LEMMA RRDispatch ==
  ASSUME NEW st \in [Thread -> ThreadState], NEW q \in Seq(Thread), Distinct(q),
         RR!Schedule(st, q), \A t \in Members(q) : st[t] = "READY",
         timeslice_remaining' \in [Thread -> 0 .. Slice]
  PROVE  RR!QueueOK' /\ RR!Core!scheduler_schedule(st, Members(q))
<1>1. Members(q) \subseteq Thread
  BY EmptyFacts
<1> QED
  BY <1>1, RRSchedule, RRFold, IdleAssumption

(* Every step of scheduler.c over sched_rr.c keeps the invariant and is a  *)
(* step of the core, or leaves what the core sees alone.                   *)
LEMMA RRStep ==
  ASSUME Slice \in Nat \ {0}, RR!QueueOK, RR!Next
  PROVE  /\ RR!QueueOK'
         /\ RR!Core!SchedNext \/ UNCHANGED RR!Core!schedVars
<1>1. PICK t \in Thread :
        RR!Yield(t) \/ RR!Tick(t) \/ RR!Block(t) \/ RR!Unblock(t) \/ RR!Exit(t)
  BY DEF RR!Next
<1>2. \A u \in Thread : RR!Refill(u) \in [Thread -> 0 .. Slice]
  BY RRFacts DEF RR!Refill
<1> DEFINE Ready(u) == [state EXCEPT ![u] = "READY"]
<1>3. ASSUME NEW u \in Thread, u \notin Members(queue)
      PROVE  /\ RR!rr_enqueue(queue, u) \in Seq(Thread)
             /\ Distinct(RR!rr_enqueue(queue, u))
             /\ Members(RR!rr_enqueue(queue, u)) = Members(queue) \cup {u}
             /\ Ready(u) \in [Thread -> ThreadState]
             /\ \A v \in Members(queue) \cup {u} : Ready(u)[v] = "READY"
  <2>1. RR!rr_enqueue(queue, u) = wait_queue_add(queue, u)
    BY DEF RR!rr_enqueue, wait_queue_add
  <2>2. /\ wait_queue_add(queue, u) \in Seq(Thread)
        /\ Distinct(wait_queue_add(queue, u))
        /\ Members(wait_queue_add(queue, u)) = Members(queue) \cup {u}
    BY <1>3, AddFacts, RRFacts
  <2>3. /\ Ready(u) \in [Thread -> ThreadState]
        /\ \A v \in Members(queue) \cup {u} : Ready(u)[v] = "READY"
    BY RRFacts DEF ThreadState
  <2> HIDE DEF Ready
  <2> QED
    BY <2>1, <2>2, <2>3
<1> HIDE DEF Ready
<1>4. ASSUME current = t, timeslice_remaining' = RR!Refill(t),
             RR!Schedule(Ready(t), RR!rr_enqueue(queue, t))
      PROVE  /\ RR!QueueOK'
             /\ RR!Core!scheduler_schedule(Ready(t), RR!Range(queue) \cup {t})
  <2>1. t \notin Members(queue)
    BY <1>4, RRFacts
  <2>2. /\ RR!QueueOK'
        /\ RR!Core!scheduler_schedule(Ready(t), Members(RR!rr_enqueue(queue, t)))
    BY <1>2, <1>3, <1>4, <2>1, RRDispatch
  <2>3. Members(RR!rr_enqueue(queue, t)) = RR!Range(queue) \cup {t}
    BY <1>3, <2>1, RRFacts
  <2> QED
    BY <2>2, <2>3
<1>5. CASE RR!Yield(t)
  <2>1. CASE state[t] = "RUNNING"
    <3>1. /\ current = t /\ timeslice_remaining' = RR!Refill(t)
          /\ RR!Schedule(Ready(t), RR!rr_enqueue(queue, t))
      BY <1>5, <2>1 DEF RR!Yield, Ready
    <3>2. RR!Core!uthread_yield(t)
      BY <1>4, <2>1, <3>1 DEF RR!Core!uthread_yield, Ready
    <3> QED
      BY <1>4, <3>1, <3>2 DEF RR!Core!SchedNext
  <2>2. CASE state[t] # "RUNNING"
    <3>1. current = t /\ timeslice_remaining' = timeslice_remaining /\ RR!Schedule(state, queue)
      BY <1>5, <2>2 DEF RR!Yield
    <3>2. RR!QueueOK' /\ RR!Core!scheduler_schedule(state, RR!Range(queue))
      BY <3>1, RRDispatch, RRFacts
    <3>3. RR!Core!uthread_yield(t)
      BY <2>2, <3>1, <3>2 DEF RR!Core!uthread_yield
    <3> QED
      BY <3>2, <3>3 DEF RR!Core!SchedNext
  <2> QED
    BY <2>1, <2>2
<1>6. CASE RR!Tick(t)
  <2>1. PICK left \in 0 .. Slice :
          \/ /\ RR!rr_should_preempt(t, left)
             /\ timeslice_remaining' = RR!Refill(t)
             /\ RR!Schedule(Ready(t), RR!rr_enqueue(queue, t))
          \/ /\ timeslice_remaining' = [timeslice_remaining EXCEPT ![t] = left]
             /\ UNCHANGED <<current, state, queue>>
    BY <1>6, RRFacts DEF RR!Tick, Ready
  <2>2. current = t
    BY <1>6 DEF RR!Tick
  <2>3. CASE /\ RR!rr_should_preempt(t, left)
             /\ timeslice_remaining' = RR!Refill(t)
             /\ RR!Schedule(Ready(t), RR!rr_enqueue(queue, t))
    <3>1. RR!Range(queue) # {}
      BY <2>3, RRFacts, EmptyFacts DEF RR!rr_should_preempt
    <3>2. RR!Core!scheduler_tick(t)
      BY <1>4, <2>2, <2>3, <3>1 DEF RR!Core!scheduler_tick, Ready
    <3> QED
      BY <1>4, <2>2, <2>3, <3>2 DEF RR!Core!SchedNext
  <2>4. CASE /\ timeslice_remaining' = [timeslice_remaining EXCEPT ![t] = left]
             /\ UNCHANGED <<current, state, queue>>
    <3>1. RR!QueueOK'
      BY <2>4, RRFacts, RRFold
    <3> QED
      BY <2>4, <3>1 DEF RR!Core!schedVars, RR!Range
  <2> QED
    BY <2>1, <2>3, <2>4
<1>7. CASE RR!Block(t)
  <2> DEFINE st == [state EXCEPT ![t] = "BLOCKED"]
  <2>1. current = t /\ timeslice_remaining' = timeslice_remaining /\ RR!Schedule(st, queue)
    BY <1>7 DEF RR!Block
  <2>2. st \in [Thread -> ThreadState] /\ \A u \in Members(queue) : st[u] = "READY"
    BY <2>1, RRFacts DEF ThreadState
  <2> HIDE DEF st
  <2>3. RR!QueueOK' /\ RR!Core!scheduler_schedule(st, RR!Range(queue))
    BY <2>1, <2>2, RRDispatch, RRFacts
  <2>4. RR!Core!scheduler_block(t)
    BY <2>1, <2>3 DEF RR!Core!scheduler_block, st
  <2> QED
    BY <2>3, <2>4 DEF RR!Core!SchedNext
<1>8. CASE RR!Unblock(t)
  <2>1. PICK u \in Thread :
          /\ state[u] = "BLOCKED" /\ state' = Ready(u)
          /\ queue' = RR!rr_enqueue(queue, u) /\ timeslice_remaining' = RR!Refill(u)
    BY <1>8 DEF RR!Unblock, Ready
  <2>2. current = t /\ current' = current /\ u \notin Members(queue) /\ u # t
    BY <1>8, <2>1, RRFacts DEF RR!Unblock
  <2>3. /\ queue' \in Seq(Thread) /\ Distinct(queue') /\ state' \in [Thread -> ThreadState]
        /\ Members(queue') = Members(queue) \cup {u}
        /\ \A v \in Members(queue') : state'[v] = "READY"
        /\ timeslice_remaining' \in [Thread -> 0 .. Slice]
    BY <1>2, <1>3, <2>1, <2>2
  <2>4. state'[t] = state[t]
    BY <2>1, <2>2, RRFacts DEF Ready
  <2>5. RR!QueueOK' /\ RR!Range(queue)' = Members(queue) \cup {u}
    BY <2>2, <2>3, <2>4, RRFacts, RRFold
  <2>6. state' = [v \in Thread |-> IF v \in {u} THEN "READY" ELSE state[v]]
    BY <2>1, RRFacts DEF Ready
  <2>7. RR!Core!scheduler_unblock({u})
    BY <2>2, <2>5, <2>6, RRFacts DEF RR!Core!scheduler_unblock
  <2>8. RR!Core!Wake(t)
    BY <2>1, <2>2, <2>7 DEF RR!Core!Wake
  <2> QED
    BY <2>5, <2>8 DEF RR!Core!SchedNext
<1>9. CASE RR!Exit(t)
  <2> DEFINE st == [state EXCEPT ![t] = "TERMINATED"]
             st2(J) == [v \in Thread |-> IF v = t THEN "TERMINATED"
                                        ELSE IF v \in J THEN "READY" ELSE state[v]]
  <2>1. current = t /\ RR!rr_remove(queue, t) = queue /\ t \notin Members(queue)
    BY <1>9, RRFacts DEF RR!Exit, RR!rr_remove
  <2>2. \/ RR!Schedule(st, queue) /\ timeslice_remaining' = timeslice_remaining
        \/ \E u \in Thread :
             /\ state[u] = "BLOCKED" /\ timeslice_remaining' = RR!Refill(u)
             /\ RR!Schedule([st EXCEPT ![u] = "READY"], RR!rr_enqueue(queue, u))
    BY <1>9, <2>1 DEF RR!Exit
  <2>3. \A J \in SUBSET Thread : st2(J) \in [Thread -> ThreadState]
    BY RRFacts DEF ThreadState
  <2>4. ASSUME NEW J \in SUBSET Thread, \A u \in J : state[u] = "BLOCKED",
               \A u, v \in J : u = v,
               RR!Core!scheduler_schedule(st2(J), Members(queue) \cup J)
        PROVE  RR!Core!SchedNext
    <3>1. (RR!Range(queue) \ {t}) \cup J = Members(queue) \cup J
      BY <2>1, RRFacts
    <3>2. RR!Core!uthread_exit(t)
      BY <2>1, <2>4, <3>1 DEF RR!Core!uthread_exit
    <3> QED
      BY <3>2 DEF RR!Core!SchedNext
  <2>5. CASE RR!Schedule(st, queue) /\ timeslice_remaining' = timeslice_remaining
    <3>1. st = st2({})
      BY RRFacts
    <3>2. \A u \in Members(queue) : st2({})[u] = "READY"
      BY <2>1, RRFacts
    <3>3. RR!Schedule(st2({}), queue) /\ timeslice_remaining' = timeslice_remaining
      BY <2>5, <3>1
    <3> HIDE DEF st, st2
    <3>4. RR!QueueOK' /\ RR!Core!scheduler_schedule(st2({}), Members(queue))
      BY <2>3, <3>2, <3>3, RRDispatch, RRFacts
    <3>5. RR!Core!scheduler_schedule(st2({}), Members(queue) \cup {})
      BY <3>4
    <3> QED
      BY <2>4, <3>4, <3>5
  <2>6. CASE \E u \in Thread :
               /\ state[u] = "BLOCKED" /\ timeslice_remaining' = RR!Refill(u)
               /\ RR!Schedule([st EXCEPT ![u] = "READY"], RR!rr_enqueue(queue, u))
    <3>1. PICK u \in Thread :
            /\ state[u] = "BLOCKED" /\ timeslice_remaining' = RR!Refill(u)
            /\ RR!Schedule([st EXCEPT ![u] = "READY"], RR!rr_enqueue(queue, u))
      BY <2>6
    <3>2. u # t /\ u \notin Members(queue)
      BY <2>1, <3>1, RRFacts
    <3>3. [st EXCEPT ![u] = "READY"] = st2({u})
      BY <3>2, RRFacts
    <3>4. \A v \in Members(queue) \cup {u} : st2({u})[v] = "READY"
      BY <2>1, <3>2, RRFacts
    <3>5. RR!Schedule(st2({u}), RR!rr_enqueue(queue, u))
      BY <3>1, <3>3
    <3> HIDE DEF st, st2
    <3>6. /\ RR!QueueOK'
          /\ RR!Core!scheduler_schedule(st2({u}), Members(RR!rr_enqueue(queue, u)))
      BY <1>2, <1>3, <2>3, <3>1, <3>2, <3>4, <3>5, RRDispatch
    <3>7. RR!Core!scheduler_schedule(st2({u}), Members(queue) \cup {u})
      BY <1>3, <3>2, <3>6
    <3> QED
      BY <2>4, <3>1, <3>6, <3>7
  <2> QED
    BY <2>2, <2>5, <2>6
<1> QED
  BY <1>1, <1>5, <1>6, <1>7, <1>8, <1>9

(* Initially the run queue holds every thread but the main one.            *)
LEMMA RRInit ==
  ASSUME IsFiniteSet(Thread), RR!Init
  PROVE  queue \in Seq(Thread) /\ Distinct(queue) /\ Members(queue) = Thread \ {current}
<1>1. RR!Cardinality(Thread) = Cardinality(Thread)
  BY DEF RR!Cardinality, Cardinality
<1>2. /\ current \in Thread
      /\ queue \in [1 .. Cardinality(Thread) - 1 -> Thread \ {current}]
      /\ RR!IsInjective(queue)
  BY <1>1 DEF RR!Init
<1>3. IsInjective(queue)
  BY <1>2, Zenon DEF RR!IsInjective, IsInjective
<1>4. IsFiniteSet(Thread \ {current}) /\ Cardinality(Thread \ {current}) = Cardinality(Thread) - 1
  BY <1>2, FS_RemoveElement
<1> QED
  BY <1>2, <1>3, <1>4, OrderFacts

(* QueueOK is an inductive invariant of scheduler.c over sched_rr.c.       *)
LEMMA RRInvariant ==
  ASSUME IsFiniteSet(Thread), Slice \in Nat \ {0}
  PROVE  RR!Spec => []RR!QueueOK
<1>1. RR!Init => RR!QueueOK
  <2> SUFFICES ASSUME RR!Init PROVE RR!QueueOK
    OBVIOUS
  <2>1. /\ current \in Thread
        /\ state = [t \in Thread |-> IF t = current THEN "RUNNING" ELSE "READY"]
        /\ timeslice_remaining = [t \in Thread |-> IF t = current THEN 0 ELSE Slice]
    BY DEF RR!Init
  <2>2. queue \in Seq(Thread) /\ Distinct(queue) /\ Members(queue) = Thread \ {current}
    BY RRInit
  <2>3. RR!Range(queue) = Thread \ {current} /\ RR!IsInjective(queue)
    BY <2>2, RRList
  <2> QED
    BY <2>1, <2>2, <2>3 DEF RR!QueueOK, RR!TypeOK, RR!ThreadState
<1>2. RR!QueueOK /\ [RR!Next]_RR!vars => RR!QueueOK'
  <2> SUFFICES ASSUME RR!QueueOK, [RR!Next]_RR!vars PROVE RR!QueueOK'
    OBVIOUS
  <2>1. CASE RR!Next
    BY <2>1, RRStep
  <2>2. CASE UNCHANGED RR!vars
    BY <2>2 DEF RR!vars, RR!QueueOK, RR!TypeOK, RR!Range, RR!IsInjective
  <2> QED
    BY <2>1, <2>2
<1> QED
  BY <1>1, <1>2, PTL DEF RR!Spec

(* scheduler.c over sched_rr.c implements Scheduler: whatever is proved of *)
(* the core holds for the Round-Robin policy.                              *)
THEOREM RoundRobinImplementsScheduler ==
  ASSUME IsFiniteSet(Thread), Slice \in Nat \ {0}
  PROVE  RR!Spec => RR!ImplementsScheduler
<1>1. RR!Init => RR!Core!SchedInit
  <2> SUFFICES ASSUME RR!Init PROVE RR!Core!SchedInit
    OBVIOUS
  <2>1. /\ current \in Thread
        /\ state = [t \in Thread |-> IF t = current THEN "RUNNING" ELSE "READY"]
    BY DEF RR!Init
  <2>2. RR!Range(queue) = Thread \ {current}
    BY RRInit, RRList
  <2> QED
    BY <2>1, <2>2 DEF RR!Core!SchedInit
<1>2. RR!QueueOK /\ [RR!Next]_RR!vars => [RR!Core!SchedNext]_RR!Core!schedVars
  <2>1. UNCHANGED RR!vars => UNCHANGED RR!Core!schedVars
    BY DEF RR!vars, RR!Core!schedVars, RR!Range
  <2> QED
    BY <2>1, RRStep
<1> QED
  BY <1>1, <1>2, RRInvariant, PTL DEF RR!Spec, RR!ImplementsScheduler, RR!Core!SchedSpec

(* No member of a list moves back when another is appended and when the    *)
(* head is taken off.                                                      *)
LEMMA NoStepBack ==
  ASSUME NEW q \in Seq(Thread), Distinct(q), NEW r \in Seq(Thread),
         \/ r = q
         \/ \E u \in Thread : u \notin Members(q) /\ r = Append(q, u),
         NEW r1, r1 = r \/ (r # <<>> /\ r1 = Tail(r)) 
  PROVE  \A i \in 1 .. Len(q), j \in 1 .. Len(r1) : q[i] = r1[j] => j <= i
<1>1. \A i \in 1 .. Len(q), j \in 1 .. Len(r) : q[i] = r[j] => j = i
  <2>1. CASE r = q
    BY <2>1 DEF Distinct
  <2>2. ASSUME NEW u \in Thread, u \notin Members(q), r = Append(q, u)
        PROVE  \A i \in 1 .. Len(q), j \in 1 .. Len(r) : q[i] = r[j] => j = i
    <3>1. /\ Len(r) = Len(q) + 1 /\ Len(q) \in Nat /\ r[Len(q) + 1] = u
          /\ \A i \in 1 .. Len(q) : r[i] = q[i] /\ q[i] # u
      BY <2>2 DEF Members
    <3> QED
      BY <3>1 DEF Distinct
  <2> QED
    BY <2>1, <2>2
<1>2. CASE r1 = r
  BY <1>1, <1>2
<1>3. CASE r # <<>> /\ r1 = Tail(r)
  <2>1. /\ Len(r1) = Len(r) - 1 /\ Len(r) \in Nat /\ Len(q) \in Nat
        /\ \A j \in 1 .. Len(r1) : r1[j] = r[j + 1] /\ j + 1 \in 1 .. Len(r)
    BY <1>3
  <2> QED
    BY <1>1, <2>1
<1> QED
  BY <1>2, <1>3

(* What the steps of Round-Robin do to the run queue.                      *)
LEMMA RRMoves ==
  ASSUME RR!QueueOK, RR!Next
  PROVE  \A i \in 1 .. Len(queue), j \in 1 .. Len(queue') : queue[i] = queue'[j] => j <= i
<1>1. PICK t \in Thread :
        RR!Yield(t) \/ RR!Tick(t) \/ RR!Block(t) \/ RR!Unblock(t) \/ RR!Exit(t)
  BY DEF RR!Next
<1>2. current = t /\ t \notin Members(queue)
  BY <1>1, RRFacts DEF RR!Yield, RR!Tick, RR!Block, RR!Unblock, RR!Exit
<1>3. RR!rr_remove(queue, t) = queue
  BY <1>2, RRFacts DEF RR!rr_remove
<1>4. \E r \in {queue} \cup {Append(queue, u) : u \in Thread \ Members(queue)} :
        queue' = r \/ (r # <<>> /\ queue' = Tail(r))
  <2>1. \A u \in Thread : state[u] = "BLOCKED" => u \notin Members(queue)
    BY RRFacts
  <2>2. \A st, r : RR!Schedule(st, r) => queue' = r \/ (r # <<>> /\ queue' = Tail(r))
    BY DEF RR!Schedule
  <2>3. CASE RR!Yield(t)
    BY <1>2, <2>2, <2>3 DEF RR!Yield, RR!rr_enqueue
  <2>4. CASE RR!Tick(t)
    BY <1>2, <2>2, <2>4 DEF RR!Tick, RR!rr_enqueue
  <2>5. CASE RR!Block(t)
    BY <2>2, <2>5 DEF RR!Block
  <2>6. CASE RR!Unblock(t)
    BY <2>1, <2>6 DEF RR!Unblock, RR!rr_enqueue
  <2>7. CASE RR!Exit(t)
    BY <1>3, <2>1, <2>2, <2>7 DEF RR!Exit, RR!rr_enqueue
  <2> QED
    BY <1>1, <2>3, <2>4, <2>5, <2>6, <2>7
<1>5. PICK r \in Seq(Thread) :
        /\ r = queue \/ \E u \in Thread : u \notin Members(queue) /\ r = Append(queue, u)
        /\ queue' = r \/ (r # <<>> /\ queue' = Tail(r))
  <2>1. queue \in Seq(Thread) /\ \A u \in Thread : Append(queue, u) \in Seq(Thread)
    BY RRFacts
  <2> QED
    BY <1>4, <2>1, Zenon
<1> QED
  BY <1>5, NoStepBack, RRFacts

(* Nothing overtakes a thread in the run queue of Round-Robin.             *)
THEOREM RoundRobinIsFIFO ==
  ASSUME IsFiniteSet(Thread), Slice \in Nat \ {0}
  PROVE  RR!Spec => RR!NoOvertaking
<1>1. RR!QueueOK /\ RR!QueueOK' /\ [RR!Next]_RR!vars =>
        [\A t \in RR!Range(queue) \cap RR!Range(queue)' :
           RR!Position(t)' <= RR!Position(t)]_RR!vars
  <2> SUFFICES ASSUME RR!QueueOK, RR!QueueOK', RR!Next,
                      NEW t \in RR!Range(queue) \cap RR!Range(queue)'
               PROVE  RR!Position(t)' <= RR!Position(t)
    OBVIOUS
  <2>1. queue \in Seq(Thread) /\ queue' \in Seq(Thread)
    BY DEF RR!QueueOK, RR!TypeOK
  <2>2. t \in Members(queue) /\ t \in Members(queue')
    BY <2>1 DEF RR!Range, Members
  <2>3. (\E i \in 1 .. Len(queue) : queue[i] = t) /\ (\E i \in 1 .. Len(queue') : queue'[i] = t)
    BY <2>2 DEF Members
  <2>4. /\ RR!Position(t) \in 1 .. Len(queue) /\ queue[RR!Position(t)] = t
        /\ RR!Position(t)' \in 1 .. Len(queue') /\ queue'[RR!Position(t)'] = t
    BY <2>3 DEF RR!Position
  <2> QED
    BY <2>4, RRMoves
<1> QED
  BY <1>1, RRInvariant, PTL DEF RR!Spec, RR!NoOvertaking

(* A step of the core loses no runnable thread but a caller of yield that  *)
(* is in state READY.                                                      *)
LEMMA RRKept ==
  ASSUME state \in [Thread -> ThreadState], RR!Core!SchedNext, NEW u \in Thread,
         u \in RR!Range(queue) \cup {current} \/ state[u] = "BLOCKED",
         state'[u] \in {"READY", "RUNNING"}
  PROVE  u \in RR!Range(queue)' \cup {current'} \/ (u = current /\ state[u] = "READY")
<1> DEFINE ready0 == RR!Range(queue)
           ready1 == RR!Range(queue)'
<1>1. ASSUME NEW st, NEW rdy, RR!Core!scheduler_schedule(st, rdy), u \notin rdy
      PROVE  u = current' \/ st[u] \in {"READY", "RUNNING"}
  BY <1>1 DEF RR!Core!scheduler_schedule, RR!Core!SwitchStates
<1>2. ASSUME NEW st, NEW rdy, RR!Core!scheduler_schedule(st, rdy), u \in rdy
      PROVE  u \in ready1 \cup {current'}
  BY <1>2 DEF RR!Core!scheduler_schedule
<1> HIDE DEF ready0, ready1
<1>3. PICK t \in Thread :
        \/ RR!Core!uthread_yield(t) \/ RR!Core!scheduler_tick(t)
        \/ RR!Core!scheduler_block(t) \/ RR!Core!Wake(t) \/ RR!Core!uthread_exit(t)
  BY DEF RR!Core!SchedNext
<1>4. CASE RR!Core!uthread_yield(t) /\ state[t] = "RUNNING"
  <2>1. current = t /\ RR!Core!scheduler_schedule([state EXCEPT ![t] = "READY"], ready0 \cup {t})
    BY <1>4 DEF RR!Core!uthread_yield, ready0
  <2>2. u \notin ready0 \cup {t} => [state EXCEPT ![t] = "READY"][u] = "BLOCKED"
    BY <2>1 DEF ready0
  <2> QED
    BY <1>1, <1>2, <2>1, <2>2 DEF ready1
<1>5. CASE RR!Core!uthread_yield(t) /\ state[t] # "RUNNING"
  <2>1. current = t /\ RR!Core!scheduler_schedule(state, ready0)
    BY <1>5 DEF RR!Core!uthread_yield, ready0
  <2>2. u \notin ready0 => u = t \/ state[u] = "BLOCKED"
    BY <2>1 DEF ready0
  <2> QED
    BY <1>1, <1>2, <1>5, <2>1, <2>2 DEF ready1
<1>6. CASE RR!Core!scheduler_tick(t)
  <2>1. current = t /\ RR!Core!scheduler_schedule([state EXCEPT ![t] = "READY"], ready0 \cup {t})
    BY <1>6 DEF RR!Core!scheduler_tick, ready0
  <2>2. u \notin ready0 \cup {t} => [state EXCEPT ![t] = "READY"][u] = "BLOCKED"
    BY <2>1 DEF ready0
  <2> QED
    BY <1>1, <1>2, <2>1, <2>2 DEF ready1
<1>7. CASE RR!Core!scheduler_block(t)
  <2>1. current = t /\ RR!Core!scheduler_schedule([state EXCEPT ![t] = "BLOCKED"], ready0)
    BY <1>7 DEF RR!Core!scheduler_block, ready0
  <2>2. u \notin ready0 => [state EXCEPT ![t] = "BLOCKED"][u] = "BLOCKED"
    BY <2>1 DEF ready0
  <2> QED
    BY <1>1, <1>2, <2>1, <2>2 DEF ready1
<1>8. CASE RR!Core!Wake(t)
  <2>1. PICK v \in Thread : RR!Core!scheduler_unblock({v})
    BY <1>8 DEF RR!Core!Wake
  <2>2. /\ current' = current /\ ready1 = ready0 \cup {v}
        /\ state' = [w \in Thread |-> IF w \in {v} THEN "READY" ELSE state[w]]
    BY <2>1 DEF RR!Core!scheduler_unblock, ready0, ready1
  <2> QED
    BY <2>2 DEF ready0, ready1
<1>9. CASE RR!Core!uthread_exit(t)
  <2>1. PICK J \in SUBSET Thread :
          RR!Core!scheduler_schedule([w \in Thread |-> IF w = t THEN "TERMINATED"
                                         ELSE IF w \in J THEN "READY" ELSE state[w]],
                                     (ready0 \ {t}) \cup J)
    BY <1>9 DEF RR!Core!uthread_exit, ready0
  <2> DEFINE st == [w \in Thread |-> IF w = t THEN "TERMINATED"
                                    ELSE IF w \in J THEN "READY" ELSE state[w]]
  <2>2. current = t
    BY <1>9 DEF RR!Core!uthread_exit
  <2>3. u \notin (ready0 \ {t}) \cup J => st[u] \in {"TERMINATED", "BLOCKED"}
    BY <2>2 DEF ready0
  <2> QED
    BY <1>1, <1>2, <2>1, <2>3 DEF ready1
<1> QED
  BY <1>3, <1>4, <1>5, <1>6, <1>7, <1>8, <1>9

(* Round-Robin loses no runnable thread, but for the READY caller of       *)
(* yield.                                                                  *)
THEOREM RoundRobinKeepsRunnable ==
  ASSUME IsFiniteSet(Thread), Slice \in Nat \ {0}
  PROVE  RR!Spec => RR!KeptUnlessReady
<1>1. RR!QueueOK /\ [RR!Next]_RR!vars =>
        [\A t \in Thread :
           /\ t \in RR!Range(queue) \cup {current} \/ state[t] = "BLOCKED"
           /\ state'[t] \in {"READY", "RUNNING"}
           => \/ t \in RR!Range(queue)' \cup {current'}
              \/ t = current /\ state[t] = "READY"]_RR!vars
  <2> SUFFICES ASSUME RR!QueueOK, RR!Next, NEW t \in Thread,
                      t \in RR!Range(queue) \cup {current} \/ state[t] = "BLOCKED",
                      state'[t] \in {"READY", "RUNNING"}
               PROVE  \/ t \in RR!Range(queue)' \cup {current'}
                      \/ t = current /\ state[t] = "READY"
    OBVIOUS
  <2>1. CASE RR!Core!SchedNext
    BY <2>1, RRKept, RRFacts
  <2>2. CASE UNCHANGED RR!Core!schedVars
    BY <2>2 DEF RR!Core!schedVars
  <2> QED
    BY <2>1, <2>2, RRStep
<1> QED
  BY <1>1, RRInvariant, PTL DEF RR!Spec, RR!KeptUnlessReady

-----------------------------------------------------------------------------
(* Priority.                                                               *)

(* The threads in the queues of a run structure r.                         *)
Linked(r) == UNION {Members(r.q[p]) : p \in Level}

(* What BitmapExact says of a run structure r of threads with priorities   *)
(* pr.                                                                     *)
RunOK(r, pr) ==
  /\ r.q \in [Level -> Seq(Thread)]
  /\ r.b = {p \in Level : r.q[p] # <<>>}
  /\ \A p \in Level : Distinct(r.q[p]) /\ \A t \in Members(r.q[p]) : pr[t] = p

(* Unlinking a thread takes it out of its list and moves nobody back.      *)
LEMMA PRUnlink ==
  ASSUME NEW q \in Seq(Thread), NEW t \in Members(q), Distinct(q)
  PROVE  /\ Unlink(q, t) \in Seq(Thread) /\ Distinct(Unlink(q, t))
         /\ Members(Unlink(q, t)) = Members(q) \ {t}
         /\ \A i \in 1 .. Len(q), j \in 1 .. Len(Unlink(q, t)) :
              q[i] = Unlink(q, t)[j] => j <= i
<1>1. DOMAIN q = 1 .. Len(q) /\ \E i \in 1 .. Len(q) : q[i] = t
  BY DEF Members
<1> DEFINE c == CHOOSE i \in DOMAIN q : q[i] = t
<1>2. PICK k \in 1 .. Len(q) :
        /\ q[k] = t
        /\ Unlink(q, t) = SubSeq(q, 1, k - 1) \o SubSeq(q, k + 1, Len(q))
  <2>1. c \in 1 .. Len(q) /\ q[c] = t
    BY <1>1
  <2>2. Unlink(q, t) = SubSeq(q, 1, c - 1) \o SubSeq(q, c + 1, Len(q))
    BY Zenon DEF Unlink, RemoveAt
  <2> HIDE DEF c
  <2> QED
    BY <2>1, <2>2
<1> HIDE DEF c
<1>3. PICK r : r = Unlink(q, t)
  OBVIOUS
<1>4. r = SubSeq(q, 1, k - 1) \o SubSeq(q, k + 1, Len(q))
  BY <1>2, <1>3
<1>5. /\ r \in Seq(Thread) /\ Len(r) = Len(q) - 1 /\ Len(q) \in Nat
      /\ \A i \in 1 .. Len(q) - 1 : r[i] = IF i < k THEN q[i] ELSE q[i + 1]
  <2>1. /\ r \in Seq(Thread) /\ Len(r) = Len(q) - 1
        /\ \A i \in 1 .. Len(q) - 1 : r[i] = IF i < k THEN q[i] ELSE q[i + 1]
    <3> DEFINE e == SubSeq(q, 1, k - 1) \o SubSeq(q, k + 1, Len(q))
    <3>1. /\ e \in Seq(Thread) /\ Len(e) = Len(q) - 1
          /\ \A i \in 1 .. Len(q) - 1 : e[i] = IF i < k THEN q[i] ELSE q[i + 1]
      BY UnlinkFacts, Zenon
    <3> QED
      BY <1>4, <3>1
  <2> QED
    BY <2>1
<1>6. Distinct(r) /\ Members(r) = Members(q) \ {t}
  BY <1>2, <1>4, UnlinkMembers
<1>7. \A i \in 1 .. Len(q), j \in 1 .. Len(r) : q[i] = r[j] => j <= i
  BY <1>5 DEF Distinct
<1> QED
  BY <1>3, <1>5, <1>6, <1>7

(* add_to_priority_queue at the level of the thread.                       *)
LEMMA PRAdd ==
  ASSUME NEW r, NEW pr \in [Thread -> Level], RunOK(r, pr),
         NEW u \in Thread, u \notin Linked(r)
  PROVE  LET s == add_to_priority_queue(r, u, pr[u]) IN
         /\ RunOK(s, pr) /\ Linked(s) = Linked(r) \cup {u}
         /\ \A p \in Level : s.q[p] = IF p = pr[u] THEN Append(r.q[p], u) ELSE r.q[p]
<1> DEFINE s == add_to_priority_queue(r, u, pr[u])
<1>1. /\ s.q = [r.q EXCEPT ![pr[u]] = Append(r.q[pr[u]], u)]
      /\ s.b = IF r.q[pr[u]] = <<>> THEN r.b \cup {pr[u]} ELSE r.b
  BY DEF add_to_priority_queue
<1> HIDE DEF s
<1>2. r.q \in [Level -> Seq(Thread)] /\ pr[u] \in Level
  BY DEF RunOK
<1>3. \A p \in Level : s.q[p] = IF p = pr[u] THEN Append(r.q[p], u) ELSE r.q[p]
  BY <1>1, <1>2
<1>4. ASSUME NEW p \in Level
      PROVE  /\ s.q[p] \in Seq(Thread) /\ Distinct(s.q[p])
             /\ Members(s.q[p]) = IF p = pr[u] THEN Members(r.q[p]) \cup {u} ELSE Members(r.q[p])
             /\ s.q[p] # <<>> <=> p = pr[u] \/ r.q[p] # <<>>
  <2>1. r.q[p] \in Seq(Thread) /\ Distinct(r.q[p]) /\ u \notin Members(r.q[p])
    BY DEF RunOK, Linked
  <2>2. CASE p = pr[u]
    BY <1>3, <2>1, <2>2, AddFacts DEF wait_queue_add
  <2>3. CASE p # pr[u]
    BY <1>3, <2>1, <2>3
  <2> QED
    BY <2>2, <2>3
<1>5. s.q \in [Level -> Seq(Thread)]
  BY <1>1, <1>2
<1>6. s.b = {p \in Level : s.q[p] # <<>>}
  <2>1. r.b = {p \in Level : r.q[p] # <<>>}
    BY DEF RunOK
  <2>2. \A p \in Level : s.q[p] # <<>> <=> p = pr[u] \/ r.q[p] # <<>>
    BY <1>4
  <2>3. s.b = r.b \cup {pr[u]}
    BY <1>1, <1>2, <2>1
  <2> QED
    BY <1>2, <2>1, <2>2, <2>3
<1>7. RunOK(s, pr)
  <2>1. \A p \in Level : \A t \in Members(r.q[p]) : pr[t] = p
    BY DEF RunOK
  <2>2. \A p \in Level : Distinct(s.q[p]) /\ \A t \in Members(s.q[p]) : pr[t] = p
    BY <1>4, <2>1
  <2> QED
    BY <1>5, <1>6, <2>2 DEF RunOK
<1>8. Linked(s) = Linked(r) \cup {u}
  <2>1. ASSUME NEW t PROVE t \in Linked(s) <=> \E p \in Level : t \in Members(s.q[p])
    BY DEF Linked
  <2>2. ASSUME NEW t PROVE t \in Linked(r) <=> \E p \in Level : t \in Members(r.q[p])
    BY DEF Linked
  <2>3. \A p \in Level : \A t : t \in Members(s.q[p]) <=>
          t \in Members(r.q[p]) \/ (t = u /\ p = pr[u])
    BY <1>4
  <2> QED
    BY <1>2, <2>1, <2>2, <2>3
<1> QED
  BY <1>3, <1>7, <1>8 DEF s

(* remove_from_priority_queue of a thread in the queue of level l.         *)
LEMMA PRRemove ==
  ASSUME NEW r, NEW pr, RunOK(r, pr), NEW l \in Level, NEW u \in Members(r.q[l])
  PROVE  LET s == remove_from_priority_queue(r, u, l) IN
         /\ RunOK(s, pr) /\ Linked(s) = Linked(r) \ {u}
         /\ \A p \in Level : s.q[p] = IF p = l THEN Unlink(r.q[p], u) ELSE r.q[p]
<1> DEFINE s == remove_from_priority_queue(r, u, l)
           q == Unlink(r.q[l], u)
<1>1. s.q = [r.q EXCEPT ![l] = q] /\ s.b = IF q = <<>> THEN r.b \ {l} ELSE r.b
  BY DEF remove_from_priority_queue
<1>2. /\ r.q \in [Level -> Seq(Thread)]
      /\ q \in Seq(Thread) /\ Distinct(q) /\ Members(q) = Members(r.q[l]) \ {u}
  <2>1. r.q \in [Level -> Seq(Thread)] /\ Distinct(r.q[l])
    BY DEF RunOK
  <2> QED
    BY <2>1, PRUnlink
<1> HIDE DEF s
<1>3. \A p \in Level : s.q[p] = IF p = l THEN q ELSE r.q[p]
  BY <1>1, <1>2
<1>4. s.q \in [Level -> Seq(Thread)]
  BY <1>1, <1>2
<1>5. \A p \in Level : p # l => u \notin Members(r.q[p])
  BY DEF RunOK
<1>6. r.q[l] # <<>>
  BY <1>2, EmptyFacts
<1> HIDE DEF q
<1>7. s.b = {p \in Level : s.q[p] # <<>>}
  BY <1>1, <1>3, <1>6 DEF RunOK
<1>8. RunOK(s, pr)
  BY <1>2, <1>3, <1>4, <1>7 DEF RunOK
<1>9. Linked(s) = Linked(r) \ {u}
  BY <1>2, <1>3, <1>5 DEF Linked
<1> QED
  BY <1>3, <1>8, <1>9 DEF s, q

(* find_highest_priority of a bitmap with a bit set.                       *)
LEMMA PRHighest ==
  ASSUME Levels \in Nat \ {0}, NEW b \in SUBSET Level, b # {}
  PROVE  Max(b) \in b /\ \A p \in b : p <= Max(b)
<1>1. b \in SUBSET (0 .. Levels - 1) /\ Levels - 1 \in Nat
  BY DEF Level
<1>2. \E m \in b : \A p \in b : m >= p
  BY <1>1, Greatest
<1>3. Max(b) \in b /\ \A p \in b : Max(b) >= p
  BY <1>2 DEF Max
<1> QED
  BY <1>1, <1>3

(* priority_dequeue returns a thread whenever one is linked, and one of    *)
(* the highest priority there is, from the head of its queue.              *)
LEMMA PRDequeue ==
  ASSUME Levels \in Nat \ {0}, NEW r, NEW pr \in [Thread -> Level], RunOK(r, pr)
  PROVE  LET next == priority_dequeue(r)
             m == find_highest_priority(r) IN
         /\ Linked(r) = {} => next = Idle
         /\ Linked(r) # {} => /\ m \in Level /\ r.q[m] # <<>> /\ next = Head(r.q[m])
                              /\ next \in Members(r.q[m]) /\ next \in Thread
                              /\ \A u \in Linked(r) : pr[u] <= pr[next]
<1>1. /\ r.q \in [Level -> Seq(Thread)] /\ r.b = {p \in Level : r.q[p] # <<>>}
      /\ \A p \in Level : \A t \in Members(r.q[p]) : pr[t] = p
  BY DEF RunOK
<1>2. r.b = {} <=> Linked(r) = {}
  <2>1. \A p \in Level : r.q[p] = <<>> <=> Members(r.q[p]) = {}
    BY <1>1, EmptyFacts
  <2>2. ASSUME NEW t PROVE t \in Linked(r) <=> \E p \in Level : t \in Members(r.q[p])
    BY DEF Linked
  <2>3. CASE r.b = {}
    <3>1. \A p \in Level : Members(r.q[p]) = {}
      BY <1>1, <2>1, <2>3
    <3> QED
      BY <2>2, <2>3, <3>1
  <2>4. CASE r.b # {}
    <3>1. PICK p \in Level : Members(r.q[p]) # {}
      BY <1>1, <2>1, <2>4
    <3> QED
      BY <2>2, <2>4, <3>1
  <2> QED
    BY <2>3, <2>4
<1>3. CASE Linked(r) = {}
  BY <1>2, <1>3 DEF priority_dequeue
<1>4. CASE Linked(r) # {}
  <2> DEFINE m == Max(r.b)
  <2>1. m \in r.b /\ \A p \in r.b : p <= m
    BY <1>1, <1>2, <1>4, PRHighest
  <2>2. find_highest_priority(r) = m
    BY DEF find_highest_priority
  <2> HIDE DEF m
  <2>3. m \in Level /\ r.q[m] # <<>> /\ r.q[m] \in Seq(Thread)
    BY <1>1, <2>1
  <2>4. priority_dequeue(r) = Head(r.q[m])
    BY <1>2, <1>4, <2>2, <2>3 DEF priority_dequeue
  <2>5. Head(r.q[m]) \in Members(r.q[m])
    BY <2>3 DEF Members
  <2>6. \A u \in Linked(r) : pr[u] <= m
    BY <1>1, <2>1, EmptyFacts DEF Linked
  <2>7. pr[Head(r.q[m])] = m /\ Head(r.q[m]) \in Thread
    BY <1>1, <2>3, <2>5, EmptyFacts
  <2> QED
    BY <1>4, <2>2, <2>3, <2>4, <2>5, <2>6, <2>7
<1> QED
  BY <1>3, <1>4

(* The two ways of speaking of a list.                                     *)
LEMMA PRList ==
  ASSUME NEW q \in Seq(Thread)
  PROVE  Range(q) = Members(q) /\ (IsInjective(q) <=> Distinct(q))
  BY DEF Range, IsInjective, Members, Distinct

(* The queues of the module and the run structure as a value.              *)
LEMMA PRLinked ==
  ASSUME NEW qs \in [Level -> Seq(Thread)], NEW b
  PROVE  UNION {Range(qs[p]) : p \in Level} = Linked([q |-> qs, b |-> b])
<1>1. \A p \in Level : Range(qs[p]) = Members(qs[p])
  BY PRList
<1>2. {Range(qs[p]) : p \in Level} = {Members(qs[p]) : p \in Level}
  BY <1>1
<1> QED
  BY <1>2, Zenon DEF Linked

(* The invariant, unfolded once for the steps below.                       *)
LEMMA PRFacts ==
  ASSUME QueuesOK
  PROVE  /\ current \in Thread \cup {Idle} /\ state \in [Thread -> ThreadState]
         /\ priority \in [Thread -> Level] /\ slice_left \in [Thread -> BOOLEAN]
         /\ RunOK(Run, priority) /\ Run.q = queues /\ Run.b = bitmap
         /\ Queued = Linked(Run) /\ Linked(Run) \subseteq Thread
         /\ current \notin Linked(Run)
         /\ \A t \in Linked(Run) : state[t] = "READY"
         /\ current \in Thread => state[current] # "BLOCKED"
<1>1. queues \in [Level -> Seq(Thread)] /\ priority \in [Thread -> Level]
  BY DEF QueuesOK, TypeOK
<1>2. Queued = Linked(Run)
  BY <1>1, PRLinked DEF Queued, Run
<1>3. \A p \in Level : /\ Range(queues[p]) = Members(queues[p])
                       /\ IsInjective(queues[p]) <=> Distinct(queues[p])
  BY <1>1, PRList
<1>4. Run.q = queues /\ Run.b = bitmap
  BY DEF Run
<1>5. /\ bitmap = {p \in Level : queues[p] # <<>>}
      /\ \A p \in Level : Distinct(queues[p]) /\ \A t \in Members(queues[p]) : priority[t] = p
  BY <1>3 DEF QueuesOK, BitmapExact
<1>6. RunOK(Run, priority)
  BY <1>1, <1>4, <1>5 DEF RunOK
<1>7. Linked(Run) \subseteq Thread
  BY <1>1, <1>4, EmptyFacts DEF Linked
<1> QED
  BY <1>1, <1>2, <1>4, <1>6, <1>7 DEF QueuesOK, TypeOK, ThreadState

(* The unfolded invariant gives it back in the next state.                 *)
LEMMA PRFold ==
  ASSUME NEW r, RunOK(r, priority'), SetRun(r),
         current' \in Thread \cup {Idle}, state' \in [Thread -> ThreadState],
         priority' \in [Thread -> Level], slice_left' \in [Thread -> BOOLEAN],
         current' \notin Linked(r),
         \A t \in Linked(r) : state'[t] = "READY",
         current' \in Thread => state'[current'] # "BLOCKED"
  PROVE  QueuesOK' /\ Queued' = Linked(r)
<1>1. queues' = r.q /\ bitmap' = r.b
  BY DEF SetRun
<1>2. queues' \in [Level -> Seq(Thread)] /\ bitmap' \in SUBSET Level
  BY <1>1 DEF RunOK
<1>3. Queued' = Linked(r)
  <2>1. Queued' = Linked([q |-> queues', b |-> bitmap'])
    BY <1>2, PRLinked DEF Queued
  <2> QED
    BY <1>1, <2>1 DEF Linked
<1>4. \A p \in Level : /\ Range(queues'[p]) = Members(queues'[p])
                       /\ IsInjective(queues'[p]) <=> Distinct(queues'[p])
  BY <1>2, PRList
<1>5. BitmapExact'
  BY <1>1, <1>4 DEF BitmapExact, RunOK
<1>6. TypeOK'
  BY <1>2 DEF TypeOK, ThreadState
<1> QED
  BY <1>3, <1>5, <1>6 DEF QueuesOK

(* A step that ends in scheduler_schedule with priority_dequeue: it keeps  *)
(* the invariant, is scheduler_schedule of the core, and leaves no thread  *)
(* of higher priority behind.                                              *)
LEMMA PRSchedule ==
  ASSUME Levels \in Nat \ {0}, NEW st \in [Thread -> ThreadState], NEW r,
         priority \in [Thread -> Level], RunOK(r, priority),
         \A t \in Linked(r) : st[t] = "READY",
         Schedule(st, r), priority' = priority,
         slice_left' \in [Thread -> BOOLEAN]
  PROVE  /\ QueuesOK' /\ Core!scheduler_schedule(st, Linked(r))
         /\ \A u \in Queued' : current' # Idle /\ priority'[u] <= priority'[current']
<1> DEFINE next == priority_dequeue(r)
           m == find_highest_priority(r)
           s == IF next = Idle THEN r ELSE remove_from_priority_queue(r, next, m)
<1>1. /\ SetRun(s) /\ current' = next
      /\ state' = IF next = current THEN st ELSE Core!SwitchStates(st, next)
  BY DEF Schedule
<1>2. /\ Linked(r) = {} => next = Idle
      /\ Linked(r) # {} => /\ m \in Level /\ next \in Members(r.q[m]) /\ next \in Thread
                           /\ \A u \in Linked(r) : priority[u] <= priority[next]
  BY PRDequeue
<1> HIDE DEF next, m
<1>3. /\ RunOK(s, priority) /\ Linked(s) = Linked(r) \ {next}
      /\ next \in IF Linked(r) = {} THEN {Idle} ELSE Linked(r)
  <2>1. CASE Linked(r) = {}
    BY <1>2, <2>1
  <2>2. CASE Linked(r) # {}
    <3>1. next \in Linked(r) /\ next # Idle
      BY <1>2, <2>2, IdleAssumption DEF Linked
    <3>2. LET x == remove_from_priority_queue(r, next, m) IN
          RunOK(x, priority) /\ Linked(x) = Linked(r) \ {next}
      BY <1>2, <2>2, PRRemove
    <3> QED
      BY <2>2, <3>1, <3>2
  <2> QED
    BY <2>1, <2>2
<1> HIDE DEF s
<1>4. Linked(r) \subseteq Thread
  BY EmptyFacts DEF Linked, RunOK
<1>5. Core!SwitchStates(st, next) =
        [t \in Thread |-> IF t = next THEN "RUNNING"
                         ELSE IF t = current /\ st[t] = "RUNNING" THEN "READY" ELSE st[t]]
  BY DEF Core!SwitchStates
<1>6. state' \in [Thread -> ThreadState]
  BY <1>1, <1>5 DEF ThreadState
<1>7. \A t \in Thread :
        /\ t = next => state'[t] \in {"RUNNING", st[t]}
        /\ t # next => state'[t] \in {st[t], "READY"}
  BY <1>1, <1>5
<1>8. next \in Thread \cup {Idle} /\ next \notin Linked(s)
  BY <1>3, <1>4
<1>9. \A t \in Linked(s) : state'[t] = "READY"
  BY <1>3, <1>4, <1>7
<1>10. next \in Thread => state'[next] # "BLOCKED"
  BY <1>3, <1>7, IdleAssumption
<1>11. QueuesOK' /\ Queued' = Linked(s)
  BY <1>1, <1>3, <1>6, <1>8, <1>9, <1>10, PRFold
<1>12. Core!scheduler_schedule(st, Linked(r))
  BY <1>1, <1>3, <1>11 DEF Core!scheduler_schedule, Core!Dequeue
<1>13. \A u \in Linked(s) : next # Idle /\ priority[u] <= priority[next]
  BY <1>2, <1>3, IdleAssumption
<1> QED
  BY <1>1, <1>11, <1>12, <1>13

(* A change of priority keeps a run structure that does not hold the       *)
(* thread.                                                                 *)
LEMMA PRChange ==
  ASSUME NEW r, NEW pr \in [Thread -> Level], RunOK(r, pr),
         NEW u \in Thread, u \notin Linked(r), NEW p \in Level
  PROVE  RunOK(r, [pr EXCEPT ![u] = p])
<1>1. \A l \in Level : \A t \in Members(r.q[l]) : t \in Thread /\ t # u /\ pr[t] = l
  BY EmptyFacts DEF RunOK, Linked
<1> QED
  BY <1>1 DEF RunOK

(* uthread_setpriority keeps the invariant and moves no thread in or out   *)
(* of the run structure.                                                   *)
LEMMA PRSet ==
  ASSUME QueuesOK, NEW u \in Thread, NEW p \in Level, uthread_setpriority(u, p)
  PROVE  QueuesOK' /\ UNCHANGED Core!schedVars
<1> DEFINE r == Run
           pr == [priority EXCEPT ![u] = p]
<1>1. /\ priority' = pr /\ UNCHANGED <<current, state, slice_left>>
      /\ priority_update_priority(u, p)
  BY DEF uthread_setpriority
<1>2. pr \in [Thread -> Level] /\ pr[u] = p
  BY PRFacts
<1>3. PICK s : RunOK(s, pr) /\ Linked(s) = Linked(r) /\ SetRun(s)
  <2>1. CASE u \in Queued
    <3> DEFINE i == CHOOSE l \in Level : u \in Range(queues[l])
               x == remove_from_priority_queue(r, u, i)
    <3>1. \E l \in Level : u \in Range(queues[l])
      BY <2>1, Zenon DEF Queued
    <3>2. i \in Level /\ u \in Range(queues[i])
      BY <3>1
    <3>3. SetRun(add_to_priority_queue(x, u, p))
      BY <1>1, <2>1, Zenon DEF priority_update_priority
    <3> HIDE DEF i
    <3>4. i \in Level /\ u \in Members(r.q[i])
      <4>1. i \in Level
        BY <3>2 DEF Level
      <4>2. r.q = queues /\ queues[i] \in Seq(Thread)
        BY <4>1, PRFacts DEF RunOK
      <4> QED
        BY <3>2, <4>1, <4>2, PRList
    <3>5. RunOK(x, priority) /\ Linked(x) = Linked(r) \ {u}
      BY <3>4, PRFacts, PRRemove
    <3> HIDE DEF x, r, pr
    <3>6. RunOK(x, pr)
      BY <3>5, PRFacts, PRChange DEF pr
    <3>7. LET s == add_to_priority_queue(x, u, pr[u]) IN
          RunOK(s, pr) /\ Linked(s) = Linked(x) \cup {u}
      BY <1>2, <3>5, <3>6, PRAdd
    <3>8. u \in Linked(r)
      BY <3>4 DEF Linked
    <3> QED
      BY <1>2, <3>3, <3>5, <3>7, <3>8
  <2>2. CASE u \notin Queued
    <3>1. SetRun(r)
      BY <1>1, <2>2 DEF priority_update_priority, SetRun, Run
    <3>2. RunOK(r, pr)
      BY <2>2, PRFacts, PRChange
    <3> QED
      BY <3>1, <3>2
  <2> QED
    BY <2>1, <2>2
<1> HIDE DEF r, pr
<1>4. QueuesOK' /\ Queued' = Linked(s)
  <2>1. /\ current' \in Thread \cup {Idle} /\ state' \in [Thread -> ThreadState]
        /\ slice_left' \in [Thread -> BOOLEAN] /\ current' \notin Linked(s)
        /\ \A t \in Linked(s) : state'[t] = "READY"
        /\ current' \in Thread => state'[current'] # "BLOCKED"
    BY <1>1, <1>3, PRFacts DEF r
  <2> QED
    BY <1>1, <1>2, <1>3, <2>1, PRFold
<1> QED
  BY <1>1, <1>3, <1>4, PRFacts DEF Core!schedVars, r

(* Every step of scheduler.c over sched_priority.c keeps the invariant, is *)
(* a step of the core or leaves what the core sees alone, and gives the    *)
(* CPU to a thread of the highest priority.                                *)
LEMMA PRStep ==
  ASSUME Levels \in Nat \ {0}, QueuesOK, Next
  PROVE  /\ QueuesOK'
         /\ Core!SchedNext \/ UNCHANGED Core!schedVars
         /\ current' # current =>
              \A u \in Queued' : current' # Idle /\ priority'[u] <= priority'[current']
<1>1. PICK t \in Thread :
        \/ Yield(t) \/ Tick(t) \/ Block(t) \/ Unblock(t) \/ Exit(t)
        \/ SetPriority(t)
  BY DEF Next
<1> DEFINE r == Run
           Ready(u) == [state EXCEPT ![u] = "READY"]
           Highest == \A u \in Queued' :
                        current' # Idle /\ priority'[u] <= priority'[current']
<1>2. \A u \in Thread : Refill(u) \in [Thread -> BOOLEAN]
  BY PRFacts DEF Refill
<1>3. ASSUME NEW u \in Thread, u \notin Linked(r)
      PROVE  /\ RunOK(priority_enqueue(r, u), priority)
             /\ Linked(priority_enqueue(r, u)) = Linked(r) \cup {u}
             /\ Ready(u) \in [Thread -> ThreadState]
             /\ \A v \in Linked(r) \cup {u} : Ready(u)[v] = "READY"
  <2>1. /\ RunOK(priority_enqueue(r, u), priority)
        /\ Linked(priority_enqueue(r, u)) = Linked(r) \cup {u}
    BY <1>3, PRFacts, PRAdd DEF priority_enqueue
  <2>2. /\ Ready(u) \in [Thread -> ThreadState]
        /\ \A v \in Linked(r) \cup {u} : Ready(u)[v] = "READY"
    BY PRFacts DEF ThreadState
  <2> QED
    BY <2>1, <2>2
<1>4. /\ state \in [Thread -> ThreadState] /\ priority \in [Thread -> Level]
      /\ RunOK(r, priority) /\ Queued = Linked(r) /\ slice_left \in [Thread -> BOOLEAN]
      /\ current \notin Linked(r) /\ Linked(r) \subseteq Thread
      /\ \A u \in Linked(r) : state[u] = "READY"
      /\ current \in Thread => state[current] # "BLOCKED"
  BY PRFacts
<1> HIDE DEF Ready, r, Highest
<1>5. ASSUME current = t, priority' = priority, Requeue(t)
      PROVE  /\ QueuesOK' /\ Highest
             /\ Core!scheduler_schedule(Ready(t), Queued \cup {t})
  <2>1. /\ slice_left' = Refill(t)
        /\ Schedule(Ready(t), priority_enqueue(r, t))
    BY <1>5 DEF Requeue, Ready, r
  <2>2. /\ QueuesOK' /\ Highest
        /\ Core!scheduler_schedule(Ready(t), Linked(priority_enqueue(r, t)))
    BY <1>2, <1>3, <1>4, <1>5, <2>1, PRSchedule DEF Highest
  <2> QED
    BY <1>3, <1>4, <1>5, <2>2
<1>6. CASE Yield(t)
  <2>1. current = t /\ priority' = priority
    BY <1>6 DEF Yield
  <2>2. CASE state[t] = "RUNNING"
    <3>1. Requeue(t)
      BY <1>6, <2>2 DEF Yield
    <3>2. Core!uthread_yield(t)
      BY <1>5, <2>1, <2>2, <3>1 DEF Core!uthread_yield, Ready
    <3> QED
      BY <1>5, <2>1, <3>1, <3>2 DEF Core!SchedNext, Highest
  <2>3. CASE state[t] # "RUNNING"
    <3>1. slice_left' = slice_left /\ Schedule(state, r)
      BY <1>6, <2>3 DEF Yield, r
    <3>2. QueuesOK' /\ Highest /\ Core!scheduler_schedule(state, Queued)
      BY <1>4, <2>1, <3>1, PRSchedule DEF Highest
    <3>3. Core!uthread_yield(t)
      BY <2>1, <2>3, <3>2 DEF Core!uthread_yield
    <3> QED
      BY <3>2, <3>3 DEF Core!SchedNext, Highest
  <2> QED
    BY <2>2, <2>3
<1>7. CASE Tick(t)
  <2>1. current = t /\ priority' = priority
    BY <1>7 DEF Tick
  <2>2. PICK left \in BOOLEAN :
          \/ priority_should_preempt(t, left) /\ Requeue(t)
          \/ /\ slice_left' = [slice_left EXCEPT ![t] = left]
             /\ UNCHANGED <<current, state, queues, bitmap>>
    BY <1>7 DEF Tick
  <2>3. CASE priority_should_preempt(t, left) /\ Requeue(t)
    <3>1. \E p \in Level : queues[p] # <<>>
      <4>1. r.q = queues /\ r.b = bitmap
        BY PRFacts DEF r
      <4>2. bitmap = {p \in Level : queues[p] # <<>>}
        BY <1>4, <4>1 DEF RunOK
      <4>3. bitmap # {} \/ queues[priority[t]] # <<>>
        BY <2>3 DEF priority_should_preempt
      <4> QED
        BY <1>4, <4>2, <4>3
    <3>2. PICK p \in Level : r.q[p] # <<>>
      BY <3>1, PRFacts DEF r
    <3>3. r.q[p] \in Seq(Thread)
      BY <1>4 DEF RunOK
    <3>4. Members(r.q[p]) # {}
      BY <3>2, <3>3, EmptyFacts
    <3>5. Queued # {}
      BY <1>4, <3>4 DEF Linked
    <3>6. Core!scheduler_tick(t)
      BY <1>5, <2>1, <2>3, <3>5 DEF Core!scheduler_tick, Ready
    <3> QED
      BY <1>5, <2>1, <2>3, <3>6 DEF Core!SchedNext, Highest
  <2>4. CASE /\ slice_left' = [slice_left EXCEPT ![t] = left]
             /\ UNCHANGED <<current, state, queues, bitmap>>
    <3>1. slice_left' \in [Thread -> BOOLEAN]
      BY <1>4, <2>4
    <3>2. SetRun(r)
      BY <2>4 DEF SetRun, Run, r
    <3>3. QueuesOK' /\ Queued' = Linked(r)
      BY <1>4, <2>1, <2>4, <3>1, <3>2, PRFold
    <3> QED
      BY <1>4, <2>4, <3>3 DEF Core!schedVars
  <2> QED
    BY <2>2, <2>3, <2>4
<1>8. CASE Block(t)
  <2> DEFINE st == [state EXCEPT ![t] = "BLOCKED"]
  <2>1. /\ current = t /\ priority' = priority /\ slice_left' = slice_left
        /\ Schedule(st, r)
    BY <1>8 DEF Block, r
  <2>2. st \in [Thread -> ThreadState] /\ \A u \in Linked(r) : st[u] = "READY"
    BY <1>4, <2>1 DEF ThreadState
  <2> HIDE DEF st
  <2>3. QueuesOK' /\ Highest /\ Core!scheduler_schedule(st, Queued)
    BY <1>4, <2>1, <2>2, PRSchedule DEF Highest
  <2>4. Core!scheduler_block(t)
    BY <2>1, <2>3 DEF Core!scheduler_block, st
  <2> QED
    BY <2>3, <2>4 DEF Core!SchedNext, Highest
<1>9. CASE Unblock(t)
  <2>1. PICK u \in Thread :
          /\ state[u] = "BLOCKED" /\ state' = Ready(u)
          /\ SetRun(priority_enqueue(r, u)) /\ slice_left' = Refill(u)
    BY <1>9 DEF Unblock, Ready, r
  <2>2. /\ current = t /\ current' = current /\ priority' = priority
        /\ u \notin Linked(r) /\ u # t
    BY <1>4, <1>9, <2>1 DEF Unblock
  <2>3. state'[t] = state[t]
    BY <1>4, <2>1, <2>2 DEF Ready
  <2> DEFINE x == priority_enqueue(r, u)
  <2>4. /\ RunOK(x, priority) /\ Linked(x) = Linked(r) \cup {u}
        /\ state' \in [Thread -> ThreadState] /\ slice_left' \in [Thread -> BOOLEAN]
        /\ \A v \in Linked(x) : state'[v] = "READY"
    BY <1>2, <1>3, <2>1, <2>2
  <2>5. SetRun(x)
    BY <2>1
  <2> HIDE DEF x
  <2>6. QueuesOK' /\ Queued' = Linked(x)
    BY <1>4, <2>2, <2>3, <2>4, <2>5, PRFold
  <2>7. state' = [v \in Thread |-> IF v \in {u} THEN "READY" ELSE state[v]]
    BY <1>4, <2>1 DEF Ready
  <2>8. Core!scheduler_unblock({u})
    BY <1>4, <2>2, <2>4, <2>6, <2>7 DEF Core!scheduler_unblock
  <2>9. Core!Wake(t)
    BY <2>1, <2>2, <2>8 DEF Core!Wake
  <2> QED
    BY <2>2, <2>6, <2>9 DEF Core!SchedNext
<1>10. CASE Exit(t)
  <2> DEFINE st == [state EXCEPT ![t] = "TERMINATED"]
             st2(J) == [v \in Thread |-> IF v = t THEN "TERMINATED"
                                        ELSE IF v \in J THEN "READY" ELSE state[v]]
  <2>1. current = t /\ priority' = priority /\ t \notin Linked(r)
    BY <1>4, <1>10 DEF Exit
  <2>2. priority_remove(r, t) = r
    <3>1. Queued = UNION {Range(r.q[p]) : p \in Level}
      BY PRFacts DEF Queued, r
    <3>2. ~ \E p \in Level : t \in Range(r.q[p])
      BY <1>4, <2>1, <3>1
    <3> QED
      BY <3>2 DEF priority_remove
  <2>3. \/ Schedule(st, r) /\ slice_left' = slice_left
        \/ \E u \in Thread :
             /\ state[u] = "BLOCKED" /\ slice_left' = Refill(u)
             /\ Schedule([st EXCEPT ![u] = "READY"], priority_enqueue(r, u))
    BY <1>10, <2>2 DEF Exit, r
  <2>4. \A J \in SUBSET Thread : st2(J) \in [Thread -> ThreadState]
    BY <1>4 DEF ThreadState
  <2>5. ASSUME NEW J \in SUBSET Thread, \A u \in J : state[u] = "BLOCKED",
               \A u, v \in J : u = v,
               Core!scheduler_schedule(st2(J), Linked(r) \cup J)
        PROVE  Core!SchedNext
    <3>1. (Queued \ {t}) \cup J = Linked(r) \cup J
      BY <1>4, <2>1
    <3>2. Core!uthread_exit(t)
      BY <2>1, <2>5, <3>1 DEF Core!uthread_exit
    <3> QED
      BY <3>2 DEF Core!SchedNext
  <2>6. CASE Schedule(st, r) /\ slice_left' = slice_left
    <3>1. st = st2({})
      BY <1>4
    <3>2. \A u \in Linked(r) : st2({})[u] = "READY"
      BY <1>4, <2>1
    <3>3. Schedule(st2({}), r)
      BY <2>6, <3>1
    <3> HIDE DEF st, st2
    <3>4. QueuesOK' /\ Highest /\ Core!scheduler_schedule(st2({}), Linked(r))
      BY <1>4, <2>1, <2>4, <2>6, <3>2, <3>3, PRSchedule DEF Highest
    <3>5. Core!scheduler_schedule(st2({}), Linked(r) \cup {})
      BY <3>4
    <3> QED
      BY <2>5, <3>4, <3>5 DEF Highest
  <2>7. CASE \E u \in Thread :
               /\ state[u] = "BLOCKED" /\ slice_left' = Refill(u)
               /\ Schedule([st EXCEPT ![u] = "READY"], priority_enqueue(r, u))
    <3>1. PICK u \in Thread :
            /\ state[u] = "BLOCKED" /\ slice_left' = Refill(u)
            /\ Schedule([st EXCEPT ![u] = "READY"], priority_enqueue(r, u))
      BY <2>7
    <3>2. u # t /\ u \notin Linked(r)
      BY <1>4, <2>1, <3>1
    <3>3. [st EXCEPT ![u] = "READY"] = st2({u})
      BY <1>4, <3>2
    <3>4. \A v \in Linked(r) \cup {u} : st2({u})[v] = "READY"
      BY <1>4, <2>1, <3>2
    <3>5. Schedule(st2({u}), priority_enqueue(r, u))
      BY <3>1, <3>3
    <3> HIDE DEF st, st2
    <3>6. /\ QueuesOK' /\ Highest
          /\ Core!scheduler_schedule(st2({u}), Linked(priority_enqueue(r, u)))
      BY <1>2, <1>3, <1>4, <2>1, <2>4, <3>1, <3>2, <3>4, <3>5, PRSchedule DEF Highest
    <3>7. Core!scheduler_schedule(st2({u}), Linked(r) \cup {u})
      BY <1>3, <3>2, <3>6
    <3> QED
      BY <2>5, <3>1, <3>6, <3>7 DEF Highest
  <2> QED
    BY <2>3, <2>6, <2>7
<1>11. CASE SetPriority(t)
  <2>1. PICK u \in Thread, p \in Level : uthread_setpriority(u, p)
    BY <1>11 DEF SetPriority, Level
  <2>2. QueuesOK' /\ UNCHANGED Core!schedVars
    BY <2>1, PRSet
  <2> QED
    BY <2>2 DEF Core!schedVars
<1> QED
  BY <1>1, <1>6, <1>7, <1>8, <1>9, <1>10, <1>11

(* Initially the queue of each level holds the threads of its priority,    *)
(* but for the main thread.                                                *)
LEMMA PRInit ==
  ASSUME IsFiniteSet(Thread), Init
  PROVE  RunOK(Run, priority) /\ Linked(Run) = Thread \ {current}
<1> DEFINE At(p) == {t \in Thread \ {current} : priority[t] = p}
<1>1. /\ priority \in [Thread -> Level] /\ bitmap = {p \in Level : queues[p] # <<>>}
      /\ DOMAIN queues = Level /\ queues = [p \in Level |-> queues[p]]
      /\ \A p \in Level : queues[p] \in Orders(At(p))
  BY DEF Init
<1>2. ASSUME NEW p \in Level
      PROVE  queues[p] \in Seq(Thread) /\ Distinct(queues[p]) /\ Members(queues[p]) = At(p)
  <2>1. queues[p] \in [1 .. Cardinality(At(p)) -> At(p)] /\ IsInjective(queues[p])
    BY <1>1 DEF Orders
  <2>2. At(p) \in SUBSET Thread
    OBVIOUS
  <2>3. IsFiniteSet(At(p))
    BY <2>2, FS_Subset
  <2> HIDE DEF At
  <2> QED
    BY <2>1, <2>2, <2>3, OrderFacts
<1>3. Run.q = queues /\ Run.b = bitmap
  BY DEF Run
<1>4. queues \in [Level -> Seq(Thread)]
  BY <1>1, <1>2
<1>5. RunOK(Run, priority)
  BY <1>1, <1>2, <1>3, <1>4 DEF RunOK
<1>6. Linked(Run) = Thread \ {current}
  <2>1. ASSUME NEW t PROVE t \in Linked(Run) <=> \E p \in Level : t \in At(p)
    BY <1>2, <1>3 DEF Linked
  <2> QED
    BY <1>1, <2>1
<1> QED
  BY <1>5, <1>6

(* QueuesOK is an inductive invariant of scheduler.c over                  *)
(* sched_priority.c.                                                       *)
LEMMA PRInvariant ==
  Spec => []QueuesOK
<1>1. Init => QueuesOK
  <2> SUFFICES ASSUME Init PROVE QueuesOK
    OBVIOUS
  <2>1. /\ current \in Thread
        /\ state = [t \in Thread |-> IF t = current THEN "RUNNING" ELSE "READY"]
        /\ priority \in [Thread -> Level] /\ slice_left = [t \in Thread |-> t # current]
    BY DEF Init
  <2>2. RunOK([q |-> queues, b |-> bitmap], priority) /\ Linked(Run) = Thread \ {current}
    BY PRInit, PriorityAssumption DEF Run
  <2>3. /\ queues \in [Level -> Seq(Thread)] /\ bitmap = {p \in Level : queues[p] # <<>>}
        /\ \A p \in Level : Distinct(queues[p]) /\ \A t \in Members(queues[p]) : priority[t] = p
    BY <2>2 DEF RunOK
  <2>4. \A p \in Level : /\ Range(queues[p]) = Members(queues[p])
                         /\ IsInjective(queues[p]) <=> Distinct(queues[p])
    BY <2>3, PRList
  <2>5. BitmapExact
    BY <2>3, <2>4 DEF BitmapExact
  <2>6. Queued = Thread \ {current}
    BY <2>2, <2>3, PRLinked DEF Queued, Run
  <2>7. slice_left \in [Thread -> BOOLEAN]
    BY <2>1
  <2>8. state \in [Thread -> ThreadState]
    BY <2>1 DEF ThreadState
  <2>9. TypeOK
    BY <2>1, <2>3, <2>7, <2>8 DEF TypeOK
  <2>10. (\A t \in Queued : state[t] = "READY") /\ state[current] # "BLOCKED"
    BY <2>1, <2>6
  <2> QED
    BY <2>5, <2>6, <2>9, <2>10 DEF QueuesOK
<1>2. QueuesOK /\ [Next]_vars => QueuesOK'
  <2> SUFFICES ASSUME QueuesOK, [Next]_vars PROVE QueuesOK'
    OBVIOUS
  <2>1. CASE Next
    BY <2>1, PRStep, PriorityAssumption
  <2>2. CASE UNCHANGED vars
    BY <2>2 DEF vars, QueuesOK, TypeOK, BitmapExact, Queued
  <2> QED
    BY <2>1, <2>2
<1> QED
  BY <1>1, <1>2, PTL DEF Spec

(* The bitmap and the queues of sched_priority.c agree, whatever           *)
(* uthread_setpriority does in between, for any number of threads and      *)
(* levels.                                                                 *)
THEOREM BitmapIsExact ==
  Spec => []BitmapExact
<1>1. QueuesOK => BitmapExact
  BY DEF QueuesOK
<1> QED
  BY <1>1, PRInvariant, PTL

(* scheduler.c over sched_priority.c implements Scheduler: whatever is     *)
(* proved of the core holds for the Priority policy.                       *)
THEOREM PriorityImplementsScheduler ==
  Spec => ImplementsScheduler
<1>1. Init => Core!SchedInit
  <2> SUFFICES ASSUME Init PROVE Core!SchedInit
    OBVIOUS
  <2>1. /\ current \in Thread
        /\ state = [t \in Thread |-> IF t = current THEN "RUNNING" ELSE "READY"]
    BY DEF Init
  <2>2. queues \in [Level -> Seq(Thread)]
    BY PRInit, PriorityAssumption DEF RunOK, Run
  <2>3. Queued = Thread \ {current}
    BY <2>2, PRInit, PRLinked, PriorityAssumption DEF Queued, Run
  <2> QED
    BY <2>1, <2>3 DEF Core!SchedInit
<1>2. QueuesOK /\ [Next]_vars => [Core!SchedNext]_Core!schedVars
  <2>1. UNCHANGED vars => UNCHANGED Core!schedVars
    BY DEF vars, Core!schedVars, Queued
  <2> QED
    BY <2>1, PRStep, PriorityAssumption
<1> QED
  BY <1>1, <1>2, PRInvariant, PTL DEF Spec, ImplementsScheduler, Core!SchedSpec

(* The CPU never passes to a thread while one of higher priority stays     *)
(* queued.                                                                 *)
THEOREM HighestRunsFirst ==
  Spec => HighestFirst
<1>1. QueuesOK /\ [Next]_vars =>
        [current' # current =>
           \A t \in Queued' : current' # Idle /\ priority'[t] <= priority'[current']]_vars
  BY PRStep, PriorityAssumption
<1> QED
  BY <1>1, PRInvariant, PTL DEF Spec, HighestFirst

(* No member of a list moves back when another is appended and one is then *)
(* unlinked.                                                               *)
LEMMA PRShift ==
  ASSUME NEW q \in Seq(Thread), Distinct(q), NEW a,
         a = q \/ \E u \in Thread : u \notin Members(q) /\ a = Append(q, u),
         NEW b, b = a \/ \E v \in Members(a) : b = Unlink(a, v)
  PROVE  \A i \in 1 .. Len(q), j \in 1 .. Len(b) : q[i] = b[j] => j <= i
<1>1. /\ a \in Seq(Thread) /\ Distinct(a)
      /\ \A i \in 1 .. Len(q) : i \in 1 .. Len(a) /\ a[i] = q[i]
  <2>1. CASE a = q
    BY <2>1
  <2>2. ASSUME NEW u \in Thread, u \notin Members(q), a = Append(q, u)
        PROVE  /\ a \in Seq(Thread) /\ Distinct(a)
               /\ \A i \in 1 .. Len(q) : i \in 1 .. Len(a) /\ a[i] = q[i]
    BY <2>2, AddFacts DEF wait_queue_add
  <2> QED
    BY <2>1, <2>2
<1>2. \A i \in 1 .. Len(a), j \in 1 .. Len(b) : a[i] = b[j] => j <= i
  <2>1. CASE b = a
    BY <1>1, <2>1 DEF Distinct
  <2>2. ASSUME NEW v \in Members(a), b = Unlink(a, v)
        PROVE  \A i \in 1 .. Len(a), j \in 1 .. Len(b) : a[i] = b[j] => j <= i
    BY <1>1, <2>2, PRUnlink
  <2> QED
    BY <2>1, <2>2
<1> QED
  BY <1>1, <1>2

(* What a step that dispatches does to the queues.                         *)
LEMMA PRDispatchMoves ==
  ASSUME Levels \in Nat \ {0}, QueuesOK, NEW st, NEW r,
         r = Run \/ \E u \in Thread : u \notin Linked(Run) /\ r = priority_enqueue(Run, u),
         Schedule(st, r) \/ SetRun(r), NEW p \in Level
  PROVE  \A i \in 1 .. Len(queues[p]), j \in 1 .. Len(queues'[p]) :
           queues[p][i] = queues'[p][j] => j <= i
<1> DEFINE q == queues[p]
           a == r.q[p]
           b == queues'[p]
<1>1. q \in Seq(Thread) /\ Distinct(q) /\ Run.q[p] = q
  BY PRFacts DEF RunOK
<1>2. /\ RunOK(r, priority) /\ priority \in [Thread -> Level]
      /\ a = q \/ \E u \in Thread : u \notin Members(q) /\ a = Append(q, u)
  <2>1. CASE r = Run
    BY <1>1, <2>1, PRFacts
  <2>2. ASSUME NEW u \in Thread, u \notin Linked(Run), r = priority_enqueue(Run, u)
        PROVE  /\ RunOK(r, priority)
               /\ a = q \/ (u \notin Members(q) /\ a = Append(q, u))
    <3>1. u \notin Members(q)
      BY <1>1, <2>2 DEF Linked
    <3>2. /\ RunOK(r, priority)
          /\ r.q[p] = IF p = priority[u] THEN Append(Run.q[p], u) ELSE Run.q[p]
      BY <2>2, PRFacts, PRAdd DEF priority_enqueue
    <3> QED
      BY <1>1, <3>1, <3>2
  <2> QED
    BY <2>1, <2>2, PRFacts
<1>3. b = a \/ \E v \in Members(a) : b = Unlink(a, v)
  <2>1. CASE SetRun(r)
    BY <2>1 DEF SetRun
  <2>2. CASE Schedule(st, r)
    <3> DEFINE next == priority_dequeue(r)
               m == find_highest_priority(r)
    <3>1. SetRun(IF next = Idle THEN r ELSE remove_from_priority_queue(r, next, m))
      BY <2>2 DEF Schedule
    <3>2. /\ Linked(r) = {} => next = Idle
          /\ Linked(r) # {} => m \in Level /\ next \in Members(r.q[m])
      BY <1>2, PRDequeue
    <3> HIDE DEF next, m
    <3>3. CASE next = Idle
      BY <3>1, <3>3 DEF SetRun
    <3>4. CASE next # Idle
      <4>1. m \in Level /\ next \in Members(r.q[m])
        BY <3>2, <3>4
      <4>2. remove_from_priority_queue(r, next, m).q[p] =
              IF p = m THEN Unlink(r.q[p], next) ELSE r.q[p]
        BY <1>2, <4>1, PRRemove
      <4>3. b = remove_from_priority_queue(r, next, m).q[p]
        BY <3>1, <3>4 DEF SetRun
      <4> QED
        BY <4>1, <4>2, <4>3
    <3> QED
      BY <3>3, <3>4
  <2> QED
    BY <2>1, <2>2
<1> HIDE DEF q, a, b
<1>4. \A i \in 1 .. Len(q), j \in 1 .. Len(b) : q[i] = b[j] => j <= i
  BY <1>1, <1>2, <1>3, PRShift
<1> QED
  BY <1>4 DEF q, b

(* What uthread_setpriority does to the queues.                            *)
LEMMA PRSetMoves ==
  ASSUME QueuesOK, NEW u \in Thread, NEW l \in Level, uthread_setpriority(u, l),
         NEW p \in Level, NEW i \in 1 .. Len(queues[p]), NEW j \in 1 .. Len(queues'[p]),
         queues[p][i] = queues'[p][j]
  PROVE  j <= i \/ (queues[p][i] = u /\ p = l)
<1> DEFINE q == queues[p]
<1>1. q \in Seq(Thread) /\ Distinct(q) /\ Run.q[p] = q
  BY PRFacts DEF RunOK
<1>2. CASE u \notin Queued
  <2>1. queues' = queues
    BY <1>2 DEF uthread_setpriority, priority_update_priority
  <2> QED
    BY <1>1, <2>1 DEF Distinct
<1>3. CASE u \in Queued
  <2> DEFINE k == CHOOSE x \in Level : u \in Range(queues[x])
             s == remove_from_priority_queue(Run, u, k)
  <2>1. \E x \in Level : u \in Range(queues[x])
    BY <1>3, Zenon DEF Queued
  <2>2. k \in Level /\ u \in Range(queues[k])
    BY <2>1
  <2>3. queues' = add_to_priority_queue(s, u, l).q
    BY <1>3, Zenon DEF uthread_setpriority, priority_update_priority, SetRun
  <2> HIDE DEF k
  <2>4. k \in Level /\ u \in Members(Run.q[k])
    <3>1. k \in Level
      BY <2>2 DEF Level
    <3>2. Run.q = queues /\ queues[k] \in Seq(Thread)
      BY <3>1, PRFacts DEF RunOK
    <3> QED
      BY <2>2, <3>1, <3>2, PRList
  <2>5. /\ RunOK(s, priority) /\ Linked(s) = Linked(Run) \ {u}
        /\ s.q[p] = IF p = k THEN Unlink(q, u) ELSE q
    BY <1>1, <2>4, PRFacts, PRRemove
  <2> HIDE DEF s
  <2>6. queues'[p] = IF p = l THEN Append(s.q[p], u) ELSE s.q[p]
    BY <2>3, <2>5 DEF add_to_priority_queue, RunOK
  <2>7. u \notin Members(s.q[p]) /\ s.q[p] \in Seq(Thread)
    <3>1. Members(s.q[p]) \subseteq Linked(s)
      BY Zenon DEF Linked
    <3>2. u \notin Linked(s)
      BY <2>5
    <3> QED
      BY <2>5, <3>1, <3>2 DEF RunOK
  <2>8. p = k => u \in Members(q)
    BY <1>1, <2>4
  <2>9. j <= i \/ q[i] = u
    <3>1. s.q[p] = q \/ (u \in Members(q) /\ s.q[p] = Unlink(q, u))
      BY <2>5, <2>8
    <3>2. queues'[p] = s.q[p] \/ queues'[p] = Append(s.q[p], u)
      BY <2>6
    <3>3. PICK c \in Seq(Thread) : c = q /\ Distinct(c)
      BY <1>1
    <3>4. PICK b \in Seq(Thread) : b = s.q[p]
      BY <2>7
    <3>5. \A x \in 1 .. Len(c), y \in 1 .. Len(b) : c[x] = b[y] => y <= x
      <4>1. CASE b = c
        BY <3>3, <4>1 DEF Distinct
      <4>2. CASE u \in Members(c) /\ b = Unlink(c, u)
        BY <3>3, <4>2, PRUnlink
      <4> QED
        BY <3>1, <3>3, <3>4, <4>1, <4>2
    <3>6. PICK d : d = queues'[p] /\ (d = b \/ d = Append(b, u))
      BY <3>2, <3>4
    <3>7. \A y \in 1 .. Len(d) : d[y] = u \/ (y \in 1 .. Len(b) /\ d[y] = b[y])
      <4>1. CASE d = b
        BY <4>1
      <4>2. CASE d = Append(b, u)
        BY <4>2
      <4> QED
        BY <3>6, <4>1, <4>2
    <3>8. c[i] = d[j] /\ i \in 1 .. Len(c) /\ j \in 1 .. Len(d)
      BY <3>3, <3>6
    <3>9. j <= i \/ c[i] = u
      BY <3>5, <3>7, <3>8
    <3> QED
      BY <3>3, <3>9
  <2>10. p # l => q[i] # u
    BY <2>6, <2>7 DEF Members
  <2> QED
    BY <2>9, <2>10
<1> QED
  BY <1>2, <1>3

(* Within a level nothing overtakes a thread that stays in its queue,      *)
(* unless uthread_setpriority sends it to the tail.                        *)
THEOREM LevelsAreFIFO ==
  Spec => RoundRobinWithinLevel
<1>1. QueuesOK /\ QueuesOK' /\ [Next]_vars =>
        [\A p \in Level : \A i \in DOMAIN queues[p], j \in DOMAIN queues'[p] :
           queues[p][i] = queues'[p][j]
             => j <= i \/ uthread_setpriority(queues[p][i], p)]_vars
  <2> SUFFICES ASSUME QueuesOK, QueuesOK', Next, NEW p \in Level,
                      NEW i \in DOMAIN queues[p], NEW j \in DOMAIN queues'[p],
                      queues[p][i] = queues'[p][j]
               PROVE  j <= i \/ uthread_setpriority(queues[p][i], p)
    OBVIOUS
  <2>1. i \in 1 .. Len(queues[p]) /\ j \in 1 .. Len(queues'[p])
    <3>1. queues[p] \in Seq(Thread) /\ queues'[p] \in Seq(Thread)
      BY DEF QueuesOK, TypeOK
    <3>2. \A q \in Seq(Thread) : DOMAIN q = 1 .. Len(q)
      OBVIOUS
    <3> QED
      BY <3>1, <3>2
  <2>2. PICK t \in Thread :
          \/ Yield(t) \/ Tick(t) \/ Block(t) \/ Unblock(t) \/ Exit(t)
          \/ SetPriority(t)
    BY DEF Next
  <2>3. CASE SetPriority(t)
    <3>1. PICK u \in Thread, l \in Level : uthread_setpriority(u, l)
      BY <2>3 DEF SetPriority
    <3>2. j <= i \/ (queues[p][i] = u /\ p = l)
      BY <2>1, <3>1, PRSetMoves
    <3> QED
      BY <3>1, <3>2
  <2>4. ASSUME NEW st, NEW r,
               \/ r = Run
               \/ \E u \in Thread : u \notin Linked(Run) /\ r = priority_enqueue(Run, u),
               Schedule(st, r) \/ SetRun(r)
        PROVE  j <= i
    BY <2>1, <2>4, PRDispatchMoves, PriorityAssumption
  <2>5. \A u \in Thread : u = current \/ state[u] = "BLOCKED" => u \notin Linked(Run)
    BY PRFacts
  <2>6. current = t => priority_remove(Run, t) = Run
    <3>1. Queued = UNION {Range(Run.q[x]) : x \in Level}
      BY PRFacts DEF Queued
    <3>2. current = t => ~ \E x \in Level : t \in Range(Run.q[x])
      BY <2>5, <3>1, PRFacts
    <3> QED
      BY <3>2 DEF priority_remove
  <2>7. CASE Yield(t)
    BY <2>4, <2>5, <2>7 DEF Yield, Requeue
  <2>8. CASE Tick(t)
    <3>1. CASE Requeue(t)
      BY <2>4, <2>5, <2>8, <3>1 DEF Tick, Requeue
    <3>2. CASE UNCHANGED <<queues, bitmap>>
      <4>1. SetRun(Run)
        BY <3>2 DEF SetRun, Run
      <4> QED
        BY <2>4, <4>1
    <3> QED
      BY <2>8, <3>1, <3>2 DEF Tick
  <2>9. CASE Block(t)
    BY <2>4, <2>9 DEF Block
  <2>10. CASE Unblock(t)
    BY <2>4, <2>5, <2>10 DEF Unblock
  <2>11. CASE Exit(t)
    BY <2>4, <2>5, <2>6, <2>11 DEF Exit
  <2> QED
    BY <2>2, <2>3, <2>7, <2>8, <2>9, <2>10, <2>11
<1> QED
  BY <1>1, PRInvariant, PTL DEF Spec, RoundRobinWithinLevel
=============================================================================
