------------------------------ MODULE Priority ------------------------------
(***************************************************************************)
(* The scheduler core of scheduler.c driving the Priority policy of        *)
(* src/src/sched_priority.c: a FIFO queue per level and a bitmap of the    *)
(* levels that have threads.  Blocking stands for any wait of the library, *)
(* waking for any wake-up.  The time slice is abstracted to whether some   *)
(* of it is left; the count field, which nothing reads, is left out.       *)
(***************************************************************************)
EXTENDS Threads, Naturals, FiniteSets, SequencesExt

CONSTANT Levels \* UTHREAD_PRIORITY_LEVELS

ASSUME PriorityAssumption ==
  IsFiniteSet(Thread) /\ Levels \in Nat \ {0}

Level == 0 .. Levels - 1

VARIABLES queues,     \* g_priority_state.queues
          bitmap,     \* the bits set in g_priority_state.bitmap
          priority,   \* thread->priority
          slice_left  \* thread->timeslice_remaining > 0

vars == <<current, state, queues, bitmap, priority, slice_left>>

Queued == UNION {Range(queues[p]) : p \in Level}

Core == INSTANCE Scheduler WITH ready <- Queued

TypeOK ==
  /\ current \in Thread \cup {Idle}
  /\ state \in [Thread -> ThreadState]
  /\ queues \in [Level -> Seq(Thread)]
  /\ bitmap \in SUBSET Level
  /\ priority \in [Thread -> Level]
  /\ slice_left \in [Thread -> BOOLEAN]

-----------------------------------------------------------------------------
(* The run structure as a value: its queues q and its bitmap b.            *)
Run == [q |-> queues, b |-> bitmap]

SetRun(r) == queues' = r.q /\ bitmap' = r.b

(* Mutant: threads are put at the head of their queue.                     *)
AddAtHead(r, t, p) ==
  [q |-> [r.q EXCEPT ![p] = <<t>> \o @],
   b |-> IF r.q[p] = <<>> THEN r.b \cup {p} ELSE r.b]

add_to_priority_queue(r, t, p) ==
  [q |-> [r.q EXCEPT ![p] = Append(@, t)],
   b |-> IF r.q[p] = <<>> THEN r.b \cup {p} ELSE r.b]

Unlink(q, t) == RemoveAt(q, CHOOSE i \in DOMAIN q : q[i] = t)

(* Mutant: the bit of a queue that became empty stays set.                 *)
RemoveKeepsBit(r, t, p) ==
  [q |-> [r.q EXCEPT ![p] = Unlink(@, t)], b |-> r.b]

(* t is in the queue of level p.                                           *)
remove_from_priority_queue(r, t, p) ==
  LET q == Unlink(r.q[p], t) IN
  [q |-> [r.q EXCEPT ![p] = q], b |-> IF q = <<>> THEN r.b \ {p} ELSE r.b]

(* Mutant: the lowest level is looked for.                                 *)
FindLowest(r) == Min(r.b)

find_highest_priority(r) == Max(r.b)

priority_enqueue(r, t) == add_to_priority_queue(r, t, priority[t])

(* priority_dequeue inside scheduler_schedule: the thread, or NULL and so  *)
(* the idle thread when no bit is set or the queue behind it is empty.     *)
priority_dequeue(r) ==
  IF r.b = {} THEN Idle
  ELSE LET p == find_highest_priority(r) IN
       IF r.q[p] = <<>> THEN Idle ELSE Head(r.q[p])

priority_should_preempt(t, left) ==
  \/ bitmap # {} /\ find_highest_priority(Run) > priority[t]
  \/ ~left /\ queues[priority[t]] # <<>>

(* The lists of the threads of T in some order.                            *)
Orders(T) == {q \in [1 .. Cardinality(T) -> T] : IsInjective(q)}

(* The main thread has never been enqueued and has no time slice; the      *)
(* others were created in some order.                                      *)
Init ==
  /\ current \in Thread
  /\ state = [t \in Thread |-> IF t = current THEN "RUNNING" ELSE "READY"]
  /\ priority \in [Thread -> Level]
  /\ slice_left = [t \in Thread |-> t # current]
  /\ LET Created(p) == Orders({t \in Thread \ {current} : priority[t] = p}) IN
     queues \in {f \in [Level -> UNION {Created(p) : p \in Level}] :
                  \A p \in Level : f[p] \in Created(p)}
  /\ bitmap = {p \in Level : queues[p] # <<>>}

-----------------------------------------------------------------------------
Schedule(st, r) ==
  LET next == priority_dequeue(r) IN
  /\ SetRun(IF next = Idle THEN r
            ELSE remove_from_priority_queue(r, next, find_highest_priority(r)))
  /\ current' = next
  /\ state' = IF next = current THEN st ELSE Core!SwitchStates(st, next)

Refill(t) == [slice_left EXCEPT ![t] = TRUE]

Requeue(t) ==
  /\ slice_left' = Refill(t)
  /\ Schedule([state EXCEPT ![t] = "READY"], priority_enqueue(Run, t))

Yield(t) ==
  /\ current = t
  /\ \/ state[t] = "RUNNING" /\ Requeue(t)
     \/ /\ state[t] # "RUNNING"
        /\ Schedule(state, Run)
        /\ UNCHANGED slice_left
  /\ UNCHANGED priority

(* scheduler_tick with priority_on_tick, which may use the slice up.       *)
Tick(t) ==
  /\ current = t
  /\ \E left \in BOOLEAN :
       /\ left => slice_left[t]
       /\ \/ priority_should_preempt(t, left) /\ Requeue(t)
          \/ /\ ~priority_should_preempt(t, left)
             /\ slice_left' = [slice_left EXCEPT ![t] = left]
             /\ UNCHANGED <<current, state, queues, bitmap>>
  /\ UNCHANGED priority

Block(t) ==
  /\ current = t
  /\ Schedule([state EXCEPT ![t] = "BLOCKED"], Run)
  /\ UNCHANGED <<priority, slice_left>>

Unblock(t) ==
  /\ current = t
  /\ \E u \in Thread :
       /\ state[u] = "BLOCKED"
       /\ state' = [state EXCEPT ![u] = "READY"]
       /\ SetRun(priority_enqueue(Run, u))
       /\ slice_left' = Refill(u)
  /\ UNCHANGED <<current, priority>>

(* priority_remove: the thread's own level first, then all of them.        *)
priority_remove(r, t) ==
  IF \E p \in Level : t \in Range(r.q[p])
    THEN remove_from_priority_queue(r, t, CHOOSE p \in Level : t \in Range(r.q[p]))
    ELSE r

(* uthread_exit, which may wake the joiner.                                *)
Exit(t) ==
  /\ current = t
  /\ LET st == [state EXCEPT ![t] = "TERMINATED"]
         rest == priority_remove(Run, t)
     IN \/ Schedule(st, rest) /\ UNCHANGED slice_left
        \/ \E u \in Thread :
             /\ state[u] = "BLOCKED"
             /\ slice_left' = Refill(u)
             /\ Schedule([st EXCEPT ![u] = "READY"], priority_enqueue(rest, u))
  /\ UNCHANGED priority

(* Mutant: a queued thread stays where it is when its priority changes.    *)
UpdateNothing(u, p) == UNCHANGED <<queues, bitmap>>

(* A queued thread moves to the tail of the queue of level p, a level it   *)
(* already has included.                                                   *)
priority_update_priority(u, p) ==
  IF u \in Queued
    THEN LET i == CHOOSE l \in Level : u \in Range(queues[l]) IN
         SetRun(add_to_priority_queue(remove_from_priority_queue(Run, u, i), u, p))
    ELSE UNCHANGED <<queues, bitmap>>

uthread_setpriority(u, p) ==
  /\ priority' = [priority EXCEPT ![u] = p]
  /\ priority_update_priority(u, p)
  /\ UNCHANGED <<current, state, slice_left>>

SetPriority(t) ==
  /\ current = t
  /\ \E u \in Thread, p \in Level : uthread_setpriority(u, p)

Next ==
  \E t \in Thread :
    \/ Yield(t) \/ Tick(t) \/ Block(t) \/ Unblock(t) \/ Exit(t)
    \/ SetPriority(t)

Spec == Init /\ [][Next]_vars

-----------------------------------------------------------------------------
(* sched_priority.c behind scheduler.c is a scheduler as Scheduler.tla     *)
(* describes it: dequeue returns NULL only when no thread is queued, and   *)
(* should_preempt answers true only when one is.                           *)
ImplementsScheduler == Core!SchedSpec

(* The bitmap has exactly the bits of the levels that have threads, each   *)
(* queued thread is in the queue of its own priority, and there once:      *)
(* priority_dequeue, remove and update_priority keep the two views of the  *)
(* run structure together.                                                 *)
BitmapExact ==
  /\ bitmap = {p \in Level : queues[p] # <<>>}
  /\ \A p \in Level :
       /\ \A t \in Range(queues[p]) : priority[t] = p
       /\ IsInjective(queues[p])

(* The inductive invariant behind the properties of this policy: besides,  *)
(* the queues hold ready threads, and the running thread is not among them *)
(* and is not asleep.                                                      *)
QueuesOK ==
  /\ TypeOK
  /\ BitmapExact
  /\ current \notin Queued
  /\ \A t \in Queued : state[t] = "READY"
  /\ current \in Thread => state[current] # "BLOCKED"

(* "Higher priority threads always run before lower priority ones.": the   *)
(* CPU never passes to a thread while one of higher priority stays queued, *)
(* whatever priorities were changed before.                                *)
HighestFirst ==
  [][current' # current =>
       \A t \in Queued' : current' # Idle /\ priority'[t] <= priority'[current']]_vars

(* "Within the same priority level, threads run in round-robin fashion.":  *)
(* nothing overtakes a thread that stays in its queue, unless              *)
(* uthread_setpriority sends it to the tail.                               *)
RoundRobinWithinLevel ==
  [][\A p \in Level : \A i \in DOMAIN queues[p], j \in DOMAIN queues'[p] :
       queues[p][i] = queues'[p][j]
         => j <= i \/ uthread_setpriority(queues[p][i], p)]_vars
=============================================================================
