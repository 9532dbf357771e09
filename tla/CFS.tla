--------------------------------- MODULE CFS ---------------------------------
(***************************************************************************)
(* The scheduler core of scheduler.c driving the CFS policy of             *)
(* src/src/sched_cfs.c: threads in the order of their virtual runtime, a   *)
(* floor min_vruntime, and time slices.  The red-black tree is the         *)
(* sequence RunOrder describes; RBTree shows that it implements it.        *)
(*                                                                         *)
(* Time is in units of which Granularity make up CFS_MIN_GRANULARITY_NS.   *)
(* ran is the clock less start_time of the running thread: scheduler_tick  *)
(* and cfs_on_yield read it without setting start_time again, only a       *)
(* switch does.  The main thread has start_time = 0 until it is first      *)
(* switched to, so that its ran is the whole reading of the clock.         *)
(***************************************************************************)
EXTENDS Threads, Integers, Sequences, FiniteSets, Functions

CONSTANTS Nices,        \* the nice values the program uses
          Granularity,  \* CFS_MIN_GRANULARITY_NS
          Boot,         \* the monotonic clock when the main thread starts
          MaxStep,      \* bound on the time between two steps
          MaxRan,       \* bound on ran
          MaxVruntime,  \* bound on a virtual runtime
          Word          \* 2^64, the range of a uint64_t

ASSUME CFSAssumption ==
  /\ IsFiniteSet(Thread)
  /\ Nices \subseteq -20 .. 19
  /\ {Granularity, Boot, MaxStep, MaxRan, MaxVruntime, Word} \subseteq Nat
  /\ Boot <= MaxRan
  /\ MaxVruntime + Granularity < Word

VARIABLES tree,          \* the threads in the red-black tree, from the left
          vruntime,
          min_vruntime,  \* g_cfs_state.min_vruntime
          nice,
          slice,         \* timeslice_remaining: "none", "some" or "endless"
          ran,
          timed          \* start_time > 0 for the running thread

clock == <<ran, timed>>
vars == <<current, state, tree, vruntime, min_vruntime, nice, slice, clock>>

Run == INSTANCE RunOrder WITH Node <- Thread, order <- tree

Core == INSTANCE Scheduler WITH ready <- Range(tree)

TypeOK ==
  /\ current \in Thread \cup {Idle}
  /\ state \in [Thread -> ThreadState]
  /\ tree \in Seq(Thread)
  /\ vruntime \in [Thread -> 0 .. MaxVruntime]
  /\ min_vruntime \in 0 .. MaxVruntime
  /\ nice \in [Thread -> Nices]
  /\ slice \in [Thread -> {"none", "some", "endless"}]
  /\ ran \in 0 .. MaxRan
  /\ timed \in BOOLEAN

-----------------------------------------------------------------------------
(* Weights and slices.                                                     *)
weight_table ==
  <<88761, 71755, 56483, 46273, 36291, 29154, 23254, 18705, 14949, 11916,
     9548,  7620,  6100,  4904,  3906,  3121,  2501,  1991,  1586,  1277,
     1024,   820,   655,   526,   423,   335,   272,   215,   172,   137,
      110,    87,    70,    56,    45,    36,    29,    23,    18,    15>>

nice_to_weight(n) == weight_table[n + 21]

(* Virtual time: what elapsed nanoseconds cost a thread of weight w.       *)
Charge(elapsed, w) == (elapsed * 1024) \div w

(* The int product CFS_TARGET_LATENCY_NS * weight of cfs_enqueue, which    *)
(* overflows from weight 108 on and wraps in the builds of CMakeLists.txt. *)
(* 20,000,000 is 256 * 78125, so its sign is bit 23 of 78125 * weight,     *)
(* computed here in two halves that do not overflow.                       *)
ProductNegative(w) ==
  LET low == 78125 * (w % 256)
      high == (78125 * (w \div 256)) % 65536
  IN (low + 256 * high) % 16777216 >= 8388608

(* A negative product becomes an uint64_t of five centuries; any other     *)
(* gives a slice of 1 to 2.1 ms, whatever the number of threads.           *)
NewSlice(t) ==
  IF ProductNegative(nice_to_weight(nice[t])) THEN "endless" ELSE "some"

(* The main thread was never enqueued and has no slice; the others were    *)
(* created in some order, with vruntime 0.                                 *)
Init ==
  /\ current \in Thread
  /\ state = [t \in Thread |-> IF t = current THEN "RUNNING" ELSE "READY"]
  /\ tree \in {q \in [1 .. Cardinality(Thread) - 1 -> Thread \ {current}] :
                 IsInjective(q)}
  /\ vruntime = [t \in Thread |-> 0]
  /\ min_vruntime = 0
  /\ nice \in {f \in [Thread -> Nices] : f[current] = 0}
  /\ slice = [t \in Thread |-> IF t = current THEN "none" ELSE NewSlice(t)]
  /\ ran = Boot
  /\ timed = FALSE

-----------------------------------------------------------------------------
(* The vruntime t is enqueued with, when its own is vr[t].                 *)
Floored(vr, t, floor) ==
  [vr EXCEPT ![t] = IF vr[t] < floor THEN floor ELSE vr[t]]

(* Mutant: the rightmost thread is taken.                                  *)
ScheduleRightmost(st, q, time) ==
  LET next == IF q = <<>> THEN Idle ELSE q[Len(q)] IN
  /\ tree' = IF q = <<>> THEN q ELSE SubSeq(q, 1, Len(q) - 1)
  /\ current' = next
  /\ state' = IF next = current THEN st ELSE Core!SwitchStates(st, next)
  /\ ran' = IF next = current THEN time ELSE 0
  /\ timed' = (timed \/ next # current)

(* scheduler_schedule with cfs_dequeue.  Only a switch sets start_time.    *)
Schedule(st, q, time) ==
  LET next == IF q = <<>> THEN Idle ELSE Head(q) IN
  /\ tree' = IF q = <<>> THEN q ELSE Tail(q)
  /\ current' = next
  /\ state' = IF next = current THEN st ELSE Core!SwitchStates(st, next)
  /\ ran' = IF next = current THEN time ELSE 0
  /\ timed' = (timed \/ next # current)

(* Mutant: a thread that gives the CPU up is not put back in the tree.     *)
RequeueDrops(u, vr, floor, time) ==
  /\ vruntime' = Floored(vr, u, floor)
  /\ slice' = [slice EXCEPT ![u] = NewSlice(u)]
  /\ Schedule([state EXCEPT ![u] = "READY"], tree, time)

(* cfs_enqueue of u, whose vruntime has come to vr[u], followed by         *)
(* scheduler_schedule.                                                     *)
Requeue(u, vr, floor, time) ==
  LET fl == Floored(vr, u, floor) IN
  /\ vruntime' = fl
  /\ slice' = [slice EXCEPT ![u] = NewSlice(u)]
  /\ Schedule([state EXCEPT ![u] = "READY"], Run!InsertBy(tree, u, fl), time)

(* uthread_yield: cfs_on_yield charges the time since start_time, if set.  *)
Yield(t) ==
  /\ current = t
  /\ \E step \in 0 .. MaxStep :
       LET time == ran + step
           vr == IF timed THEN [vruntime EXCEPT ![t] = @ + Charge(time, nice_to_weight(nice[t]))]
                 ELSE vruntime
       IN /\ time <= MaxRan
          /\ vr[t] <= MaxVruntime
          /\ \/ state[t] = "RUNNING" /\ Requeue(t, vr, min_vruntime, time)
             \/ /\ state[t] # "RUNNING"
                /\ vruntime' = vr
                /\ Schedule(state, tree, time)
                /\ UNCHANGED slice
  /\ UNCHANGED <<min_vruntime, nice>>

(* Mutant: only the slice counts.                                          *)
PreemptBySlice(t, vr, left) == left = "none" /\ tree # <<>>

(* cfs_should_preempt: the difference is taken in a uint64_t.              *)
cfs_should_preempt(t, vr, left) ==
  IF left = "none" THEN tree # <<>>
  ELSE tree # <<>> /\ (vr[t] - vr[Head(tree)]) % Word > Granularity

(* scheduler_tick with cfs_on_tick, which may use up a slice that has an   *)
(* end.                                                                    *)
Tick(t) ==
  /\ current = t
  /\ \E step \in 1 .. MaxStep, left \in {"none", slice[t]} :
       LET time == ran + step
           vr == [vruntime EXCEPT ![t] = @ + Charge(time, nice_to_weight(nice[t]))]
           floor == IF vr[t] > min_vruntime THEN vr[t] ELSE min_vruntime
       IN /\ time <= MaxRan
          /\ vr[t] <= MaxVruntime
          /\ left = "none" => slice[t] # "endless"
          /\ min_vruntime' = floor
          /\ \/ cfs_should_preempt(t, vr, left) /\ Requeue(t, vr, floor, time)
             \/ /\ ~cfs_should_preempt(t, vr, left)
                /\ vruntime' = vr
                /\ slice' = [slice EXCEPT ![t] = left]
                /\ ran' = time
                /\ UNCHANGED <<current, state, tree, timed>>
  /\ UNCHANGED nice

(* A wait of the library: scheduler_schedule without cfs_on_yield.         *)
Block(t) ==
  /\ current = t
  /\ Schedule([state EXCEPT ![t] = "BLOCKED"], tree, ran)
  /\ UNCHANGED <<vruntime, min_vruntime, nice, slice>>

(* Mutant: the thread is linked first and its vruntime raised afterwards.  *)
UnblockThenFloor(t) ==
  /\ current = t
  /\ \E u \in Thread :
       /\ state[u] = "BLOCKED"
       /\ state' = [state EXCEPT ![u] = "READY"]
       /\ vruntime' = Floored(vruntime, u, min_vruntime)
       /\ tree' = Run!InsertBy(tree, u, vruntime)
       /\ slice' = [slice EXCEPT ![u] = NewSlice(u)]
  /\ UNCHANGED <<current, min_vruntime, nice, clock>>

Unblock(t) ==
  /\ current = t
  /\ \E u \in Thread :
       LET fl == Floored(vruntime, u, min_vruntime) IN
       /\ state[u] = "BLOCKED"
       /\ state' = [state EXCEPT ![u] = "READY"]
       /\ vruntime' = fl
       /\ tree' = Run!InsertBy(tree, u, fl)
       /\ slice' = [slice EXCEPT ![u] = NewSlice(u)]
  /\ UNCHANGED <<current, min_vruntime, nice, clock>>

(* uthread_exit, which may wake a joiner.  cfs_remove finds nothing: the   *)
(* running thread is not in the tree.                                      *)
Exit(t) ==
  /\ current = t
  /\ LET st == [state EXCEPT ![t] = "TERMINATED"] IN
     \/ /\ Schedule(st, Run!Without(tree, t), ran)
        /\ UNCHANGED <<vruntime, slice>>
     \/ \E u \in Thread :
          LET fl == Floored(vruntime, u, min_vruntime) IN
          /\ state[u] = "BLOCKED"
          /\ vruntime' = fl
          /\ slice' = [slice EXCEPT ![u] = NewSlice(u)]
          /\ Schedule([st EXCEPT ![u] = "READY"],
                      Run!InsertBy(Run!Without(tree, t), u, fl), ran)
  /\ UNCHANGED <<min_vruntime, nice>>

(* uthread_setnice: a thread in the tree keeps its place and its slice.    *)
SetNice(t) ==
  /\ current = t
  /\ \E u \in Thread, n \in Nices : nice' = [nice EXCEPT ![u] = n]
  /\ UNCHANGED <<current, state, tree, vruntime, min_vruntime, slice, clock>>

Next ==
  \E t \in Thread :
    Yield(t) \/ Tick(t) \/ Block(t) \/ Unblock(t) \/ Exit(t) \/ SetNice(t)

Spec == Init /\ [][Next]_vars

-----------------------------------------------------------------------------
(* sched_cfs.c behind scheduler.c is a scheduler as Scheduler.tla          *)
(* describes it, whatever the unsigned difference in cfs_should_preempt    *)
(* and the overflow in cfs_enqueue make of preemption.                     *)
ImplementsScheduler == Core!SchedSpec

(* The threads in the tree stay in the order of their keys: no tick, yield *)
(* or change of nice moves the vruntime of a thread that is linked.  The   *)
(* search tree of RBTree is one only as long as this holds.                *)
TreeSorted ==
  /\ IsInjective(tree)
  /\ \A i, j \in DOMAIN tree : i < j => vruntime[tree[i]] <= vruntime[tree[j]]

(* The inductive invariant behind the properties of this policy: besides,  *)
(* the tree holds ready threads, and the running thread is not among them  *)
(* and is not asleep.                                                      *)
TreeOK ==
  /\ TypeOK
  /\ TreeSorted
  /\ current \notin Range(tree)
  /\ \A t \in Range(tree) : state[t] = "READY"
  /\ current \in Thread => state[current] # "BLOCKED"

(* "Threads with lower vruntime get priority.": the CPU never passes to a  *)
(* thread while one with a lower vruntime stays in the tree.               *)
LowestFirst ==
  [][current' # current =>
       \A u \in Range(tree)' : current' # Idle /\ vruntime'[current'] <= vruntime'[u]]_vars

(* "Preempt if leftmost has significantly lower vruntime": after a timer   *)
(* tick no waiting thread is more than the granularity behind the running  *)
(* one, whatever has been charged to either since it was enqueued.         *)
TickFair ==
  [][(\E t \in Thread : Tick(t)) =>
       \A u \in Range(tree)' : vruntime'[current'] <= vruntime'[u] + Granularity]_vars

(* No runnable thread is lost but in one way: a thread that the scheduler  *)
(* handed the CPU it already had stays in state READY, and its next yield  *)
(* does not enqueue it.  Every other yield, tick, wait, wake-up and exit   *)
(* of scheduler.c leaves each runnable thread running or linked.           *)
KeptUnlessReady ==
  [][\A t \in Thread :
       /\ t \in Range(tree) \cup {current} \/ state[t] = "BLOCKED"
       /\ state'[t] \in {"READY", "RUNNING"}
       => \/ t \in Range(tree)' \cup {current'}
          \/ t = current /\ state[t] = "READY"]_vars
=============================================================================
