# LibUThread: a verification project

LibUThread is a user-level threading library in C: M threads on one kernel
thread, switched with `swapcontext`, preempted by a `SIGALRM` timer, with three
scheduling policies and four synchronisation primitives. This directory holds
TLA+ models of it, the TLC runs that check them, and TLAPS proofs about every
component. `PROJECT.json` lists components, runs, hazards, findings and theorems, and
maps every definition to the source lines it models.

## 1. Inventory

| component | state | operations | talks to | hard because |
|---|---|---|---|---|
| scheduler core (`scheduler.c`) | `current`, `state` of each thread, `in_scheduler`, the table of threads | schedule, yield, block, unblock, tick; wait queues | calls the policy's `scheduler_ops`; called by everything | one thread's state and links are changed by others; a tick may fall between two statements |
| Round-Robin (`sched_rr.c`) | FIFO list, time slices | enqueue, dequeue, remove, on_tick, should_preempt | called by the core | fairness |
| Priority (`sched_priority.c`) | 32 lists, bitmap | the same, update_priority | called by the core and `uthread_setpriority` | two views of one structure |
| CFS (`sched_cfs.c`) | red-black tree by vruntime, leftmost cache, `min_vruntime`, slices | the same | called by the core and `uthread_setnice` | unsigned arithmetic, overflow, tree invariants, keys that change |
| preemption (`timer.c`, `context.c`) | process-wide nesting counter and pending flag, a signal mask per context, saved contexts; interval timer, `s_timer_active`, `preemption_enabled`, `timeslice_ns` | disable, enable, signal handler, switch; start, stop, set interval | brackets every critical section | counter and mask are switched differently; the timer is controlled with the signal open |
| mutex (`mutex.c`) | lock word, owner, recursion count, type, queue | init, destroy, lock, trylock, unlock | wait queues, scheduler | barging, wake-ups, nesting, lazy initialisation |
| semaphore (`semaphore.c`) | value, queue | init, destroy, wait, trywait, timedwait, post | wait queues, scheduler | timeouts racing wake-ups |
| read-write lock (`rwlock.c`) | readers, writer, pending writers, two queues | init, destroy, rdlock, wrlock, try variants, unlock | wait queues, scheduler | who wakes whom; writer preference |
| condition variable (`condvar.c`) | queue (and the mutex) | init, destroy, wait, timedwait, signal, broadcast | mutex fields, wait queues, scheduler | release and sleep must be one step for a signaller |
| lifecycle (`uthread.c`) | thread structures, `detached`, `exited`, `joiner`, table | init, shutdown, create, join, detach, exit | scheduler | who frees what, and when |

What makes each correct, in one line: the core loses no runnable thread; a
policy returns some queued thread unless there is none; a mutex is an abstract
lock whose wake-ups are not lost; a semaphore hands out each unit once; a
read-write lock keeps writers apart and does not starve them; a condition wait
cannot miss a signal and gives the mutex back; a join sees its target's exit and
nobody uses a freed thread; a critical section is not interrupted; the timer runs
when, and with the interval that, the program was told.

## 2. Modules

``` Scheduler  <- Mutex      <- CondVar          AbstractLock <- (refined by) Mutex
<- Semaphore                      Scheduler    <- (refined by) RoundRobin, Priority,
CFS            <- RWLock                         RunOrder     <- CFS, (refined by)
RBTree            <- Lifecycle                      Threads      <- Scheduler,
RoundRobin, Priority, CFS            <- Preemption

SchedulerProofs <- MutexProofs (Mutex, CondVar), SemaphoreProofs, RWLockProofs,
                   LifecycleProofs, PreemptionProofs,
                   PriorityProofs (Priority, RoundRobin), CFSProofs (CFS, RBTree)
```

**Threads** declares what the core and the policies share: the threads, `current`
and `state`.

**Scheduler** is what every policy promises: `ready` is the set of threads linked
in the run structure, and `dequeue` may return any of them. `scheduler_schedule`
is an operator on the states and run structure that the caller enters it with, so
that a handler and the switch at its end are one action. A dispatch to `Idle` ends
the behaviour: `uthread_init` zeroes `idle_thread` and never makes its context, so
what follows is undefined. This is why the cfg files say `CHECK_DEADLOCK FALSE`:
the system really stops there, as it does when all threads have exited or wait.

**RoundRobin**, **Priority** and **CFS** model the policy's own structure behind
the same core and are shown to implement `Scheduler` (`ImplementsScheduler`, with
`ready` mapped to the threads in the structure). What the other modules show for any
choice of the next thread therefore holds for all three policies. A thread that
exits may wake its joiner in the same step, as `uthread_exit` does.

**CFS** keeps the tree as a sequence in run order and adds the arithmetic. Time is
in units of which `Granularity` make up 1 ms; `ran` is the clock less `start_time`,
which only a switch resets. `vruntime` grows by `elapsed * 1024 / weight`, with
weights from the table of `context.c`. The unsigned difference of
`cfs_should_preempt` is taken modulo `Word`, which stands in for 2^64: the largest
difference and the granularity are below it, as they are in the code. The slice is
"none", "some" or "endless"; which of the last two `cfs_enqueue` gives follows from
the exact sign of the 32-bit product it computes.

**RunOrder** says what CFS wants of its tree: a sequence sorted by vruntime, first
come first served among equals. **RBTree** is the tree itself, link by link, with
rotations, transplants, both fix-ups and the leftmost cache; it implements RunOrder
with `order` mapped to the in-order traversal. The mirrored halves of the code are one
operator with a side as its parameter. Each turn of a loop is a step, so `thread`, `at`
and `up`, the locals of the functions, are variables and `pc` says which function is
under way; nothing runs between two such steps, since every caller has `SIGALRM`
blocked. The keys are constant: the key of a linked thread never moves (`TreeSorted`),
and a thread that comes back with another vruntime is to the tree another node, for
`rb_remove` clears and `rb_insert` sets all of its links.

**Preemption** has the nesting counter, the masks and the switching of contexts, and
the interval timer: `itimer` is what `setitimer` was last given, `sigalrm` a signal
that waits for the mask to open. `uthread_set_preemption(true)` runs with the signal
open and is four steps; `uthread_set_preemption(false)` is one, since nothing
preempts once the flag is false, and `uthread_set_timeslice` runs masked. Ticks fall
wherever the signal is open, also between the choice of the next thread and
`swapcontext` when a wait loop entered `scheduler_schedule()` unmasked. Such a tick
saves one thread's execution in another's context; the behaviour is followed until that
context is resumed, when what runs is undefined.

**Mutex**, **Semaphore**, **RWLock**, **CondVar**, **Lifecycle** have one action
per section of a handler that runs with `SIGALRM` blocked. `pc[t]` tells the
places in a handler where it is open: before `preemption_disable()`, and between
the `preemption_enable()` of a wait loop and its `scheduler_schedule()`
("park"). **Preemption** justifies this granularity: `CriticalMasked` says that
the mask is closed throughout a critical section.

Two kinds of code run with the signal open and are still part of one action: the four
destroy functions (`mutex.c:97`, `semaphore.c:45`, `rwlock.c:76`, `condvar.c:66`),
which never block it, and the test of `initialized` before the `preemption_disable()`
of the semaphore's and the read-write lock's calls (`semaphore.c:78`, `116`, `138`,
`198`, `rwlock.c:124`) and of `uthread_mutex_unlock`. Nothing in the code makes them
atomic. The models assume a program that synchronises destruction with use: no call on
an object begins, or stands between its test and its section, while a destroy of that
object is under way. Threads already inside a call are not excluded: a thread that was
woken and has not run yet comes back to the destroyed object. For the calls that may
be the first use of a mutex or a condition the test of `initialized` is a step of its
own, because two first users racing through it are part of lazy initialisation, which
the library offers. `held`, `taken`, `supply`, `reads`, `writes`, `depth` and
`creator` are the program's own account, kept to state properties; no action of the
library reads them. The guards that do read them say what a correct program does
("Must be called by thread that holds the lock", `uthread.h`).

**CondVar** extends Mutex: a condition wait writes the mutex's fields itself and
shares the mutex's wait queue, so the two are checked together. A call on an
uninitialised condition reads `initialized`, allocates and enters in separate steps.

**Semaphore** keeps the value in an int of `Word` values: the cast in
`uthread_sem_init` and the increment in `uthread_sem_post` wrap.

**AbstractLock** is the contract of a mutex: one holder with a depth.

Constants choose between the behaviours the library handles and those it does not:

| constant | values |
|---|---|
| `ParkTicks` (Mutex, CondVar, Semaphore, RWLock) | FALSE: no preempting tick falls between the `preemption_enable()` of a wait loop and its `scheduler_schedule()`. TRUE: it may, as in the code |
| `InitModes` (Mutex, CondVar), `CondModes` (CondVar) | how the program may set the mutex or the condition up: `"init"` by `uthread_mutex_init`, `"zero"` by lazy initialisation of zeroed memory, `"static"` by the static initializer. The variables `mode` and `cond_mode` record the choice, so that a property can be stated for one of them |
| `Programs` (Lifecycle) | `"owner"`: only its creator joins or detaches a thread, and detaches it after its exit. `"free"`: anybody, at any time, also at creation. The variable `program` records the choice |
| `Controllers` (Preemption) | the threads that call `uthread_set_preemption` and `uthread_set_timeslice` |
| `TimedWaits` (Semaphore, CondVar) | whether the program makes timed waits |

## 3. Runs

Passing runs:

| run | bounds | shows |
|---|---|---|
| Mutex_safety | 3 threads, all types, explicit and lazy initialisation, depth 2 | exclusion and ownership, no lost wake-up, the wait queue, the abstract lock; a freed mutex with waiters is taken again |
| Semaphore_safety | 3 threads, timed waits, 3 units, an int from -3 to 2, initial values 0, 1 and 5 (which is -1) | units conserved up to the width of the int, and promised to woken threads; a post reaches a sleeper |
| Lifecycle_safety | 4 threads, table of 3, owner and free programs, shutdown and restart | joiners woken, the table exact, no use of freed threads |
| RoundRobin_safety | 4 threads, slice 2 | FIFO; implements Scheduler; every queued thread is served; no thread is lost but by the yield of a READY thread |
| Priority_safety | 4 threads on 3 levels | bitmap and queues agree, highest first, round-robin within a level; implements Scheduler |
| CFS_safety | 3 threads, nice 0 and 3 (an endless and a finite slice), times up to 2 and vruntimes up to 4 granularities, `Word` 8 | the tree sorted whatever is charged; lowest vruntime first; nobody more than a granularity behind after a tick; implements Scheduler; no thread is lost but by the yield of a READY thread |
| RBTree_safety | 8 threads, keys in tied pairs, all sequences of operations, step by step (1,543,512 states) | red-black rules and parent links; cache and search exact; implements RunOrder |
| Preemption_safety | 3 threads, one of them controls the timer, 2 intervals | critical sections masked wherever ticks fall; flag, `s_timer_active`, timer and timeslice agree |
| RWLock_safety | 4 threads, 2 nested reads | exclusion, pending count, wake-ups; a free lock with sleeping writers is taken again |
| CondVar_safety | 3 threads, timed waits, explicit, static and lazy initialisation of the condition, explicit and lazy of the mutex, depth 2 | sleepers are where signals and broadcasts find them, and in no other queue; mutex waiters are served |

Violation runs, each with the line of the repository it contradicts (quoted in
`PROJECT.json` under findings):

| run | what the code does |
|---|---|
| Mutex_park | a tick in the park window links a waiter in two lists |
| RoundRobin_lone_yield | a yield that selects the yielder leads to its loss |

Three definitions state what the repository says and the code does not do. They are in
no passing run, and no constant or exception saves them; TLC refutes each when it is
named in the cfg:

| definition | add to | the code, and what it contradicts | counterexample |
|---|---|---|---|
| `ContextOwn` | `INVARIANT` of Preemption_safety.cfg | `scheduler.c:202`-`209` sets `current` before `swapcontext` saves; `internal.h:61` gives each thread a context of its own | `Wait`, `Park`, `timer_signal_handler`: the waiter's stack is saved in the context of the thread chosen next |
| `ReacquiresAsHeld` | `PROPERTY` of CondVar_safety.cfg | `condvar.c:157` sets `recursion_count = 1`; `uthread.h:564`, "Reacquires mutex before returning" | a RECURSIVE mutex locked twice, a wait that times out (or is signalled): it comes back held once |
| `ReapedAfterExit` | `INVARIANT` of Lifecycle_safety.cfg | `uthread.c:122` frees threads in every state; `uthread.h:241`, "Waits for all threads to terminate" | `Create`, `Shutdown` |

What is true instead is proved in section 4: `ContextsLostOnlyAtSwap`,
`WaitReturnsWithMutex` and `OnlyShutdownFreesRunning` say that these are the only ways
in which the three go wrong.

Further behaviours that the models have and the properties above make room for.
Each can be seen by changing one constant or dropping one condition:

- `uthread_exit` of a detached thread frees the structure and the stack it runs on
  and then switches away from them (`uthread.c:375`, "If detached, schedule cleanup");
  `UsedAlive` speaks of the current thread in owner programs only.
- A thread first dispatched by a tick calls `preemption_enable()` with the counter at
  0, which returns without unblocking `SIGALRM` (`timer.c:178`, against
  `context.c:28`, "Enable preemption now that we're running"): program code then runs
  where the timer cannot preempt it.
- With two threads in `Controllers`, a thread preempted in `timer_start` between
  `setitimer` and `s_timer_active = 1` sets the flag after another has stopped the
  timer; from then on `timer_start` returns early and preemption stays off although
  it is enabled (`uthread.c:720`). A timeslice set in that window is not armed.
- Under CFS a leftmost thread that is ahead makes the unsigned difference wrap, and
  every tick preempts (`sched_cfs.c:426`); a thread of nice 0 gets an endless slice
  (`sched_cfs.c:336`); every tick charges the whole run again, and the main thread the
  whole uptime (`scheduler.c:272`); a thread that blocks is not charged at all; a yield
  may select the yielder next to waiting threads and leaves it READY.
- `cfs_remove` does not find a linked thread that a rotation moved to the left of its
  equal (`sched_cfs.c:366`); its only caller removes a thread that is not linked.
- On a condition variable set up statically, or by a first user whose queue another
  first user replaced, a sleeper is never signalled (`condvar.c:100`,
  `uthread.h:209`); a timed wait without a queue returns at once in state BLOCKED.
- A post at `INT_MAX` makes the semaphore's value negative (`semaphore.c:205`).
- A mutex from the static initializer is marked initialized and has no queue, so
  its waiters are never woken (`uthread.h:199`; mode `"static"`, without the
  condition in `NoLostWakeup`).
- Two racing lazy initialisations lose the queue of the first, and a waiter in it
  (`mutex.c:136`).
- An expired timed wait uses up the wake-up of a post (`semaphore.c:175`). The
  variable `stranded` counts such units; `UnitsPromised` and `PostDelivered` hold
  up to them. A timed wait that sleeps is not woken at its deadline
  (`semaphore.c:168`, against `uthread.h:661`): `Expire` changes nobody's state.
- In a free program the target of a join may be freed before the join's critical
  section (`uthread.c:246`); `UsedAlive` has that part for owner programs.
- A full table ends the process in an assertion (`scheduler.c:158`, against
  `uthread.h:270`) and is the state `aborted`.
- A reader blocks for pending writers although no writer holds the lock
  (`rwlock.c:140`, against `uthread.h:707`), also when it reads already, which
  deadlocks.
- A timed-out condition waiter goes on in state BLOCKED (`condvar.c:226`).
- Under Priority, too, a yield that selects the yielder leaves it READY and unqueued.

**Bounds.** Three threads are a holder, a woken thread and a barging one, the
smallest cast in which a wake-up can be lost; four add a second sleeper. Depth 2 is
the first nesting, three levels have a lowest, a middle and a highest, a table of
three is full with four threads, and three units are as many as the threads that can
wait for them and one more than `INT_MAX` of the small int. Eight nodes make a tree
deep enough for every case of both fix-ups, with ties. A vruntime of four
granularities lets a thread be ahead, level and behind by more than one.
`MaxDepth`, `MaxSupply`, `MaxReads`, `Slice`, `Levels`, `MaxThreads`, `MaxStep`,
`MaxRan`, `MaxVruntime`, `Word` and `Size` name every bound. Symmetry is used only in
runs that check no liveness property, over threads that are interchangeable: in
Preemption those that do not control the timer.

**Fairness.** (a) A thread dispatched again and again completes its library call
(SF): ticks are at least 1 ms apart, far longer than such a section. (b) A program
thread in user code with the CPU yields in the end (WF); this stands in for the
timer, of which nothing is assumed because it may be shut out of program code (see
above). (c) The policy does not pass over a ready thread for ever (SF); this is
`Served` for Round-Robin, and does not hold for Priority. Nothing is assumed of a
program's unlocks, posts and releases, nor of deadlines: `HandOver`, `PostDelivered`
and `WriterServed` start from a lock that is free or a unit that is there.

## 4. Proofs

Each theorem holds for every set of threads (finite where noted) and every value of
the other constants that its statement does not restrict. The argument is the same
throughout: an inductive invariant, stated in the component's module and checked with
TLC on the bounds of its run before it was proved; one lemma for each kind of step;
the properties as its consequences.

| module | theorem: property | inductive invariant, beyond the types |
|---|---|---|
| SchedulerProofs | lemmas on wait queues, lists, dispatch, blocking and waking, cited by all others | |
| MutexProofs | `TypeCorrect`; `OwnershipHolds`: Ownership; `MutexSafe`: MutualExclusion; `Refinement`: ImplementsLock | `Ownership`: it ties lock word and owner to `held`, which exclusion alone does not, and the recursion count to the unlocks still due |
| | `QueueCorrect`: QueueDiscipline; `WakeupNotLost`: NoLostWakeup | `WaitQueueOK`: every sleeper is queued, no queued thread is ready, and a free mutex with a queue has a woken thread on its way |
| | `NoSignalIsMissed`: SleepersQueued, wherever ticks fall | `SleepersOK`: besides, a condition set up by `uthread_cond_init` keeps its queue and nobody is in a first use of it |
| | `MutexQueueIsServed`: MutexQueueServed; `CondQueuesCorrect`: SleepersSignallable | `CondQueuesOK`: who is in the mutex's queue sleeps in a lock call, who is in the condition's queue sleeps in a wait, and only a thread about to give the CPU up is queued and current |
| | `WaitReturnsWithMutex` | `DepthOK`: a depth is remembered only inside a wait, and who is in a lock call could lock once more |
| SemaphoreProofs | `UnitsAreConserved`: UnitsConserved; `UnitsArePromised`: UnitsPromised | conservation is inductive with a lower bound on `supply`; the promise needs `WaitQueueOK` |
| RWLockProofs | `ReadersWriterExclusion`: Exclusion; `PendingIsExact`: PendingExact; `NoWakeupIsLost`: NoLostWakeup | `LockInv`, which bounds the reads of a waiting reader; `WaitQueuesOK` for the wake-ups |
| LifecycleProofs | `JoinersAreWoken`: JoinerWoken; `TableIsExact`: TableExact; `NothingFreedIsUsed`: UsedAlive; `OnlyShutdownFreesRunning` | `LifeInv`: only existing threads are ready, `joiner` and the joiner's `target` pair up, and in owner programs a join target belongs to its joiner and is allocated |
| PreemptionProofs | `CriticalSectionsMasked`: CriticalMasked; `ContextsLostOnlyAtSwap`; `TimerInStep`: TimerAgrees | `SectionsMasked`: a section that is switched out keeps its mask and no context resumes inside one; `RunsCurrent`: every execution is in its own context and the CPU runs `current` except just before `swapcontext`; it is no invariant, and the theorem names the one step that breaks it; `TimerInv`: where in `timer_start` flag, timer and `s_timer_active` differ |
| PriorityProofs | `BitmapIsExact`: BitmapExact; `HighestRunsFirst`: HighestFirst; `LevelsAreFIFO`: RoundRobinWithinLevel; `PriorityImplementsScheduler`: ImplementsScheduler | `QueuesOK`: besides, queued threads are READY, and the running thread is neither queued nor BLOCKED |
| | `RoundRobinImplementsScheduler`, `RoundRobinIsFIFO`, `RoundRobinKeepsRunnable`: ImplementsScheduler, NoOvertaking and KeptUnlessReady of the instance `RR` of RoundRobin | `QueueOK`, the same of one queue |
| CFSProofs | `TreeStaysSorted`: TreeSorted; `LowestRunsFirst`: LowestFirst; `TicksAreFair`: TickFair; `CFSKeepsRunnable`: KeptUnlessReady; `CFSImplementsScheduler`: ImplementsScheduler | `TreeOK`: besides, linked threads are READY, and the running thread is neither linked nor BLOCKED |
| | `TreeIsRedBlack`: RedBlack; `TreeLookupsExact`: LookupsExact; `TreeImplementsOrder`: ImplementsOrder | `TreeInv`, explained below |

MutexProofs treats the condition variable too, because CondVar extends Mutex,
PriorityProofs treats Round-Robin, because both keep FIFO queues and share the list
lemmas, and CFSProofs treats the tree of CFS.

**The red-black tree.** `RedBlack`, `LookupsExact` and `ImplementsOrder` speak of paths
and traversals of any depth. `TreeInv` says that there are values which turn them into
facts about a node and its neighbours: the order `q` and the place `pos` of each thread
in it; the span `ext` of places that the subtree at a node holds, which the node divides
between its children (`Shape`); the number `bh` of black nodes below a node, the same by
way of either child (`Heights`). While `rb_remove_fixup` is at work the child of `up` on
one side is one black node short, and `Heights` counts the debt there. `Calm` says where
a red node may lie below a red one while a fix-up runs, `Loose` that the links of an
unlinked thread are cleared, `Cached` what `leftmost` and `count` are, and `Cursor` how
far a descent, a search or a repair has come. A rotation keeps `q` and changes the spans
of two nodes (`TurnShape`, `TurnHeights`); `InsertStep` puts a place into `q`
(`GrowShape`); `RemoveStep` takes one out (`CutShape`) and, for a node with two children,
lets the next in order take over its place (`MovedShape`). There is one lemma for each
step of the two fix-ups (`ClimbStep` to `TurnFarStep`). At the end `InOrderIs`,
`MinimumIs` and `HeightsAre` show that the recursive functions of RBTree compute what
the invariant says, each by looking at the smallest span for which they would not: that
is induction over the tree, in a form the provers can follow. Unlike the other
inductive invariants `TreeInv` quantifies over functions, and TLC checks only what
follows from it.

**The policies and the core.** Every proof about a synchronisation object is about
Scheduler, in which the next thread is any ready one. The three refinement theorems
say that Round-Robin, Priority and CFS each implement it, with `ready` mapped to the
threads in their structure. `TreeImplementsOrder` adds
that the pointers of the red-black tree implement the order that CFS uses. All of this
is for any number of threads, levels and keys.

**Restrictions in the statements**, and where they come from:

- `ParkTicks = FALSE` (wake-ups and queues of the mutex, condition, semaphore and
  read-write lock): the code does not rule such ticks out, and with them the
  properties are false; `Mutex_park` shows it for the mutex. These theorems say that
  the queues go wrong in no other way. That a sleeper of a condition is in its queue,
  exclusion, ownership, the contract of the lock, the conservation of units, the
  pending count, what `uthread_cond_wait` returns with and the masking of critical
  sections are proved with and without them. For Lifecycle no such restriction is
  needed.
- mode `"init"` in QueueDiscipline, NoLostWakeup and SleepersQueued: the static
  initializers and two racing first users lose queues (section 3).
- `\A t, u \in Controllers : t = u` in `TimerInStep`: two controllers break the
  property (section 3).
- Lists of threads are finite, so a policy's theorems assume `IsFiniteSet(Thread)`;
  a slice and the number of levels are positive.
- CFS: `MaxVruntime + Granularity < Word` says that a run is followed only as long as
  no virtual runtime wraps at 2^64. Because every tick charges the whole run again, a
  thread that is never switched out gets there within hours (`sched_cfs.c:396`), and
  what happens then is not modelled. Below the wrap the unsigned difference of
  `cfs_should_preempt` is harmless: it is exact when the running thread is ahead, and
  when it wraps the thread is preempted, which does not hurt fairness.

The assumptions on constants (`IdleAssumption`, `MutexAssumption` and those of the
other modules) are evaluated by TLC in every run of the module that declares them.

**Only model-checked.** `HandOver`, `PostDelivered`, `Served` and `WriterServed`:
liveness, for which fairness and ENABLED are out of the prover's reach; that the loops
of RBTree end is not stated, only that they do not get stuck: TLC finds no deadlock in
its run. Every safety invariant and action property of the passing runs is a theorem.
`OneQueue` and `RunnableKept` are violated in the violation runs, and `ContextOwn`,
`ReacquiresAsHeld` and `ReapedAfterExit` as section 3 says.

## 5. Not modelled

The pointer level of the doubly linked lists (the tree has it); attributes, names,
statistics and debug output, which are getters, setters and printing; stack mapping;
`uthread_sleep` as an action of its own, each of its turns being a `Yield`; cleanup
handlers and cancellation, which nothing registers; two racing first users, and the
static initializer, of a read-write lock, whose fields the second user zeroes; calls on
a synchronisation object that begin while it is being destroyed (section 2). When the
second allocation of `uthread_rwlock_init` fails, `read_waiters` keeps the address of
freed memory (`rwlock.c:66`); the model has no queue there, which no call can tell apart
because a lock that is not initialised is set up again before its queues are read.
Allocation failure is modelled where it leaves a half-made object. Calls rejected for
NULL arguments change nothing and are left out.

## 6. Plan

1. Done: all modules of section 2 with their runs, and the proofs of section 4.
2. LinkedQueues: the doubly linked lists of `scheduler.c` and `sched_rr.c`, refining
   the sequences used here.
