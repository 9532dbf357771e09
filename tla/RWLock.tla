------------------------------- MODULE RWLock -------------------------------
(***************************************************************************)
(* src/src/rwlock.c: one read-write lock shared by all threads, set up by  *)
(* uthread_rwlock_init.                                                    *)
(*                                                                         *)
(* pc[t] is "user" outside the library; "rd_park" and "wr_park" between    *)
(* the preemption_enable() of a wait loop and its scheduler_schedule();    *)
(* "rd_retry" and "wr_retry" after that call.  The sections in between run *)
(* with SIGALRM blocked, one action each.  Both wait queues are NULL       *)
(* exactly while initialized is FALSE.                                     *)
(***************************************************************************)
EXTENDS Scheduler, Integers, FiniteSets

CONSTANTS MaxReads,  \* bound on the read locks one thread holds
          ParkTicks, \* TRUE: the timer may also fire at "rd_park", "wr_park"
          None       \* NULL as a writer

ASSUME RWLockAssumption ==
  /\ MaxReads \in Nat \ {0}
  /\ ParkTicks \in BOOLEAN
  /\ None \notin Thread
  /\ IsFiniteSet(Thread)

VARIABLES readers, writer, writer_owner, pending_writers,
          read_waiters, write_waiters, initialized,
          pc,
          reads,  \* read locks t has acquired and not released
          writes  \* t has acquired and not released the write lock

lockVars == <<readers, writer, writer_owner, pending_writers>>
queueVars == <<read_waiters, write_waiters, initialized>>
vars == <<schedVars, lockVars, queueVars, pc, reads, writes>>

TypeOK ==
  /\ SchedTypeOK
  /\ readers \in Nat
  /\ writer \in {0, 1}
  /\ writer_owner \in Thread \cup {None}
  /\ pending_writers \in Nat
  /\ read_waiters \in Seq(Thread)
  /\ write_waiters \in Seq(Thread)
  /\ initialized \in BOOLEAN
  /\ pc \in [Thread -> {"user", "rd_park", "rd_retry", "wr_park", "wr_retry"}]
  /\ reads \in [Thread -> 0 .. MaxReads]
  /\ writes \in [Thread -> BOOLEAN]

Init ==
  /\ SchedInit
  /\ readers = 0
  /\ writer = 0
  /\ writer_owner = None
  /\ pending_writers = 0
  /\ read_waiters = <<>>
  /\ write_waiters = <<>>
  /\ initialized = TRUE
  /\ pc = [t \in Thread |-> "user"]
  /\ reads = [t \in Thread |-> 0]
  /\ writes = [t \in Thread |-> FALSE]

At(t, label) == current = t /\ pc[t] = label

Goto(t, label) == pc' = [pc EXCEPT ![t] = label]

-----------------------------------------------------------------------------
(* Mutant: readers do not make way for waiting writers.                    *)
ReadersOnly == writer = 0

(* The conditions under which the wait loops are left.                     *)
ReadAllowed == writer = 0 /\ pending_writers = 0

(* Mutant: a writer does not wait for the readers to finish.               *)
WriterOnly == writer = 0

WriteAllowed == readers = 0 /\ writer = 0

(* A program thread asks for a lock it can get: not for a second one next  *)
(* to a write lock, and not for the write lock next to a read lock.        *)
MayRead(t) == At(t, "user") /\ initialized /\ ~writes[t] /\ reads[t] < MaxReads

MayWrite(t) == At(t, "user") /\ initialized /\ ~writes[t] /\ reads[t] = 0

AcquireRead(t) ==
  /\ readers' = readers + 1
  /\ reads' = [reads EXCEPT ![t] = @ + 1]
  /\ Goto(t, "user")
  /\ UNCHANGED <<schedVars, queueVars, writer, writer_owner, pending_writers, writes>>

EnqueueReader(t) ==
  /\ state' = [state EXCEPT ![t] = "BLOCKED"]
  /\ read_waiters' = IF initialized THEN wait_queue_add(read_waiters, t)
                     ELSE read_waiters
  /\ Goto(t, "rd_park")
  /\ UNCHANGED <<current, ready, lockVars, write_waiters, initialized, reads, writes>>

ReadLock(t) ==
  /\ MayRead(t) \/ At(t, "rd_retry")
  /\ IF ReadAllowed THEN AcquireRead(t) ELSE EnqueueReader(t)

TryReadLock(t) == MayRead(t) /\ ReadAllowed /\ AcquireRead(t)

(* waiting is 1 when t is one of the pending writers.                      *)
AcquireWrite(t, waiting) ==
  /\ pending_writers' = pending_writers - waiting
  /\ writer' = 1
  /\ writer_owner' = t
  /\ writes' = [writes EXCEPT ![t] = TRUE]
  /\ Goto(t, "user")
  /\ UNCHANGED <<schedVars, queueVars, readers, reads>>

(* Mutant: a writer counts itself as pending on every turn of the loop.    *)
EnqueueCountsAgain(t, waiting) ==
  /\ pending_writers' = pending_writers + 1
  /\ state' = [state EXCEPT ![t] = "BLOCKED"]
  /\ write_waiters' = IF initialized THEN wait_queue_add(write_waiters, t)
                      ELSE write_waiters
  /\ Goto(t, "wr_park")
  /\ UNCHANGED <<current, ready, readers, writer, writer_owner, read_waiters,
                 initialized, reads, writes>>

EnqueueWriter(t, waiting) ==
  /\ pending_writers' = pending_writers + 1 - waiting
  /\ state' = [state EXCEPT ![t] = "BLOCKED"]
  /\ write_waiters' = IF initialized THEN wait_queue_add(write_waiters, t)
                      ELSE write_waiters
  /\ Goto(t, "wr_park")
  /\ UNCHANGED <<current, ready, readers, writer, writer_owner, read_waiters,
                 initialized, reads, writes>>

(* A new writer counts itself as pending before its first test.            *)
WriteLock(t) ==
  /\ MayWrite(t)
  /\ IF WriteAllowed THEN AcquireWrite(t, 0) ELSE EnqueueWriter(t, 0)

WriteRetry(t) ==
  /\ At(t, "wr_retry")
  /\ IF WriteAllowed THEN AcquireWrite(t, 1) ELSE EnqueueWriter(t, 1)

TryWriteLock(t) == MayWrite(t) /\ WriteAllowed /\ AcquireWrite(t, 0)

Park(t) ==
  /\ \/ At(t, "rd_park") /\ Goto(t, "rd_retry")
     \/ At(t, "wr_park") /\ Goto(t, "wr_retry")
  /\ scheduler_schedule(state, ready)
  /\ UNCHANGED <<lockVars, queueVars, reads, writes>>

WakeWriter ==
  /\ scheduler_unblock(Woken(write_waiters))
  /\ write_waiters' = AfterWake(write_waiters)
  /\ UNCHANGED read_waiters

WakeReaders ==
  /\ scheduler_unblock(Members(read_waiters))
  /\ read_waiters' = <<>>
  /\ UNCHANGED write_waiters

WakeNobody == UNCHANGED <<schedVars, read_waiters, write_waiters>>

(* Writers are preferred.                                                  *)
UnlockWriter(t) ==
  /\ writer' = 0
  /\ writer_owner' = None
  /\ writes' = [writes EXCEPT ![t] = FALSE]
  /\ IF write_waiters # <<>> THEN WakeWriter ELSE WakeReaders
  /\ UNCHANGED <<readers, pending_writers, reads>>

(* Mutant: the last reader wakes nobody.                                   *)
UnlockReaderQuiet(t) ==
  /\ readers' = readers - 1
  /\ reads' = [reads EXCEPT ![t] = @ - 1]
  /\ WakeNobody
  /\ UNCHANGED <<writer, writer_owner, pending_writers, writes>>

UnlockReader(t) ==
  /\ readers' = readers - 1
  /\ reads' = [reads EXCEPT ![t] = @ - 1]
  /\ IF readers = 1 THEN WakeWriter ELSE WakeNobody
  /\ UNCHANGED <<writer, writer_owner, pending_writers, writes>>

(* The caller holds a lock; anyone else is refused with EPERM while the    *)
(* lock is written or free, and would release another's read lock.         *)
Unlock(t) ==
  /\ At(t, "user")
  /\ reads[t] > 0 \/ writes[t]
  /\ initialized
  /\ \/ writer # 0 /\ writer_owner = t /\ UnlockWriter(t)
     \/ writer = 0 /\ readers > 0 /\ UnlockReader(t)
  /\ UNCHANGED <<initialized, pc>>

(* uthread_rwlock_destroy blocks no signal; it is one step because the     *)
(* program begins no call on the lock before it returns (see Mutex).       *)
Destroy(t) ==
  /\ At(t, "user")
  /\ initialized
  /\ readers = 0 /\ writer = 0
  /\ read_waiters = <<>> /\ write_waiters = <<>>
  /\ initialized' = FALSE
  /\ UNCHANGED <<schedVars, lockVars, read_waiters, write_waiters, pc, reads, writes>>

(* uthread_rwlock_init of a lock nobody uses; ok is both mallocs.  When    *)
(* the second fails read_waiters is left dangling, which no call on a lock *)
(* that is not initialised looks at.                                       *)
RWLockInit(t) ==
  /\ At(t, "user")
  /\ ~initialized
  /\ \A u \in Thread : pc[u] = "user" /\ reads[u] = 0 /\ ~writes[u]
  /\ \E ok \in BOOLEAN : initialized' = ok
  /\ readers' = 0 /\ writer' = 0 /\ writer_owner' = None /\ pending_writers' = 0
  /\ read_waiters' = <<>> /\ write_waiters' = <<>>
  /\ UNCHANGED <<schedVars, pc, reads, writes>>

Yield(t) ==
  /\ At(t, "user")
  /\ uthread_yield(t)
  /\ UNCHANGED <<lockVars, queueVars, pc, reads, writes>>

Tick(t) ==
  /\ pc[t] \in {"rd_park", "wr_park"} => ParkTicks
  /\ scheduler_tick(t)
  /\ UNCHANGED <<lockVars, queueVars, pc, reads, writes>>

Step(t) ==
  \/ ReadLock(t) \/ TryReadLock(t) \/ WriteLock(t) \/ WriteRetry(t)
  \/ TryWriteLock(t) \/ Park(t) \/ Unlock(t) \/ Destroy(t) \/ RWLockInit(t)
  \/ Yield(t) \/ Tick(t)

Next == \E t \in Thread : Step(t)

Spec == Init /\ [][Next]_vars

(* Fairness as in Mutex.                                                   *)
Library(t) == (At(t, "rd_retry") /\ ReadLock(t)) \/ WriteRetry(t) \/ Park(t)

Dispatched(t) == Next /\ current # t /\ current' = t

FairSpec ==
  /\ Spec
  /\ \A t \in Thread : /\ SF_vars(Library(t))
                       /\ WF_vars(Yield(t))
                       /\ SF_vars(Dispatched(t))

-----------------------------------------------------------------------------
(* The read locks held, each with its number among those of its thread.    *)
ReadLocks == {h \in Thread \X (1 .. MaxReads) : h[2] <= reads[h[1]]}

(* "Multiple readers, single writer": no thread has the lock, for reading  *)
(* or writing, next to a thread that has it for writing; and the fields    *)
(* that rdlock, wrlock and unlock decide on agree with who holds what.     *)
Exclusion ==
  /\ \A t, u \in Thread : writes[t] /\ (writes[u] \/ reads[u] > 0) => t = u
  /\ \A t \in Thread : writes[t] <=> writer_owner = t
  /\ writer = IF \E t \in Thread : writes[t] THEN 1 ELSE 0
  /\ readers = Cardinality(ReadLocks)

Pending == {t \in Thread : pc[t] \in {"wr_park", "wr_retry"}}

(* pending_writers is exactly the number of threads inside                 *)
(* uthread_rwlock_wrlock, on every path through it: were it ever left too  *)
(* high, no reader would get in again.                                     *)
PendingExact == pending_writers = Cardinality(Pending)

(* Exclusion and PendingExact are inductive with the types and the bound   *)
(* on the read locks of a thread that waits for one more.                  *)
LockInv ==
  /\ TypeOK
  /\ Exclusion
  /\ PendingExact
  /\ \A t \in Thread : pc[t] \in {"rd_park", "rd_retry"} => reads[t] < MaxReads

Awake(t) == t \in ready \cup {current}

(* No wake-up of rwlock.c is lost: next to a free lock a sleeping writer   *)
(* has a woken writer ahead of it, and a sleeping reader has a writer that *)
(* holds the lock or waits for it and will wake it in the end.             *)
NoLostWakeup ==
  /\ WriteAllowed /\ write_waiters # <<>> =>
       \E t \in Thread : pc[t] = "wr_retry" /\ Awake(t)
  /\ read_waiters # <<>> => writer = 1 \/ pending_writers > 0

(* Who is queued sleeps in the call whose queue it is in, and is queued    *)
(* once; who runs does not sleep, unless it is about to give the CPU up.   *)
(* With LockInv and NoLostWakeup this is inductive.                        *)
WaitQueuesOK ==
  /\ RunStructureOK
  /\ Distinct(read_waiters) /\ Distinct(write_waiters)
  /\ \A t \in Members(read_waiters) :
       pc[t] \in {"rd_park", "rd_retry"} /\ state[t] = "BLOCKED"
  /\ \A t \in Members(write_waiters) :
       pc[t] \in {"wr_park", "wr_retry"} /\ state[t] = "BLOCKED"
  /\ \A t \in Thread : pc[t] \in {"rd_park", "wr_park"} => t = current
  /\ current \in Thread =>
       (state[current] = "BLOCKED" <=> pc[current] \in {"rd_park", "wr_park"})

(* Writers wait in pending_writers "to prevent writer starvation": once    *)
(* the lock is free, a pending writer sees a writer get it, however many   *)
(* readers come and however often the woken writer is overtaken.           *)
WriterServed == (WriteAllowed /\ pending_writers > 0) ~> writer = 1
=============================================================================
